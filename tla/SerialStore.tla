------------------------------ MODULE SerialStore ------------------------------
(***************************************************************************)
(* What a MetricsStoreLike promises to whoever calls it, wherever it runs: *)
(* a call takes effect at most once and only while the caller waits; one   *)
(* that is answered with success did.  A call that fails or is abandoned   *)
(* may have taken effect, but will not do so any more.  WorkerStore is     *)
(* shown to implement this module.                                         *)
(***************************************************************************)
CONSTANT Calls

VARIABLES
    phase,      \* "opening", "serving", "stopping", "ended"
    waiting,    \* the calls that were made and have not been answered
    outcome,    \* how each call was answered
    ran         \* the calls that took effect, at least in part

vars == <<phase, waiting, outcome, ran>>

Outcomes == {"none", "ok", "error", "refused", "abandoned"}

Init ==
    /\ phase = "opening"
    /\ waiting = {}
    /\ outcome = [r \in Calls |-> "none"]
    /\ ran = {}

Fresh(r) == r \notin waiting /\ outcome[r] = "none"

Call(r) ==
    /\ phase = "serving"
    /\ Fresh(r)
    /\ waiting' = waiting \cup {r}
    /\ UNCHANGED <<phase, outcome, ran>>

Refuse(r) ==
    /\ phase # "opening"
    /\ Fresh(r)
    /\ outcome' = [outcome EXCEPT ![r] = "refused"]
    /\ UNCHANGED <<phase, waiting, ran>>

Run(r) ==
    /\ r \in waiting \ ran
    /\ ran' = ran \cup {r}
    /\ UNCHANGED <<phase, waiting, outcome>>

\* Only success says whether the call took effect.
Answer(r, result) ==
    /\ r \in waiting
    /\ result = "ok" => r \in ran
    /\ waiting' = waiting \ {r}
    /\ outcome' = [outcome EXCEPT ![r] = result]
    /\ UNCHANGED <<phase, ran>>

Serve ==
    /\ phase = "opening"
    /\ phase' = "serving"
    /\ UNCHANGED <<waiting, outcome, ran>>

Stop ==
    /\ phase = "serving"
    /\ phase' = "stopping"
    /\ UNCHANGED <<waiting, outcome, ran>>

End ==
    /\ phase \in {"opening", "stopping"}
    /\ phase' = "ended"
    /\ waiting' = {}
    /\ outcome' = [r \in Calls |-> IF r \in waiting THEN "abandoned" ELSE outcome[r]]
    /\ UNCHANGED ran

Next ==
    \/ \E r \in Calls : Call(r) \/ Refuse(r) \/ Run(r)
    \/ \E r \in Calls, result \in {"ok", "error"} : Answer(r, result)
    \/ Serve \/ Stop \/ End

Spec == Init /\ [][Next]_vars
================================================================================
