------------------------------ MODULE WorkerStore ------------------------------
(***************************************************************************)
(* The store in a worker: WorkerMetricsStore of worker-store.ts in the     *)
(* renderer, WorkerStoreServer of worker-server.ts in the worker, and the  *)
(* messages between them.  A request is one model value, which is its id;  *)
(* each is sent at most once.                                              *)
(***************************************************************************)
EXTENDS Sequences, Functions

CONSTANTS
    Foreground,     \* ingest, queries, import and the other foreground requests
    Maintenance,    \* the requests of isMaintenanceRequest
    Open, Close,    \* the two requests the client makes for itself
    None            \* no request

Calls == Foreground \cup Maintenance
Requests == Calls \cup {Open, Close}

ASSUME WorkerAssumption ==
    /\ Foreground \cap Maintenance = {}
    /\ {Open, Close} \cap Calls = {}
    /\ Open # Close
    /\ None \notin Requests

VARIABLES
    client,         \* where WorkerMetricsStore is, see ClientStates
    pending,        \* the requests that wait for an answer
    outcome,        \* how the promise of each request was settled
    toWorker,       \* messages under way to the worker
    toRenderer,     \* answers under way
    alive,          \* whether the worker runs
    foreground, maintenance,    \* its two queues
    running,        \* the request being dispatched and how it ended
    store,          \* whether this.store of the server is set
    sent, started,  \* history: the requests in the order they were posted, dispatched
    ran             \* history: the calls that took effect, at least in part

renderer == <<client, pending, outcome>>
server == <<alive, foreground, maintenance, running, store, started>>
vars == <<renderer, toWorker, toRenderer, server, sent, ran>>

\* draining: close waits for the pending requests; drained: it goes on; closing:
\* it waits for the answer to its own request; closed: forceClose has run.
ClientStates == {"new", "opening", "ready", "draining", "drained", "closing", "closed"}

Dispatch(r, result) == [request |-> r, result |-> result]
Idling == Dispatch(None, "none")

TypeOK ==
    /\ client \in ClientStates
    /\ pending \subseteq Requests
    /\ outcome \in [Requests -> {"none", "ok", "error", "refused", "abandoned"}]
    /\ toWorker \in Seq(Requests)
    /\ toRenderer \in Seq([request : Requests, result : {"ok", "error"}])
    /\ alive \in BOOLEAN
    /\ foreground \in Seq(Foreground \cup {Open, Close})
    /\ maintenance \in Seq(Maintenance)
    /\ running \in [request : Requests \cup {None}, result : {"none", "ok", "error"}]
    /\ store \in BOOLEAN
    /\ sent \in Seq(Requests)
    /\ started \in Seq(Requests)
    /\ ran \subseteq Calls

Init ==
    /\ client = "new"
    /\ pending = {}
    /\ outcome = [r \in Requests |-> "none"]
    /\ toWorker = <<>> /\ toRenderer = <<>>
    /\ alive = TRUE
    /\ foreground = <<>> /\ maintenance = <<>>
    /\ running = Idling
    /\ store = FALSE
    /\ sent = <<>> /\ started = <<>>
    /\ ran = {}
--------------------------------------------------------------------------------
(***************************************************************************)
(* The server.  A message is handled, or an answer posted, in one go with  *)
(* the dispatch that follows from it.                                      *)
(***************************************************************************)
\* A call to a store that is not open is rejected before it does anything.
Start(r) ==
    /\ running' = Dispatch(r, IF r \in Calls /\ ~store THEN "error" ELSE "none")
    /\ store' = (store /\ r # Close)
    /\ started' = Append(started, r)

\* Mutant of Drain: the queues are taken in the wrong order.
DrainMaintenanceFirst(fg, mt) ==
    \/ /\ mt # <<>>
       /\ Start(Head(mt))
       /\ foreground' = fg /\ maintenance' = Tail(mt)
    \/ /\ mt = <<>> /\ fg # <<>>
       /\ Start(Head(fg))
       /\ foreground' = Tail(fg) /\ maintenance' = mt
    \/ /\ fg = <<>> /\ mt = <<>>
       /\ running' = Idling
       /\ foreground' = fg /\ maintenance' = mt
       /\ UNCHANGED <<store, started>>

\* drainQueue, on these queues and with no request being dispatched.
Drain(fg, mt) ==
    \/ /\ fg # <<>>
       /\ Start(Head(fg))
       /\ foreground' = Tail(fg) /\ maintenance' = mt
    \/ /\ fg = <<>> /\ mt # <<>>
       /\ Start(Head(mt))
       /\ foreground' = fg /\ maintenance' = Tail(mt)
    \/ /\ fg = <<>> /\ mt = <<>>
       /\ running' = Idling
       /\ foreground' = fg /\ maintenance' = mt
       /\ UNCHANGED <<store, started>>

IsMaintenance(r) == r \in Maintenance

\* handleRequest
HandleRequest ==
    /\ alive
    /\ toWorker # <<>>
    /\ LET r == Head(toWorker)
           fg == IF IsMaintenance(r) THEN foreground ELSE Append(foreground, r)
           mt == IF IsMaintenance(r) THEN Append(maintenance, r) ELSE maintenance
       IN  IF running = Idling
           THEN Drain(fg, mt)
           ELSE /\ foreground' = fg /\ maintenance' = mt
                /\ UNCHANGED <<running, store, started>>
    /\ toWorker' = Tail(toWorker)
    /\ UNCHANGED <<renderer, toRenderer, alive, sent, ran>>

\* What dispatch awaits.  An operation that fails may have taken effect before: a
\* statement after its COMMIT fails, or one of its several transactions does.
Execute ==
    /\ running.request # None
    /\ running.result = "none"
    /\ \/ /\ running' = Dispatch(running.request, "ok")
          /\ store' = (store \/ running.request = Open)
          /\ ran' = ran \cup ({running.request} \cap Calls)
       \/ /\ running' = Dispatch(running.request, "error")
          /\ UNCHANGED store
          /\ ran' \in {ran, ran \cup ({running.request} \cap Calls)}
    /\ UNCHANGED <<renderer, toWorker, toRenderer, alive, foreground, maintenance,
                   sent, started>>

\* Mutant of Respond: nothing is dispatched after an answer.
RespondOnly ==
    /\ running.request # None
    /\ running.result # "none"
    /\ toRenderer' = Append(toRenderer, running)
    /\ running' = Idling
    /\ UNCHANGED <<renderer, toWorker, alive, foreground, maintenance, store, started,
                   sent, ran>>

\* The operation has settled: post the answer and look for the next request.
Respond ==
    /\ running.request # None
    /\ running.result # "none"
    /\ toRenderer' = Append(toRenderer, running)
    /\ Drain(foreground, maintenance)
    /\ UNCHANGED <<renderer, toWorker, alive, sent, ran>>

\* The worker ends: terminated by the client, or by itself.
Terminated ==
    /\ alive' = FALSE
    /\ toWorker' = <<>>
    /\ foreground' = <<>> /\ maintenance' = <<>>
    /\ running' = Idling
    /\ store' = FALSE
    /\ UNCHANGED <<started, sent, ran>>

\* Nobody listens to the worker's error event.
WorkerDies ==
    /\ alive
    /\ Terminated
    /\ UNCHANGED <<renderer, toRenderer>>
--------------------------------------------------------------------------------
(***************************************************************************)
(* The client.                                                             *)
(***************************************************************************)
Settle(r, result) == outcome' = [outcome EXCEPT ![r] = result]

\* request: the message is posted, or posting it throws.
Post(r) ==
    /\ pending' = pending \cup {r}
    /\ toWorker' = IF alive THEN Append(toWorker, r) ELSE toWorker
    /\ sent' = Append(sent, r)
    /\ UNCHANGED outcome

PostThrows(r) ==
    /\ Settle(r, "refused")
    /\ UNCHANGED <<pending, toWorker, sent>>

StartOpen ==
    /\ client = "new"
    /\ client' = "opening"
    /\ Post(Open) \/ PostThrows(Open)
    /\ UNCHANGED <<toRenderer, server, ran>>

\* Mutant of ForceClose: the worker is left running.
ForceCloseKeepsWorker ==
    /\ client' = "closed"
    /\ outcome' = [r \in Requests |-> IF r \in pending THEN "abandoned" ELSE outcome[r]]
    /\ pending' = {}
    /\ toRenderer' = <<>>
    /\ UNCHANGED <<toWorker, server, sent, ran>>

ForceClose ==
    /\ client' = "closed"
    /\ outcome' = [r \in Requests |-> IF r \in pending THEN "abandoned" ELSE outcome[r]]
    /\ pending' = {}
    /\ toRenderer' = <<>>
    /\ Terminated

Opened ==
    /\ client = "opening"
    /\ outcome[Open] = "ok"
    /\ client' = "ready"
    /\ UNCHANGED <<pending, outcome, toWorker, toRenderer, server, sent, ran>>

OpenFails ==
    /\ client = "opening"
    /\ outcome[Open] \in {"error", "refused"}
    /\ ForceClose

OpenTimesOut ==
    /\ client = "opening"
    /\ Open \in pending
    /\ ForceClose

Fresh(r) == r \notin pending /\ outcome[r] = "none"

Call(r) ==
    /\ client = "ready"
    /\ Fresh(r)
    /\ Post(r)
    /\ UNCHANGED <<client, toRenderer, server, ran>>

\* The store is closing or closed, or posting throws.
Refuse(r) ==
    /\ client \notin {"new", "opening"}
    /\ Fresh(r)
    /\ PostThrows(r)
    /\ UNCHANGED <<client, toRenderer, server, ran>>

\* handleResponse, notifyIdle included.  An answer nobody waits for is dropped.
HandleResponse ==
    /\ toRenderer # <<>>
    /\ LET answer == Head(toRenderer)
       IN  /\ IF answer.request \in pending
              THEN /\ pending' = pending \ {answer.request}
                   /\ Settle(answer.request, answer.result)
              ELSE UNCHANGED <<pending, outcome>>
           /\ client' = IF client = "draining" /\ pending' = {} THEN "drained" ELSE client
    /\ toRenderer' = Tail(toRenderer)
    /\ UNCHANGED <<toWorker, server, sent, ran>>

\* Mutant of StartClose: the close request does not wait for the others.
StartCloseAtOnce ==
    /\ client = "ready"
    /\ client' = "drained"
    /\ UNCHANGED <<pending, outcome, toWorker, toRenderer, server, sent, ran>>

\* close
StartClose ==
    /\ client = "ready"
    /\ client' = IF pending = {} THEN "drained" ELSE "draining"
    /\ UNCHANGED <<pending, outcome, toWorker, toRenderer, server, sent, ran>>

\* Mutant of DrainTimesOut: when its time is up it waits again.
DrainWaitsAgain ==
    /\ client = "draining"
    /\ UNCHANGED vars

DrainTimesOut ==
    /\ client = "draining"
    /\ ForceClose

SendClose ==
    /\ client = "drained"
    /\ client' = "closing"
    /\ Post(Close) \/ PostThrows(Close)
    /\ UNCHANGED <<toRenderer, server, ran>>

\* The close request was answered, or its time is up.
CloseSettles ==
    /\ client = "closing"
    /\ Close \notin pending
    /\ ForceClose

CloseTimesOut ==
    /\ client = "closing"
    /\ Close \in pending
    /\ ForceClose

Next ==
    \/ HandleRequest \/ Execute \/ Respond \/ WorkerDies
    \/ StartOpen \/ Opened \/ OpenFails \/ OpenTimesOut
    \/ \E r \in Calls : Call(r) \/ Refuse(r)
    \/ HandleResponse
    \/ StartClose \/ DrainTimesOut \/ SendClose \/ CloseSettles \/ CloseTimesOut

Spec == Init /\ [][Next]_vars

\* In the renderer messages are delivered, promises resume and timers fire.
\* Nothing is promised of the worker.
Fairness ==
    /\ WF_vars(HandleResponse)
    /\ WF_vars(Opened) /\ WF_vars(OpenFails) /\ WF_vars(OpenTimesOut)
    /\ WF_vars(DrainTimesOut) /\ WF_vars(SendClose)
    /\ WF_vars(CloseSettles) /\ WF_vars(CloseTimesOut)

FairSpec == Spec /\ Fairness
--------------------------------------------------------------------------------
(***************************************************************************)
(* Properties.                                                             *)
(***************************************************************************)
\* Foreground requests overtake maintenance and close is a foreground request,
\* yet no call is ever dispatched to a store that is not open.
RunsOnOpenStore == running.request \in Calls => store

Before(s, x, y) == \E i, j \in DOMAIN s : i < j /\ s[i] = x /\ s[j] = y

\* A request is dispatched before one that was sent earlier only if it is a
\* foreground request and the other is maintenance: a query sees the ingests sent
\* before it, and the phases of retention run in their order.
OnlyMaintenanceIsOvertaken ==
    \A x \in Range(started), y \in Requests :
        Before(sent, y, x) /\ ~Before(started, y, x) =>
            x \notin Maintenance /\ y \in Maintenance

\* Opening and closing end, whatever the worker does or fails to do.
OpenAndCloseReturn ==
    client \in {"opening", "draining", "drained", "closing"}
        ~> client \in {"ready", "closed"}

\* A worker whose operations return.
WorkerProgress == WF_vars(HandleRequest) /\ WF_vars(Execute) /\ WF_vars(Respond)

\* With such a worker every call that was sent is answered while it lives, be it
\* foreground or maintenance.
EveryCallIsAnswered ==
    WorkerProgress => \A r \in Calls : r \in pending ~> r \notin pending \/ ~alive

Phase ==
    CASE client \in {"new", "opening"} -> "opening"
      [] client = "ready" -> "serving"
      [] client \in {"draining", "drained", "closing"} -> "stopping"
      [] client = "closed" -> "ended"

Promise == INSTANCE SerialStore WITH
    phase <- Phase,
    waiting <- pending \cap Calls,
    outcome <- [r \in Calls |-> outcome[r]]

\* Seen by its callers the worker is a store like any other.
Implements == Promise!Spec
================================================================================
