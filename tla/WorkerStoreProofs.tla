--------------------------- MODULE WorkerStoreProofs ----------------------------
(***************************************************************************)
(* Proofs about WorkerStore, for every set of foreground and maintenance   *)
(* requests: no call meets a store that is not open, and the callers see   *)
(* a SerialStore.                                                          *)
(***************************************************************************)
EXTENDS WorkerStore, Integers, TLAPS

(***************************************************************************)
(* Queues without repetition.                                              *)
(***************************************************************************)
Distinct(s) == \A i, j \in DOMAIN s : s[i] = s[j] => i = j

\* A new element at the end of a queue.
LEMMA AtTheEnd ==
    ASSUME NEW S, NEW s \in Seq(S), NEW x \in S
    PROVE  /\ Append(s, x) \in Seq(S)
           /\ Range(Append(s, x)) = Range(s) \cup {x}
           /\ Distinct(s) /\ x \notin Range(s) => Distinct(Append(s, x))
<1>1. /\ Append(s, x) \in Seq(S) /\ DOMAIN Append(s, x) = 1..(Len(s) + 1)
      /\ DOMAIN s = 1..Len(s) /\ Len(s) \in Nat
      /\ \A i \in 1..Len(s) : Append(s, x)[i] = s[i]
      /\ Append(s, x)[Len(s) + 1] = x
  OBVIOUS
<1>2. Range(Append(s, x)) = Range(s) \cup {x}
  BY <1>1 DEF Range
<1>3. Distinct(s) /\ x \notin Range(s) => Distinct(Append(s, x))
  BY <1>1 DEF Range, Distinct
<1> QED BY <1>1, <1>2, <1>3

\* The first element leaves a queue.
LEMMA FromTheFront ==
    ASSUME NEW S, NEW s \in Seq(S), s # <<>>
    PROVE  /\ Head(s) \in S /\ Head(s) \in Range(s) /\ Tail(s) \in Seq(S)
           /\ Range(Tail(s)) \subseteq Range(s)
           /\ Distinct(s) => Distinct(Tail(s)) /\ Range(Tail(s)) = Range(s) \ {Head(s)}
<1>1. /\ Tail(s) \in Seq(S) /\ DOMAIN Tail(s) = 1..(Len(s) - 1)
      /\ DOMAIN s = 1..Len(s) /\ Len(s) \in Nat /\ Len(s) > 0
      /\ Head(s) = s[1] /\ \A i \in 1..(Len(s) - 1) : Tail(s)[i] = s[i + 1]
      /\ \A i \in 1..Len(s) : s[i] \in S
  OBVIOUS
<1>2. Head(s) \in S /\ Head(s) \in Range(s) /\ Range(Tail(s)) \subseteq Range(s)
  BY <1>1 DEF Range
<1>3. Distinct(s) => Distinct(Tail(s))
  BY <1>1 DEF Distinct
<1>4. ASSUME NEW y \in Range(s), y # Head(s) PROVE y \in Range(Tail(s))
  <2>1. PICK i \in 1..Len(s) : s[i] = y
    BY <1>1, <1>4 DEF Range
  <2>2. i - 1 \in 1..(Len(s) - 1) /\ Tail(s)[i - 1] = y
    BY <1>1, <1>4, <2>1
  <2> QED BY <1>1, <2>2 DEF Range
<1>5. ASSUME Distinct(s), NEW y \in Range(Tail(s)) PROVE y # Head(s)
  <2>1. PICK i \in 1..(Len(s) - 1) : Tail(s)[i] = y
    BY <1>1, <1>5 DEF Range
  <2> QED BY <1>1, <1>5, <2>1 DEF Distinct
<1> QED BY <1>1, <1>2, <1>3, <1>4, <1>5

\* What is in a queue is of its type.
LEMMA InTheQueue ==
    ASSUME NEW S, NEW s \in Seq(S)
    PROVE  Range(s) \subseteq S
  BY DEF Range

\* An empty queue.
LEMMA NothingQueued ==
    ASSUME NEW S
    PROVE  <<>> \in Seq(S) /\ Range(<<>>) = {} /\ Distinct(<<>>)
  BY DEF Range, Distinct

-----------------------------------------------------------------------------
(***************************************************************************)
(* The inductive invariant.                                                *)
(***************************************************************************)
\* The requests that have been posted and not dispatched; the answers under way.
Waits == Range(toWorker) \cup Range(foreground) \cup Range(maintenance)
Answers == Range(toRenderer)

\* A request is at one place at a time, and only while its promise is pending.
InOnePlace ==
    /\ Distinct(toWorker) /\ Distinct(foreground) /\ Distinct(maintenance) /\ Distinct(toRenderer)
    /\ Range(toWorker) \cap (Range(foreground) \cup Range(maintenance)) = {}
    /\ Waits \subseteq pending /\ running.request \notin Waits
    /\ IF running.request = None THEN running = Idling ELSE running.request \in pending
    /\ \A a \in Answers : /\ a.request \in pending /\ a.request \notin Waits
                          /\ a.request # running.request
    /\ \A a, b \in Answers : a.request = b.request => a = b
    /\ ~alive => Waits = {} /\ running = Idling

\* A call answered with success took effect, and none does once it has ended.
AnswersAreTrue ==
    /\ \A r \in ran : r \in pending \/ outcome[r] # "none"
    /\ Waits \cap ran = {}
    /\ running.request \in Calls => /\ running.result = "ok" => running.request \in ran
                                    /\ running.result = "none" => running.request \notin ran
    /\ \A a \in Answers : a.request \in Calls /\ a.result = "ok" => a.request \in ran

\* What may be pending follows from where the client is.
PendingByState ==
    /\ \A r \in pending : outcome[r] = "none"
    /\ client = "new" => pending = {} /\ outcome[Open] = "none"
    /\ client = "opening" => pending \subseteq {Open}
    /\ client \in {"ready", "draining"} => pending \subseteq Calls
    /\ client \in {"drained", "closed"} => pending = {}
    /\ client = "closing" => pending \subseteq {Close}
    /\ client \notin {"closing", "closed"} => outcome[Close] = "none"

\* From the success of its open to the start of its close a live worker has the store open.
OpenInBetween ==
    /\ alive /\ client \in {"ready", "draining", "drained"} => store
    /\ alive /\ client = "opening" /\ outcome[Open] = "ok" => store
    /\ alive /\ client = "opening" /\ Dispatch(Open, "ok") \in Answers => store
    /\ running = Dispatch(Open, "ok") => store

IInv == TypeOK /\ InOnePlace /\ AnswersAreTrue /\ PendingByState /\ OpenInBetween

\* What foreground holds.
Urgent == Foreground \cup {Open, Close}

\* Every request is urgent or maintenance, never both.
LEMMA Kinds ==
    /\ Urgent \cap Maintenance = {} /\ Urgent \cup Maintenance = Requests
    /\ None \notin Requests /\ Calls \subseteq Requests /\ Open \in Requests /\ Close \in Requests
    /\ Open \notin Calls /\ Close \notin Calls /\ Open # Close
  BY WorkerAssumption DEF Urgent, Requests, Calls

-----------------------------------------------------------------------------
(* The server.                                                             *)

\* What the next dispatch takes and what it leaves.
LEMMA Draining ==
    ASSUME NEW fg \in Seq(Urgent), NEW mt \in Seq(Maintenance), Distinct(fg), Distinct(mt),
           store \in BOOLEAN, started \in Seq(Requests), Drain(fg, mt)
    PROVE  /\ foreground' \in Seq(Urgent) /\ maintenance' \in Seq(Maintenance)
           /\ Distinct(foreground') /\ Distinct(maintenance')
           /\ Range(foreground') \subseteq Range(fg) /\ Range(maintenance') \subseteq Range(mt)
           /\ started' \in Seq(Requests) /\ store' \in BOOLEAN
           /\ \/ running' = Idling /\ store' = store
              \/ /\ running'.request \in Range(fg) \cup Range(mt) /\ running'.request \in Requests
                 /\ running'.request \notin Range(foreground') \cup Range(maintenance')
                 /\ running' = Dispatch(running'.request, running'.result)
                 /\ running'.result \in {"none", "error"}
                 /\ store' = (store /\ running'.request # Close)
<1> Range(fg) \subseteq Urgent /\ Range(mt) \subseteq Maintenance
  BY DEF Range
<1>1. CASE /\ fg # <<>> /\ Start(Head(fg))
           /\ foreground' = Tail(fg) /\ maintenance' = mt
  <2>1. /\ Head(fg) \in Urgent /\ Head(fg) \in Range(fg) /\ Tail(fg) \in Seq(Urgent)
        /\ Distinct(Tail(fg)) /\ Range(Tail(fg)) = Range(fg) \ {Head(fg)}
    BY <1>1, FromTheFront
  <2>2. Head(fg) \in Requests /\ Head(fg) \notin Range(mt)
    BY <2>1, Kinds
  <2>3. started' \in Seq(Requests)
    BY <1>1, <2>2, AtTheEnd DEF Start
  <2>4. /\ running'.request = Head(fg) /\ running'.result \in {"none", "error"}
        /\ running' = Dispatch(running'.request, running'.result)
        /\ store' = (store /\ Head(fg) # Close)
    BY <1>1 DEF Start, Dispatch
  <2> QED BY <1>1, <2>1, <2>2, <2>3, <2>4
<1>2. CASE /\ mt # <<>> /\ Start(Head(mt))
           /\ foreground' = fg /\ maintenance' = Tail(mt)
  <2>1. /\ Head(mt) \in Maintenance /\ Head(mt) \in Range(mt) /\ Tail(mt) \in Seq(Maintenance)
        /\ Distinct(Tail(mt)) /\ Range(Tail(mt)) = Range(mt) \ {Head(mt)}
    BY <1>2, FromTheFront
  <2>2. Head(mt) \in Requests /\ Head(mt) \notin Range(fg)
    BY <2>1, Kinds
  <2>3. started' \in Seq(Requests)
    BY <1>2, <2>2, AtTheEnd DEF Start
  <2>4. /\ running'.request = Head(mt) /\ running'.result \in {"none", "error"}
        /\ running' = Dispatch(running'.request, running'.result)
        /\ store' = (store /\ Head(mt) # Close)
    BY <1>2 DEF Start, Dispatch
  <2> QED BY <1>2, <2>1, <2>2, <2>3, <2>4
<1>3. CASE /\ running' = Idling /\ foreground' = fg /\ maintenance' = mt
           /\ UNCHANGED <<store, started>>
  BY <1>3
<1> QED BY <1>1, <1>2, <1>3 DEF Drain

\* The dispatch of a request that waits: nothing else changes place.
LEMMA Dispatching ==
    ASSUME IInv, NEW fg \in Seq(Urgent), NEW mt \in Seq(Maintenance), Distinct(fg), Distinct(mt),
           Drain(fg, mt), UNCHANGED <<renderer, alive, sent, ran>>, alive,
           toWorker' \in Seq(Requests), Distinct(toWorker'),
           Range(toWorker') \cap (Range(fg) \cup Range(mt)) = {},
           Range(toWorker') \cup Range(fg) \cup Range(mt) \subseteq Waits,
           toRenderer' \in Seq([request : Requests, result : {"ok", "error"}]),
           Distinct(toRenderer'),
           \A a \in Answers' : a \in Answers \/ a = running,
           running = Idling \/ (running.request \in Requests /\ running.result \in {"ok", "error"})
    PROVE  IInv'
<1> DEFINE drained ==
      /\ foreground' \in Seq(Urgent) /\ maintenance' \in Seq(Maintenance)
      /\ Distinct(foreground') /\ Distinct(maintenance')
      /\ Range(foreground') \subseteq Range(fg) /\ Range(maintenance') \subseteq Range(mt)
      /\ started' \in Seq(Requests) /\ store' \in BOOLEAN
      /\ \/ running' = Idling /\ store' = store
         \/ /\ running'.request \in Range(fg) \cup Range(mt) /\ running'.request \in Requests
            /\ running'.request \notin Range(foreground') \cup Range(maintenance')
            /\ running' = Dispatch(running'.request, running'.result)
            /\ running'.result \in {"none", "error"}
            /\ store' = (store /\ running'.request # Close)
<1>1. drained
  BY Draining DEF IInv, TypeOK
<1> HIDE DEF drained
<1>2. TypeOK'
  BY <1>1, Kinds DEF drained, IInv, TypeOK, Urgent, renderer, Idling, Dispatch
<1> DEFINE queued == Range(foreground') \cup Range(maintenance')
<1>3. queued \subseteq Range(fg) \cup Range(mt) /\ Waits' = Range(toWorker') \cup queued
        /\ Waits' \subseteq Waits
  BY <1>1 DEF drained, Waits
<1>4. Waits \subseteq pending /\ pending \subseteq Requests /\ running.request \notin Waits
        /\ pending' = pending /\ outcome' = outcome /\ client' = client
  BY DEF IInv, TypeOK, InOnePlace, renderer
<1>5. \/ running' = Idling /\ running'.request = None /\ running'.request \notin Waits
      \/ /\ running'.request \in Waits /\ running'.request \notin Waits' /\ running'.request # None
         /\ running'.result # "ok"
  <2>1. CASE running' = Idling
    BY <2>1, <1>4, Kinds DEF Idling, Dispatch
  <2>2. CASE running' # Idling
    <3>1. /\ running'.request \in Range(fg) \cup Range(mt) /\ running'.request \notin queued
          /\ running'.result # "ok"
      BY <2>2, <1>1 DEF drained
    <3>2. running'.request \in Waits /\ running'.request \notin Range(toWorker')
      BY <3>1
    <3> QED BY <3>1, <3>2, <1>3, <1>4, Kinds
  <2> QED BY <2>1, <2>2
<1> HIDE DEF queued
<1>6. \A a \in Answers' :
        /\ a.request \in pending /\ a.request \notin Waits /\ a.request # None
        /\ a \in Answers \/ a = running
  <2> TAKE a \in Answers'
  <2>1. CASE a \in Answers
    BY <2>1, <1>4, Kinds DEF IInv, InOnePlace
  <2>2. CASE a = running
    <3>1. a \in [request : Requests, result : {"ok", "error"}]
      BY InTheQueue DEF Answers
    <3>2. running.request \in Requests
      BY <2>2, <3>1
    <3> QED BY <2>2, <3>2, <1>4, Kinds DEF IInv, InOnePlace
  <2> QED BY <2>1, <2>2
<1>7. InOnePlace'
  <2>1. Distinct(toWorker)' /\ Distinct(foreground)' /\ Distinct(maintenance)' /\ Distinct(toRenderer)'
          /\ (Range(toWorker) \cap (Range(foreground) \cup Range(maintenance)) = {})'
    BY <1>1, <1>3 DEF drained, queued
  <2>2. IF running'.request = None THEN running' = Idling ELSE running'.request \in pending'
    BY <1>4, <1>5
  <2>3. \A a \in Answers' : a.request \in pending' /\ a.request \notin Waits' /\ a.request # running'.request
    <3> SUFFICES ASSUME NEW a \in Answers'
                 PROVE  a.request \in pending' /\ a.request \notin Waits' /\ a.request # running'.request
      OBVIOUS
    <3>1. a.request \in pending /\ a.request \notin Waits /\ a.request # None
      BY <1>6
    <3>2. a.request # running'.request
      BY <3>1, <1>5, Zenon
    <3> QED BY <3>1, <3>2, <1>3, <1>4
  <2>4. \A a, b \in Answers' : a.request = b.request => a = b
    BY <1>6 DEF IInv, InOnePlace
  <2>5. alive' /\ Waits' \subseteq pending' /\ running'.request \notin Waits'
    BY <1>3, <1>4, <1>5
  <2> QED BY <2>1, <2>2, <2>3, <2>4, <2>5 DEF InOnePlace
<1>8. AnswersAreTrue'
  <2>1. ran' = ran
    OBVIOUS
  <2>2. \A a \in Answers' : a.request \in Calls /\ a.result = "ok" => a.request \in ran
    BY <1>6 DEF IInv, AnswersAreTrue
  <2>3. running'.request \in Calls => /\ running'.result # "ok"
                                      /\ running'.request \notin ran
    BY <1>5, Kinds DEF IInv, AnswersAreTrue
  <2> QED BY <2>1, <2>2, <2>3, <1>3, <1>4 DEF IInv, AnswersAreTrue
<1>9. PendingByState'
  BY <1>4 DEF IInv, PendingByState
<1>10. OpenInBetween'
  <2>1. store' = store \/ (running'.request = Close /\ client = "closing")
    BY <1>1, <1>4, <1>5, Kinds DEF drained, IInv, PendingByState, TypeOK, ClientStates
  <2>2. Dispatch(Open, "ok") \in Answers' => Dispatch(Open, "ok") \in Answers \/ running = Dispatch(Open, "ok")
    BY <1>6
  <2>3. running' # Dispatch(Open, "ok")
    BY <1>5, Kinds DEF Idling, Dispatch
  <2> QED BY <2>1, <2>2, <2>3, <1>4 DEF IInv, OpenInBetween
<1> QED BY <1>2, <1>7, <1>8, <1>9, <1>10 DEF IInv

\* A message of the client arrives: it is queued behind a dispatch or leads to one.
LEMMA MessageArrives ==
    ASSUME IInv, HandleRequest
    PROVE  IInv'
<1> DEFINE r == Head(toWorker)
           fg == IF IsMaintenance(r) THEN foreground ELSE Append(foreground, r)
           mt == IF IsMaintenance(r) THEN Append(maintenance, r) ELSE maintenance
<1>1. /\ alive /\ toWorker # <<>> /\ toWorker' = Tail(toWorker)
      /\ UNCHANGED <<renderer, toRenderer, alive, sent, ran>>
      /\ IF running = Idling THEN Drain(fg, mt)
         ELSE /\ foreground' = fg /\ maintenance' = mt
              /\ UNCHANGED <<running, store, started>>
  BY DEF HandleRequest
<1>2. /\ toWorker \in Seq(Requests) /\ Distinct(toWorker)
      /\ foreground \in Seq(Urgent) /\ Distinct(foreground)
      /\ maintenance \in Seq(Maintenance) /\ Distinct(maintenance)
      /\ Range(toWorker) \cap (Range(foreground) \cup Range(maintenance)) = {}
  BY DEF IInv, TypeOK, InOnePlace, Urgent
<1>3. /\ r \in Requests /\ r \in Range(toWorker) /\ Tail(toWorker) \in Seq(Requests)
      /\ Distinct(Tail(toWorker)) /\ Range(Tail(toWorker)) = Range(toWorker) \ {r}
  BY <1>1, <1>2, FromTheFront
<1>4. r \notin Range(foreground) \cup Range(maintenance)
  BY <1>2, <1>3
<1>5. /\ fg \in Seq(Urgent) /\ mt \in Seq(Maintenance) /\ Distinct(fg) /\ Distinct(mt)
      /\ Range(fg) \cup Range(mt) = Range(foreground) \cup Range(maintenance) \cup {r}
  <2>1. CASE r \in Maintenance
    BY <2>1, <1>2, <1>4, AtTheEnd DEF IsMaintenance
  <2>2. CASE r \notin Maintenance
    <3>1. r \in Urgent
      BY <2>2, <1>3, Kinds
    <3> QED BY <2>2, <3>1, <1>2, <1>4, AtTheEnd DEF IsMaintenance
  <2> QED BY <2>1, <2>2
<1> HIDE DEF r, fg, mt
<1>6. /\ Range(toWorker') \cap (Range(fg) \cup Range(mt)) = {}
      /\ Range(toWorker') \cup Range(fg) \cup Range(mt) = Waits
  BY <1>1, <1>2, <1>3, <1>5 DEF Waits
<1>7. CASE running = Idling
  <2>1. /\ toRenderer' \in Seq([request : Requests, result : {"ok", "error"}])
        /\ Distinct(toRenderer') /\ Answers' = Answers
    BY <1>1 DEF IInv, TypeOK, InOnePlace, Answers
  <2> QED BY <1>1, <1>3, <1>5, <1>6, <1>7, <2>1, Dispatching
<1>8. CASE running # Idling
  <2>1. /\ foreground' = fg /\ maintenance' = mt /\ UNCHANGED <<running, store, started>>
    BY <1>1, <1>8
  <2>2. Waits' = Waits /\ Answers' = Answers
    BY <1>1, <1>6, <2>1 DEF Waits, Answers
  <2>3. TypeOK'
    BY <1>1, <1>3, <1>5, <2>1 DEF IInv, TypeOK, Urgent, renderer
  <2>4. InOnePlace'
    <3>1. Distinct(toWorker)' /\ Distinct(foreground)' /\ Distinct(maintenance)' /\ Distinct(toRenderer)'
            /\ (Range(toWorker) \cap (Range(foreground) \cup Range(maintenance)) = {})'
      BY <1>1, <1>3, <1>5, <1>6, <2>1 DEF IInv, InOnePlace
    <3> QED BY <1>1, <2>1, <2>2, <3>1 DEF IInv, InOnePlace, renderer
  <2>5. AnswersAreTrue' /\ PendingByState'
    BY <1>1, <2>1, <2>2 DEF IInv, AnswersAreTrue, PendingByState, renderer
  <2>6. OpenInBetween'
    BY <1>1, <2>1, <2>2 DEF IInv, OpenInBetween, renderer
  <2> QED BY <2>3, <2>4, <2>5, <2>6 DEF IInv
<1> QED BY <1>7, <1>8

\* An operation succeeds or fails, with its effect or without.
LEMMA OperationSettles ==
    ASSUME IInv, Execute
    PROVE  IInv'
<1> DEFINE r == running.request
<1>1. /\ r # None /\ running.result = "none"
      /\ UNCHANGED <<renderer, toWorker, toRenderer, alive, foreground, maintenance, sent, started>>
      /\ \/ /\ running' = Dispatch(r, "ok")
            /\ store' = (store \/ r = Open) /\ ran' = ran \cup ({r} \cap Calls)
         \/ /\ running' = Dispatch(r, "error") /\ store' = store
            /\ ran' \in {ran, ran \cup ({r} \cap Calls)}
  BY DEF Execute
<1>2. running'.request = r /\ running' = Dispatch(r, running'.result)
        /\ running'.result \in {"ok", "error"}
  BY <1>1 DEF Dispatch
<1>3. r \in pending /\ r \in Requests /\ r \notin Waits /\ running # Idling
  BY <1>1 DEF IInv, InOnePlace, TypeOK, Idling, Dispatch
<1>4. Waits' = Waits /\ Answers' = Answers
  BY <1>1 DEF Waits, Answers
<1>5. TypeOK'
  <2>1. running' \in [request : Requests \cup {None}, result : {"none", "ok", "error"}]
    BY <1>2, <1>3 DEF Dispatch
  <2>2. store' \in BOOLEAN /\ ran' \subseteq Calls
    BY <1>1 DEF IInv, TypeOK
  <2> QED BY <1>1, <2>1, <2>2 DEF IInv, TypeOK, renderer
<1>6. InOnePlace'
  BY <1>1, <1>2, <1>3, <1>4 DEF IInv, InOnePlace, renderer
<1>7. AnswersAreTrue'
  <2>1. r \notin Calls \/ r \notin ran
    BY <1>1 DEF IInv, AnswersAreTrue
  <2>2. ran \subseteq ran' /\ ran' \subseteq ran \cup {r}
          /\ (r \in Calls /\ running'.result = "ok" => r \in ran')
          /\ running'.result # "none"
    BY <1>1, <2>1 DEF Dispatch
  <2>3. \A a \in Answers : a.request # r
    BY DEF IInv, InOnePlace
  <2>4. /\ \A x \in ran' : x \in pending' \/ outcome'[x] # "none"
        /\ Waits' \cap ran' = {}
    BY <1>1, <1>3, <1>4, <2>2 DEF IInv, AnswersAreTrue, renderer
  <2>5. \A a \in Answers' : a.request \in Calls /\ a.result = "ok" => a.request \in ran'
    BY <1>4, <2>2, <2>3 DEF IInv, AnswersAreTrue
  <2> QED BY <1>2, <2>2, <2>4, <2>5 DEF AnswersAreTrue
<1>8. PendingByState'
  BY <1>1 DEF IInv, PendingByState, renderer
<1>9. OpenInBetween'
  <2>1. store => store'
    BY <1>1
  <2>2. ASSUME running' = Dispatch(Open, "ok") PROVE store'
    <3>1. running'.request = Open /\ running'.result = "ok"
      BY <2>2 DEF Dispatch
    <3>2. r = Open /\ running' # Dispatch(r, "error")
      BY <1>2, <3>1 DEF Dispatch
    <3> QED BY <1>1, <3>2
  <2> QED BY <1>1, <1>4, <2>1, <2>2 DEF IInv, OpenInBetween, renderer
<1> QED BY <1>5, <1>6, <1>7, <1>8, <1>9 DEF IInv

\* An answer is posted and the next request dispatched.
LEMMA AnswerIsPosted ==
    ASSUME IInv, Respond
    PROVE  IInv'
<1>1. /\ running.request # None /\ running.result # "none"
      /\ toRenderer' = Append(toRenderer, running)
      /\ Drain(foreground, maintenance)
      /\ UNCHANGED <<renderer, toWorker, alive, sent, ran>>
  BY DEF Respond
<1>2. running.request \in Requests /\ running.result \in {"ok", "error"} /\ running # Idling
        /\ running \in [request : Requests, result : {"ok", "error"}]
  BY <1>1 DEF IInv, TypeOK, Idling, Dispatch
<1>3. running \notin Range(toRenderer)
  BY DEF IInv, InOnePlace, Answers
<1>4. /\ toRenderer' \in Seq([request : Requests, result : {"ok", "error"}])
      /\ Distinct(toRenderer') /\ Range(toRenderer') = Range(toRenderer) \cup {running}
  <2> DEFINE S == [request : Requests, result : {"ok", "error"}]
  <2>1. toRenderer \in Seq(S) /\ Distinct(toRenderer) /\ running \in S
    BY <1>2 DEF IInv, TypeOK, InOnePlace
  <2> HIDE DEF S
  <2>2. /\ toRenderer' \in Seq(S) /\ Distinct(toRenderer')
        /\ Range(toRenderer') = Range(toRenderer) \cup {running}
    BY <1>1, <1>3, <2>1, AtTheEnd
  <2> QED BY <2>2 DEF S
<1>5. /\ alive /\ foreground \in Seq(Urgent) /\ maintenance \in Seq(Maintenance)
      /\ Distinct(foreground) /\ Distinct(maintenance)
      /\ toWorker' \in Seq(Requests) /\ Distinct(toWorker')
      /\ Range(toWorker') \cap (Range(foreground) \cup Range(maintenance)) = {}
      /\ Range(toWorker') \cup Range(foreground) \cup Range(maintenance) \subseteq Waits
  BY <1>1, <1>2 DEF IInv, TypeOK, InOnePlace, Urgent, Waits
<1>6. \A a \in Answers' : a \in Answers \/ a = running
  BY <1>4 DEF Answers
<1> QED BY <1>1, <1>2, <1>4, <1>5, <1>6, Dispatching

-----------------------------------------------------------------------------
(* The client.                                                             *)

\* The end of the worker empties its queues.
LEMMA WorkerEnds ==
    ASSUME IInv, WorkerDies
    PROVE  IInv'
<1>1. /\ alive' = FALSE /\ toWorker' = <<>> /\ foreground' = <<>> /\ maintenance' = <<>>
      /\ running' = Idling /\ running'.request = None /\ store' = FALSE
      /\ UNCHANGED <<started, sent, ran, renderer, toRenderer>>
  BY DEF WorkerDies, Terminated, Idling, Dispatch
<1>2. Waits' = {} /\ Answers' = Answers
  BY <1>1, NothingQueued DEF Waits, Answers
<1>3. TypeOK'
  BY <1>1, NothingQueued DEF IInv, TypeOK, renderer, Idling, Dispatch
<1>4. InOnePlace'
  <2>1. Distinct(toWorker)' /\ Distinct(foreground)' /\ Distinct(maintenance)' /\ Distinct(toRenderer)'
          /\ (Range(toWorker) \cap (Range(foreground) \cup Range(maintenance)) = {})'
    BY <1>1, NothingQueued DEF IInv, InOnePlace
  <2>2. \A a \in Answers : a.request \in Requests
    BY DEF IInv, TypeOK, InOnePlace
  <2> QED BY <1>1, <1>2, <2>1, <2>2, Kinds DEF IInv, InOnePlace, renderer
<1>5. AnswersAreTrue' /\ PendingByState'
  BY <1>1, <1>2, Kinds DEF IInv, AnswersAreTrue, PendingByState, renderer
<1>6. OpenInBetween'
  <2>1. running' # Dispatch(Open, "ok")
    BY <1>1, Kinds DEF Dispatch
  <2> QED BY <1>1, <2>1 DEF OpenInBetween
<1> QED BY <1>3, <1>4, <1>5, <1>6 DEF IInv

\* A forced close abandons what is pending and ends the worker.
LEMMA EndIsForced ==
    ASSUME IInv, ForceClose
    PROVE  IInv'
<1>1. /\ client' = "closed" /\ pending' = {} /\ toRenderer' = <<>>
      /\ outcome' = [r \in Requests |-> IF r \in pending THEN "abandoned" ELSE outcome[r]]
      /\ alive' = FALSE /\ toWorker' = <<>> /\ foreground' = <<>> /\ maintenance' = <<>>
      /\ running' = Idling /\ running'.request = None /\ store' = FALSE
      /\ UNCHANGED <<started, sent, ran>>
  BY DEF ForceClose, Terminated, Idling, Dispatch
<1>2. Waits' = {} /\ Answers' = {}
  BY <1>1, NothingQueued DEF Waits, Answers
<1>3. TypeOK'
  <2>1. outcome' \in [Requests -> {"none", "ok", "error", "refused", "abandoned"}]
    BY <1>1 DEF IInv, TypeOK
  <2> QED BY <1>1, <2>1, NothingQueued DEF IInv, TypeOK, ClientStates, Idling, Dispatch
<1>4. InOnePlace'
  BY <1>1, <1>2, NothingQueued DEF InOnePlace
<1>5. AnswersAreTrue'
  <2>1. \A r \in ran : outcome'[r] # "none"
    BY <1>1, Kinds DEF IInv, TypeOK, AnswersAreTrue
  <2> QED BY <1>1, <1>2, <2>1, Kinds DEF AnswersAreTrue
<1>6. PendingByState'
  BY <1>1 DEF PendingByState
<1>7. OpenInBetween'
  <2>1. running' # Dispatch(Open, "ok")
    BY <1>1, Kinds DEF Dispatch
  <2> QED BY <1>1, <2>1 DEF OpenInBetween
<1> QED BY <1>3, <1>4, <1>5, <1>6, <1>7 DEF IInv

\* A request is posted: it waits in the channel, if there is a worker.
LEMMA RequestIsPosted ==
    ASSUME IInv, NEW r \in Requests, r \notin pending, outcome[r] = "none", Post(r),
           UNCHANGED <<toRenderer, server, ran>>, client' \in ClientStates
    PROVE  (TypeOK /\ InOnePlace /\ AnswersAreTrue)'
<1>1. /\ pending' = pending \cup {r} /\ outcome' = outcome /\ sent' = Append(sent, r)
      /\ toWorker' = IF alive THEN Append(toWorker, r) ELSE toWorker
      /\ UNCHANGED <<toRenderer, alive, foreground, maintenance, running, store, started, ran>>
  BY DEF Post, server
<1>2. r \notin Waits /\ r # running.request /\ r # None /\ r \notin ran
        /\ \A a \in Answers : a.request # r
  BY Kinds DEF IInv, InOnePlace, AnswersAreTrue
<1>3. /\ toWorker' \in Seq(Requests) /\ Distinct(toWorker')
      /\ Range(toWorker') = IF alive THEN Range(toWorker) \cup {r} ELSE Range(toWorker)
  <2>1. toWorker \in Seq(Requests) /\ Distinct(toWorker) /\ r \notin Range(toWorker)
    BY <1>2 DEF IInv, TypeOK, InOnePlace, Waits
  <2>2. CASE alive
    BY <1>1, <2>1, <2>2, AtTheEnd
  <2>3. CASE ~alive
    BY <1>1, <2>1, <2>3
  <2> QED BY <2>2, <2>3
<1>4. Answers' = Answers /\ Waits' = IF alive THEN Waits \cup {r} ELSE Waits
  BY <1>1, <1>3 DEF Answers, Waits
<1>5. TypeOK'
  <2>1. sent' \in Seq(Requests)
    BY <1>1, AtTheEnd DEF IInv, TypeOK
  <2> QED BY <1>1, <1>3, <2>1 DEF IInv, TypeOK
<1>6. InOnePlace'
  <2>1. Distinct(toWorker)' /\ Distinct(foreground)' /\ Distinct(maintenance)' /\ Distinct(toRenderer)'
          /\ (Range(toWorker) \cap (Range(foreground) \cup Range(maintenance)) = {})'
    BY <1>1, <1>2, <1>3 DEF IInv, InOnePlace, Waits
  <2>2. Waits' \subseteq pending' /\ running'.request \notin Waits'
    BY <1>1, <1>2, <1>4 DEF IInv, InOnePlace
  <2>3. \A a \in Answers' : /\ a.request \in pending' /\ a.request \notin Waits'
                            /\ a.request # running'.request
    BY <1>1, <1>2, <1>4 DEF IInv, InOnePlace
  <2> QED BY <1>1, <1>4, <2>1, <2>2, <2>3 DEF IInv, InOnePlace
<1>7. AnswersAreTrue'
  BY <1>1, <1>2, <1>4 DEF IInv, AnswersAreTrue
<1> QED BY <1>5, <1>6, <1>7

\* A request cannot be posted: only its promise is settled.
LEMMA RequestIsRefused ==
    ASSUME IInv, NEW r \in Requests, r \notin pending, PostThrows(r),
           UNCHANGED <<toRenderer, server, ran>>, client' \in ClientStates
    PROVE  (TypeOK /\ InOnePlace /\ AnswersAreTrue)'
<1>1. /\ outcome' = [outcome EXCEPT ![r] = "refused"]
      /\ UNCHANGED <<pending, toWorker, sent, toRenderer, alive, foreground, maintenance,
                     running, store, started, ran>>
  BY DEF PostThrows, Settle, server
<1>2. Answers' = Answers /\ Waits' = Waits
  BY <1>1 DEF Answers, Waits
<1>3. TypeOK'
  BY <1>1 DEF IInv, TypeOK
<1>4. InOnePlace'
  BY <1>1, <1>2 DEF IInv, InOnePlace
<1>5. AnswersAreTrue'
  <2>1. \A x \in ran : outcome[x] # "none" => outcome'[x] # "none"
    BY <1>1 DEF IInv, TypeOK, Requests
  <2> QED BY <1>1, <1>2, <2>1 DEF IInv, AnswersAreTrue
<1> QED BY <1>3, <1>4, <1>5

\* An answer arrives.
LEMMA AnswerArrives ==
    ASSUME IInv, HandleResponse
    PROVE  IInv'
<1> DEFINE answer == Head(toRenderer)
           S == [request : Requests, result : {"ok", "error"}]
<1>1. /\ toRenderer # <<>> /\ toRenderer' = Tail(toRenderer)
      /\ IF answer.request \in pending
         THEN /\ pending' = pending \ {answer.request}
              /\ outcome' = [outcome EXCEPT ![answer.request] = answer.result]
         ELSE UNCHANGED <<pending, outcome>>
      /\ client' = IF client = "draining" /\ pending' = {} THEN "drained" ELSE client
      /\ UNCHANGED <<toWorker, alive, foreground, maintenance, running, store, started, sent, ran>>
  BY DEF HandleResponse, Settle, server
<1>2. toRenderer \in Seq(S) /\ Distinct(toRenderer)
  BY DEF IInv, TypeOK, InOnePlace
<1>3. answer \in Answers /\ answer.request \in Requests /\ answer.result \in {"ok", "error"}
        /\ answer = Dispatch(answer.request, answer.result)
        /\ Tail(toRenderer) \in Seq(S) /\ Distinct(Tail(toRenderer))
        /\ Answers' = Answers \ {answer}
  <2> HIDE DEF S
  <2>1. /\ answer \in S /\ answer \in Answers /\ Tail(toRenderer) \in Seq(S)
        /\ Distinct(Tail(toRenderer)) /\ Answers' = Answers \ {answer}
    BY <1>1, <1>2, FromTheFront DEF Answers
  <2> QED BY <2>1 DEF S, Dispatch
<1> HIDE DEF answer
<1>4. /\ answer.request \in pending /\ pending' = pending \ {answer.request}
      /\ outcome' = [outcome EXCEPT ![answer.request] = answer.result]
      /\ outcome'[answer.request] = answer.result
  BY <1>1, <1>3 DEF IInv, TypeOK, InOnePlace
<1>5. /\ Waits' = Waits /\ answer.request \notin Waits /\ answer.request # running.request
      /\ \A a \in Answers' : a \in Answers /\ a.request # answer.request
  BY <1>1, <1>3 DEF IInv, InOnePlace, Waits
<1>6. TypeOK'
  <2>1. outcome' \in [Requests -> {"none", "ok", "error", "refused", "abandoned"}]
    BY <1>3, <1>4 DEF IInv, TypeOK
  <2> QED BY <1>1, <1>3, <1>4, <2>1 DEF IInv, TypeOK, ClientStates
<1>7. InOnePlace'
  BY <1>1, <1>3, <1>4, <1>5 DEF IInv, InOnePlace
<1>8. AnswersAreTrue'
  <2>1. \A r \in ran : r \in pending' \/ outcome'[r] # "none"
    <3> SUFFICES ASSUME NEW r \in ran PROVE r \in pending' \/ outcome'[r] # "none"
      OBVIOUS
    <3>1. CASE r = answer.request
      BY <3>1, <1>3, <1>4
    <3>2. CASE r # answer.request
      BY <3>2, <1>4, Kinds DEF IInv, TypeOK, AnswersAreTrue
    <3> QED BY <3>1, <3>2
  <2> QED BY <1>1, <1>5, <2>1 DEF IInv, AnswersAreTrue
<1>9. PendingByState'
  <2>1. \A r \in Requests : r # answer.request => outcome'[r] = outcome[r]
    BY <1>4 DEF IInv, TypeOK
  <2>2. \A r \in pending' : outcome'[r] = "none"
    BY <1>4, <2>1 DEF IInv, TypeOK, PendingByState
  <2>3. client # "new" /\ client # "closed" /\ client # "drained"
    BY <1>4 DEF IInv, PendingByState
  <2>4. client' = client \/ (client = "draining" /\ client' = "drained" /\ pending' = {})
    BY <1>1
  <2>5. client \notin {"closing", "closed"} => answer.request # Close
    BY <1>4, <2>3, Kinds DEF IInv, PendingByState, TypeOK, ClientStates
  <2> QED BY <1>4, <2>1, <2>2, <2>3, <2>4, <2>5, Kinds DEF IInv, PendingByState
<1>10. OpenInBetween'
  <2>1. \A r \in Requests : r # answer.request => outcome'[r] = outcome[r]
    BY <1>4 DEF IInv, TypeOK
  <2>2. ASSUME outcome'[Open] = "ok", client = "opening", alive PROVE store
    <3>1. CASE answer.request = Open
      <4>1. answer = Dispatch(Open, "ok")
        BY <2>2, <3>1, <1>3, <1>4
      <4> QED BY <2>2, <4>1, <1>3 DEF IInv, OpenInBetween
    <3>2. CASE answer.request # Open
      BY <2>2, <3>2, <2>1, Kinds DEF IInv, OpenInBetween
    <3> QED BY <3>1, <3>2
  <2>3. client' \in {"ready", "draining", "drained"} => client \in {"ready", "draining", "drained"}
    BY <1>1
  <2>4. client' = "opening" => client = "opening"
    BY <1>1
  <2> QED BY <1>1, <1>3, <2>2, <2>3, <2>4 DEF IInv, OpenInBetween
<1> QED BY <1>6, <1>7, <1>8, <1>9, <1>10 DEF IInv

\* The invariant holds at the start.
LEMMA InitIInv == Init => IInv
<1> SUFFICES ASSUME Init PROVE IInv
  OBVIOUS
<1>1. Waits = {} /\ Answers = {} /\ running.request = None
  BY NothingQueued DEF Init, Waits, Answers, Idling, Dispatch
<1>2. TypeOK
  BY NothingQueued DEF Init, TypeOK, ClientStates, Idling, Dispatch
<1>3. InOnePlace
  BY <1>1, NothingQueued DEF Init, InOnePlace
<1>4. AnswersAreTrue
  BY <1>1, Kinds DEF Init, AnswersAreTrue
<1>5. PendingByState
  BY Kinds DEF Init, PendingByState
<1>6. OpenInBetween
  <2>1. running # Dispatch(Open, "ok")
    BY <1>1, Kinds DEF Dispatch
  <2> QED BY <1>1, <2>1 DEF Init, OpenInBetween
<1> QED BY <1>2, <1>3, <1>4, <1>5, <1>6 DEF IInv

\* Posting a request, or failing to, is of no concern to the open store.
LEMMA Requesting ==
    ASSUME IInv, NEW r \in Requests, r \notin pending, outcome[r] = "none",
           Post(r) \/ PostThrows(r), UNCHANGED <<toRenderer, server, ran>>,
           client' \in ClientStates,
           \/ client = "new" /\ client' = "opening" /\ r = Open
           \/ client' = client /\ r \in Calls /\ (client = "ready" \/ PostThrows(r))
           \/ client = "drained" /\ client' = "closing" /\ r = Close
    PROVE  IInv'
<1>1. /\ TypeOK /\ (TypeOK /\ InOnePlace /\ AnswersAreTrue)'
      /\ UNCHANGED <<toRenderer, alive, running, store>>
  BY RequestIsPosted, RequestIsRefused DEF IInv, server
<1>2. /\ pending' = pending \/ (pending' = pending \cup {r} /\ outcome' = outcome)
      /\ \A x \in Requests : x # r => outcome'[x] = outcome[x]
      /\ outcome' = outcome \/ (pending' = pending /\ outcome'[r] = "refused")
      /\ outcome'[r] # "ok"
  BY <1>1 DEF Post, PostThrows, Settle, TypeOK
<1>3. r \in Calls /\ pending' # pending => client = "ready"
  BY <1>2, Kinds DEF PostThrows
<1>4. PendingByState'
  <2>1. \A x \in pending' : outcome'[x] = "none"
    BY <1>1, <1>2 DEF IInv, PendingByState, TypeOK
  <2>2. CASE client = "new" /\ client' = "opening" /\ r = Open
    BY <2>1, <2>2, <1>2, Kinds DEF IInv, PendingByState
  <2>3. CASE client' = client /\ r \in Calls
    BY <2>1, <2>3, <1>2, <1>3, Kinds DEF IInv, PendingByState
  <2>4. CASE client = "drained" /\ client' = "closing" /\ r = Close
    BY <2>1, <2>4, <1>2 DEF IInv, PendingByState
  <2> QED BY <2>2, <2>3, <2>4
<1>5. OpenInBetween'
  <2>1. Answers' = Answers /\ \A a \in Answers : a.request \in pending
    BY <1>1 DEF Answers, IInv, InOnePlace
  <2>2. CASE client = "new" /\ client' = "opening" /\ r = Open
    <3>1. Dispatch(Open, "ok") \notin Answers
      BY <2>1, <2>2 DEF IInv, PendingByState
    <3> QED BY <2>1, <2>2, <3>1, <1>1, <1>2 DEF IInv, OpenInBetween
  <2>3. CASE client' = client /\ r \in Calls
    BY <2>1, <2>3, <1>1, <1>2, Kinds DEF IInv, OpenInBetween
  <2>4. CASE client = "drained" /\ client' = "closing" /\ r = Close
    BY <2>1, <2>4, <1>1 DEF IInv, OpenInBetween
  <2> QED BY <2>2, <2>3, <2>4
<1> QED BY <1>1, <1>4, <1>5 DEF IInv

\* Only the client changes its state.
LEMMA GoesOn ==
    ASSUME IInv, UNCHANGED <<pending, outcome, toWorker, toRenderer, server, sent, ran>>,
           \/ client' = client
           \/ client = "opening" /\ outcome[Open] = "ok" /\ client' = "ready"
           \/ client = "ready" /\ client' = "draining"
           \/ client = "ready" /\ client' = "drained" /\ pending = {}
    PROVE  IInv'
<1>1. /\ UNCHANGED <<pending, outcome, toWorker, toRenderer, alive, foreground, maintenance,
                     running, store, started, sent, ran>>
      /\ Waits' = Waits /\ Answers' = Answers
  BY DEF server, Waits, Answers
<1>2. TypeOK'
  BY <1>1 DEF IInv, TypeOK, ClientStates
<1>3. InOnePlace' /\ AnswersAreTrue'
  BY <1>1 DEF IInv, InOnePlace, AnswersAreTrue
<1>4. PendingByState'
  <2>1. client = "opening" /\ outcome[Open] = "ok" => pending = {}
    BY DEF IInv, PendingByState
  <2> QED BY <1>1, <2>1, Kinds DEF IInv, PendingByState
<1>5. OpenInBetween'
  BY <1>1 DEF IInv, OpenInBetween
<1> QED BY <1>2, <1>3, <1>4, <1>5 DEF IInv

\* Every step keeps the invariant.
LEMMA StepIInv == IInv /\ [Next]_vars => IInv'
<1> SUFFICES ASSUME IInv, [Next]_vars PROVE IInv'
  OBVIOUS
<1>1. CASE HandleRequest
  BY <1>1, MessageArrives
<1>2. CASE Execute
  BY <1>2, OperationSettles
<1>3. CASE Respond
  BY <1>3, AnswerIsPosted
<1>4. CASE WorkerDies
  BY <1>4, WorkerEnds
<1>5. CASE StartOpen
  BY <1>5, Requesting, Kinds DEF StartOpen, ClientStates, IInv, PendingByState
<1>6. CASE Opened
  BY <1>6, GoesOn DEF Opened
<1>7. CASE OpenFails \/ OpenTimesOut \/ DrainTimesOut \/ CloseSettles \/ CloseTimesOut
  BY <1>7, EndIsForced DEF OpenFails, OpenTimesOut, DrainTimesOut, CloseSettles, CloseTimesOut
<1>8. ASSUME NEW r \in Calls, Call(r) \/ Refuse(r) PROVE IInv'
  BY <1>8, Requesting, Kinds DEF Call, Refuse, Fresh, IInv, TypeOK
<1>9. CASE HandleResponse
  BY <1>9, AnswerArrives
<1>10. CASE StartClose
  BY <1>10, GoesOn DEF StartClose
<1>11. CASE SendClose
  BY <1>11, Requesting, Kinds DEF SendClose, ClientStates, IInv, PendingByState
<1>12. CASE UNCHANGED vars
  BY <1>12, GoesOn DEF vars, renderer
<1> QED
  BY <1>1, <1>2, <1>3, <1>4, <1>5, <1>6, <1>7, <1>8, <1>9, <1>10, <1>11, <1>12 DEF Next

\* The invariant holds in every state.
LEMMA WorkerInvariant == Spec => []IInv
<1>1. Init => IInv
  BY InitIInv
<1>2. IInv /\ [Next]_vars => IInv'
  BY StepIInv
<1> QED BY <1>1, <1>2, PTL DEF Spec

-----------------------------------------------------------------------------
\* Although foreground requests overtake maintenance, and close is one of them, no call
\* is dispatched to a store that is not open: when the client asks for the close nothing
\* is pending any more.
THEOREM RunsOnOpen == Spec => []RunsOnOpenStore
<1>1. IInv => RunsOnOpenStore
  <2> SUFFICES ASSUME IInv, running.request \in Calls PROVE store
    BY DEF RunsOnOpenStore
  <2>1. running.request \in pending /\ running # Idling
    BY Kinds DEF IInv, InOnePlace, Idling, Dispatch
  <2>2. alive
    BY <2>1 DEF IInv, InOnePlace, TypeOK
  <2>3. client \in {"ready", "draining"}
    BY <2>1, Kinds DEF IInv, PendingByState, TypeOK, ClientStates
  <2> QED BY <2>2, <2>3 DEF IInv, OpenInBetween
<1> QED BY <1>1, WorkerInvariant, PTL

-----------------------------------------------------------------------------
(***************************************************************************)
(* The refinement: what the callers see is a SerialStore.                  *)
(***************************************************************************)
\* The calls that wait, and the outcomes the callers see.
Waiting == pending \cap Calls
Seen == [r \in Calls |-> outcome[r]]

\* An initial state maps to one of the abstract store.
LEMMA InitMaps == Init => Promise!Init
<1> SUFFICES ASSUME Init PROVE Promise!Init
  OBVIOUS
<1>1. Phase = "opening" /\ Waiting = {} /\ Seen = [r \in Calls |-> "none"] /\ ran = {}
  BY Kinds DEF Init, Phase, Waiting, Seen
<1> QED BY <1>1 DEF Promise!Init, Waiting, Seen

\* A step the callers do not see.
LEMMA Unseen ==
    ASSUME Phase' = Phase, Waiting' = Waiting, Seen' = Seen, ran' = ran
    PROVE  UNCHANGED Promise!vars
  BY DEF Promise!vars, Waiting, Seen

\* A forced close ends the promise, from wherever it starts.
LEMMA EndMaps ==
    ASSUME IInv, ForceClose, client \in {"opening", "draining", "closing"}
    PROVE  Promise!End
<1>1. /\ client' = "closed" /\ pending' = {} /\ ran' = ran
      /\ outcome' = [r \in Requests |-> IF r \in pending THEN "abandoned" ELSE outcome[r]]
  BY DEF ForceClose, Terminated
<1>2. Phase \in {"opening", "stopping"} /\ Phase' = "ended"
  BY <1>1 DEF Phase
<1>3. Waiting' = {} /\ Seen' = [r \in Calls |-> IF r \in Waiting THEN "abandoned" ELSE Seen[r]]
  BY <1>1, Kinds DEF Waiting, Seen
<1> QED BY <1>1, <1>2, <1>3 DEF Promise!End, Waiting, Seen

\* A call is posted.
LEMMA CallMaps ==
    ASSUME IInv, NEW r \in Calls, Call(r)
    PROVE  Promise!Call(r)
<1>1. /\ client = "ready" /\ client' = client /\ r \notin pending /\ outcome[r] = "none"
      /\ pending' = pending \cup {r} /\ outcome' = outcome /\ ran' = ran
  BY DEF Call, Fresh, Post
<1>2. Phase = "serving" /\ Phase' = Phase
  BY <1>1 DEF Phase
<1>3. Waiting' = Waiting \cup {r} /\ r \notin Waiting /\ Seen' = Seen /\ Seen[r] = "none"
  BY <1>1 DEF Waiting, Seen
<1> QED BY <1>1, <1>2, <1>3 DEF Promise!Call, Promise!Fresh, Waiting, Seen

\* A call is refused.
LEMMA RefuseMaps ==
    ASSUME IInv, NEW r \in Calls, Refuse(r)
    PROVE  Promise!Refuse(r)
<1>1. /\ client \notin {"new", "opening"} /\ client' = client /\ r \notin pending
      /\ outcome[r] = "none" /\ pending' = pending
      /\ outcome' = [outcome EXCEPT ![r] = "refused"] /\ ran' = ran
  BY DEF Refuse, Fresh, PostThrows, Settle
<1>2. Phase # "opening" /\ Phase' = Phase
  BY <1>1 DEF Phase, IInv, TypeOK, ClientStates
<1>3. Waiting' = Waiting /\ r \notin Waiting /\ Seen[r] = "none"
  BY <1>1 DEF Waiting, Seen
<1>4. Seen' = [Seen EXCEPT ![r] = "refused"]
  BY <1>1, Kinds DEF Seen, IInv, TypeOK
<1> QED BY <1>1, <1>2, <1>3, <1>4 DEF Promise!Refuse, Promise!Fresh, Waiting, Seen

\* An operation takes effect for the caller when it is a call and succeeds.
LEMMA ExecuteMaps ==
    ASSUME IInv, Execute
    PROVE  (\E r \in Calls : Promise!Run(r)) \/ UNCHANGED Promise!vars
<1>1. /\ running.request # None /\ running.result = "none"
      /\ client' = client /\ pending' = pending /\ outcome' = outcome
      /\ ran' = ran \/ ran' = ran \cup ({running.request} \cap Calls)
  BY DEF Execute, renderer
<1>2. Phase' = Phase /\ Waiting' = Waiting /\ Seen' = Seen
  BY <1>1 DEF Phase, Waiting, Seen
<1>3. CASE ran' = ran
  BY <1>2, <1>3, Unseen
<1>4. CASE ran' # ran
  <2> DEFINE r == running.request
  <2>1. r \in Calls /\ ran' = ran \cup {r}
    BY <1>1, <1>4
  <2>2. r \in Waiting \ ran
    BY <1>1, <2>1 DEF IInv, InOnePlace, AnswersAreTrue, Waiting
  <2>3. Promise!Run(r)
    BY <1>2, <2>1, <2>2 DEF Promise!Run, Waiting, Seen
  <2> QED BY <2>1, <2>3
<1> QED BY <1>3, <1>4

\* An answer of success says that the call ran.
LEMMA ResponseMaps ==
    ASSUME IInv, HandleResponse
    PROVE  \/ \E r \in Calls, result \in {"ok", "error"} : Promise!Answer(r, result)
           \/ UNCHANGED Promise!vars
<1>1. /\ Head(toRenderer) \in Answers /\ Head(toRenderer).request \in pending
      /\ Head(toRenderer).result \in {"ok", "error"}
      /\ Head(toRenderer).request \in Calls /\ Head(toRenderer).result = "ok" =>
             Head(toRenderer).request \in ran
  <2> DEFINE S == [request : Requests, result : {"ok", "error"}]
             answer == Head(toRenderer)
  <2>1. toRenderer \in Seq(S) /\ toRenderer # <<>>
    BY DEF IInv, TypeOK, HandleResponse
  <2> HIDE DEF S
  <2>2. answer \in S /\ answer \in Answers
    BY <2>1, FromTheFront DEF Answers
  <2>3. answer.result \in {"ok", "error"}
    BY <2>2 DEF S
  <2> QED BY <2>2, <2>3 DEF IInv, InOnePlace, AnswersAreTrue
<1>2. PICK r \in pending, result \in {Head(toRenderer).result} :
        /\ pending' = pending \ {r} /\ outcome' = [outcome EXCEPT ![r] = result]
        /\ ran' = ran /\ (client' = client \/ (client = "draining" /\ client' = "drained"))
        /\ r \in Calls /\ result = "ok" => r \in ran
        /\ result \in {"ok", "error"}
  BY <1>1 DEF HandleResponse, Settle
<1>3. Phase' = Phase
  BY <1>2 DEF Phase
<1>4. outcome \in [Requests -> {"none", "ok", "error", "refused", "abandoned"}] /\ r \in Requests
  BY DEF IInv, TypeOK
<1>5. CASE r \in Calls
  <2>1. r \in Waiting /\ Waiting' = Waiting \ {r}
    BY <1>2, <1>5 DEF Waiting
  <2>2. Seen' = [Seen EXCEPT ![r] = result]
    BY <1>2, <1>4, <1>5, Kinds DEF Seen
  <2>3. Promise!Answer(r, result)
    BY <1>2, <1>3, <1>5, <2>1, <2>2 DEF Promise!Answer, Waiting, Seen
  <2> QED BY <1>2, <1>5, <2>3
<1>6. CASE r \notin Calls
  <2>1. Waiting' = Waiting
    BY <1>2, <1>6 DEF Waiting
  <2>2. Seen' = Seen
    BY <1>2, <1>4, <1>6, Kinds DEF Seen
  <2> QED BY <1>2, <1>3, <2>1, <2>2, Unseen
<1> QED BY <1>5, <1>6

\* The client's own requests are none of the callers' business.
LEMMA OwnRequestsUnseen ==
    ASSUME IInv, StartOpen \/ SendClose
    PROVE  UNCHANGED Promise!vars
<1>1. PICK r \in {Open, Close} :
        /\ pending' = pending \/ pending' = pending \cup {r}
        /\ outcome' = outcome \/ outcome' = [outcome EXCEPT ![r] = "refused"]
        /\ ran' = ran
        /\ \/ client = "new" /\ client' = "opening"
           \/ client = "drained" /\ client' = "closing"
  BY DEF StartOpen, SendClose, Post, PostThrows, Settle
<1>2. Phase' = Phase
  BY <1>1 DEF Phase
<1>3. Waiting' = Waiting
  BY <1>1, Kinds DEF Waiting
<1>4. Seen' = Seen
  BY <1>1, Kinds DEF Seen, IInv, TypeOK
<1> QED BY <1>1, <1>2, <1>3, <1>4, Unseen

\* What happens in the worker and in the channel is not seen.
LEMMA ServerUnseen ==
    ASSUME HandleRequest \/ Respond \/ WorkerDies \/ UNCHANGED vars
    PROVE  UNCHANGED Promise!vars
<1>1. client' = client /\ pending' = pending /\ outcome' = outcome /\ ran' = ran
  BY DEF HandleRequest, Respond, WorkerDies, Terminated, renderer, vars
<1>2. Phase' = Phase /\ Waiting' = Waiting /\ Seen' = Seen
  BY <1>1 DEF Phase, Waiting, Seen
<1> QED BY <1>1, <1>2, Unseen

\* A step maps to one of the abstract store, or to a stutter.
LEMMA StepMaps == IInv /\ [Next]_vars => [Promise!Next]_Promise!vars
<1> SUFFICES ASSUME IInv, [Next]_vars PROVE [Promise!Next]_Promise!vars
  OBVIOUS
<1>1. CASE HandleRequest \/ Respond \/ WorkerDies \/ UNCHANGED vars
  BY <1>1, ServerUnseen
<1>2. CASE Execute
  BY <1>2, ExecuteMaps DEF Promise!Next
<1>3. CASE StartOpen \/ SendClose
  BY <1>3, OwnRequestsUnseen
<1>4. CASE Opened
  <2>1. Phase = "opening" /\ Phase' = "serving" /\ Waiting' = Waiting /\ Seen' = Seen /\ ran' = ran
    BY <1>4 DEF Opened, Phase, Waiting, Seen
  <2> QED BY <2>1 DEF Promise!Next, Promise!Serve, Waiting, Seen
<1>5. CASE OpenFails \/ OpenTimesOut \/ DrainTimesOut \/ CloseSettles \/ CloseTimesOut
  <2>1. ForceClose /\ client \in {"opening", "draining", "closing"}
    BY <1>5 DEF OpenFails, OpenTimesOut, DrainTimesOut, CloseSettles, CloseTimesOut
  <2> QED BY <2>1, EndMaps DEF Promise!Next
<1>6. ASSUME NEW r \in Calls, Call(r) \/ Refuse(r) PROVE Promise!Next
  BY <1>6, CallMaps, RefuseMaps DEF Promise!Next
<1>7. CASE HandleResponse
  BY <1>7, ResponseMaps DEF Promise!Next
<1>8. CASE StartClose
  <2>1. client = "ready" /\ client' \in {"drained", "draining"}
          /\ UNCHANGED <<pending, outcome, ran>>
    BY <1>8 DEF StartClose
  <2>2. Phase = "serving" /\ Phase' = "stopping" /\ Waiting' = Waiting /\ Seen' = Seen /\ ran' = ran
    BY <2>1 DEF Phase, Waiting, Seen
  <2> QED BY <2>2 DEF Promise!Next, Promise!Stop, Waiting, Seen
<1> QED
  BY <1>1, <1>2, <1>3, <1>4, <1>5, <1>6, <1>7, <1>8 DEF Next

\* Seen by its callers the store in the worker is a store like any other: each call takes
\* effect at most once and only while it is waited for, an answer says whether it did, and
\* a call abandoned by a forced close takes no effect any more.
THEOREM ImplementsPromise == Spec => Implements
<1>1. Init => Promise!Init
  BY InitMaps
<1>2. IInv /\ [Next]_vars => [Promise!Next]_Promise!vars
  BY StepMaps
<1> QED BY <1>1, <1>2, WorkerInvariant, PTL DEF Spec, Implements, Promise!Spec

-----------------------------------------------------------------------------
(***************************************************************************)
(* The order of dispatch.  Each queue keeps the order of sending, and what *)
(* arrives later was sent later; a request waits only behind those that    *)
(* may overtake it.                                                        *)
(***************************************************************************)
InOrder(s, q) == \A i, j \in DOMAIN q : i < j => Before(s, q[i], q[j])

\* What has been sent, s, what is under way, tw, the queues and what was dispatched.
Ordered(s, tw, fg, mt, st) ==
    /\ InOrder(s, tw) /\ InOrder(s, fg) /\ InOrder(s, mt)
    /\ \A z \in Range(fg) \cup Range(mt) \cup Range(st), w \in Range(tw) : Before(s, z, w)
    /\ \A z \in Range(st), w \in Range(fg) : Before(s, z, w)
    /\ \A z \in Range(st), w \in Range(mt) : z \in Maintenance => Before(s, z, w)

OvertakesOnly(s, st) ==
    \A x \in Range(st), y \in Requests :
        Before(s, y, x) /\ ~Before(st, y, x) => x \notin Maintenance /\ y \in Maintenance

\* Every request is sent at most once, and while the
\* worker lives what was sent has been dispatched or waits.
OInv ==
    /\ Distinct(sent)
    /\ Waits \subseteq Range(sent) /\ Range(started) \subseteq Range(sent)
    /\ Waits \cap Range(started) = {}
    /\ alive => Range(sent) \subseteq Range(started) \cup Waits
    /\ \A r \in Range(sent) : r \in pending \/ outcome[r] # "none"
    /\ Ordered(sent, toWorker, foreground, maintenance, started)
    /\ OvertakesOnly(sent, started)

\* Sequences order what is in them; without repetition they do it one way.
LEMMA BeforeIsAnOrder ==
    ASSUME NEW S, NEW s \in Seq(S), NEW x, NEW y, Before(s, x, y)
    PROVE  /\ x \in Range(s) /\ y \in Range(s)
           /\ Distinct(s) => x # y /\ ~Before(s, y, x)
<1>1. DOMAIN s = 1..Len(s) /\ Len(s) \in Nat
  OBVIOUS
<1>2. PICK i \in DOMAIN s, j \in DOMAIN s : i < j /\ s[i] = x /\ s[j] = y
  BY DEF Before
<1>3. x \in Range(s) /\ y \in Range(s)
  BY <1>2 DEF Range
<1>4. ASSUME Distinct(s) PROVE x # y /\ ~Before(s, y, x)
  <2>1. x # y
    BY <1>1, <1>2, <1>4 DEF Distinct
  <2>2. ASSUME Before(s, y, x) PROVE FALSE
    <3>1. PICK k \in DOMAIN s, l \in DOMAIN s : k < l /\ s[k] = y /\ s[l] = x
      BY <2>2 DEF Before
    <3>2. k = j /\ l = i
      BY <1>2, <1>4, <3>1 DEF Distinct
    <3> QED BY <1>1, <1>2, <3>1, <3>2
  <2> QED BY <2>1, <2>2
<1> QED BY <1>3, <1>4

\* A new element comes after all the others and changes nothing among them.
LEMMA BeforeTheNew ==
    ASSUME NEW S, NEW s \in Seq(S), NEW r \in S
    PROVE  /\ \A x, y : Before(s, x, y) => Before(Append(s, r), x, y)
           /\ \A x \in Range(s) : Before(Append(s, r), x, r)
           /\ \A x, y : Before(Append(s, r), x, y) =>
                  Before(s, x, y) \/ (x \in Range(s) /\ y = r)
<1> DEFINE a == Append(s, r)
<1>1. /\ DOMAIN a = 1..(Len(s) + 1) /\ DOMAIN s = 1..Len(s) /\ Len(s) \in Nat
      /\ \A i \in 1..Len(s) : a[i] = s[i]
      /\ a[Len(s) + 1] = r
  OBVIOUS
<1> HIDE DEF a
<1>2. ASSUME NEW x, NEW y, Before(s, x, y) PROVE Before(a, x, y)
  <2>1. PICK i \in 1..Len(s), j \in 1..Len(s) : i < j /\ s[i] = x /\ s[j] = y
    BY <1>1, <1>2 DEF Before
  <2>2. i \in DOMAIN a /\ j \in DOMAIN a /\ a[i] = x /\ a[j] = y
    BY <1>1, <2>1
  <2> QED BY <2>1, <2>2 DEF Before
<1>3. ASSUME NEW x \in Range(s) PROVE Before(a, x, r)
  <2>1. PICK i \in 1..Len(s) : s[i] = x
    BY <1>1, <1>3 DEF Range
  <2>2. i \in DOMAIN a /\ Len(s) + 1 \in DOMAIN a /\ i < Len(s) + 1 /\ a[i] = x
    BY <1>1, <2>1
  <2> QED BY <1>1, <2>2 DEF Before
<1>4. ASSUME NEW x, NEW y, Before(a, x, y)
      PROVE  Before(s, x, y) \/ (x \in Range(s) /\ y = r)
  <2>1. PICK i \in 1..(Len(s) + 1), j \in 1..(Len(s) + 1) : i < j /\ a[i] = x /\ a[j] = y
    BY <1>1, <1>4 DEF Before
  <2>2. i \in DOMAIN s /\ s[i] = x /\ x \in Range(s)
    <3>1. i \in 1..Len(s)
      BY <1>1, <2>1
    <3> QED BY <1>1, <2>1, <3>1 DEF Range
  <2>3. CASE j = Len(s) + 1
    BY <1>1, <2>1, <2>2, <2>3
  <2>4. CASE j # Len(s) + 1
    <3>1. j \in DOMAIN s /\ s[j] = y
      BY <1>1, <2>1, <2>4
    <3> QED BY <2>1, <2>2, <3>1 DEF Before
  <2> QED BY <2>3, <2>4
<1> QED BY <1>2, <1>3, <1>4 DEF a

\* A request sent after all of a queue goes to its end.
LEMMA OrderAtTheEnd ==
    ASSUME NEW S, NEW q \in Seq(S), NEW r \in S, NEW s, InOrder(s, q),
           \A z \in Range(q) : Before(s, z, r)
    PROVE  InOrder(s, Append(q, r))
<1> DEFINE a == Append(q, r)
<1>1. /\ DOMAIN a = 1..(Len(q) + 1) /\ DOMAIN q = 1..Len(q) /\ Len(q) \in Nat
      /\ \A i \in 1..Len(q) : a[i] = q[i]
      /\ a[Len(q) + 1] = r
  OBVIOUS
<1> HIDE DEF a
<1>2. ASSUME NEW i \in DOMAIN a, NEW j \in DOMAIN a, i < j PROVE Before(s, a[i], a[j])
  <2>1. i \in 1..Len(q) /\ a[i] = q[i] /\ q[i] \in Range(q)
    <3>1. i \in 1..Len(q)
      BY <1>1, <1>2
    <3> QED BY <1>1, <3>1 DEF Range
  <2>2. CASE j = Len(q) + 1
    BY <1>1, <2>1, <2>2
  <2>3. CASE j # Len(q) + 1
    <3>1. j \in 1..Len(q)
      BY <1>1, <1>2, <2>3
    <3> QED BY <1>1, <1>2, <2>1, <3>1 DEF InOrder
  <2> QED BY <2>2, <2>3
<1> QED BY <1>2 DEF InOrder, a

\* The first of a queue was sent before the rest of it.
LEMMA OrderFromTheFront ==
    ASSUME NEW S, NEW q \in Seq(S), q # <<>>, NEW s, InOrder(s, q)
    PROVE  /\ InOrder(s, Tail(q))
           /\ \A z \in Range(q) : z = Head(q) \/ Before(s, Head(q), z)
           /\ \A z \in Range(Tail(q)) : Before(s, Head(q), z)
<1>1. /\ Tail(q) \in Seq(S) /\ DOMAIN Tail(q) = 1..(Len(q) - 1)
      /\ DOMAIN q = 1..Len(q) /\ Len(q) \in Nat /\ Len(q) > 0
      /\ Head(q) = q[1] /\ \A i \in 1..(Len(q) - 1) : Tail(q)[i] = q[i + 1]
  OBVIOUS
<1> DEFINE t == Tail(q)
           h == Head(q)
<1>2. DOMAIN t = 1..(Len(q) - 1) /\ h = q[1] /\ \A i \in 1..(Len(q) - 1) : t[i] = q[i + 1]
  BY <1>1
<1> HIDE DEF t, h
<1>3. ASSUME NEW i \in DOMAIN t, NEW j \in DOMAIN t, i < j PROVE Before(s, t[i], t[j])
  <2>1. i + 1 \in DOMAIN q /\ j + 1 \in DOMAIN q /\ i + 1 < j + 1
    BY <1>1, <1>2, <1>3
  <2> QED BY <1>2, <2>1 DEF InOrder
<1>4. ASSUME NEW z \in Range(t) PROVE Before(s, h, z)
  <2>1. PICK i \in 1..(Len(q) - 1) : t[i] = z
    BY <1>2, <1>4 DEF Range
  <2>2. 1 \in DOMAIN q /\ i + 1 \in DOMAIN q /\ 1 < i + 1
    BY <1>1, <2>1
  <2> QED BY <1>2, <2>1, <2>2 DEF InOrder
<1>5. ASSUME NEW z \in Range(q) PROVE z = h \/ Before(s, h, z)
  <2>1. PICK i \in 1..Len(q) : q[i] = z
    BY <1>1, <1>5 DEF Range
  <2>2. CASE i = 1
    BY <1>2, <2>1, <2>2
  <2>3. CASE i # 1
    <3>1. 1 \in DOMAIN q /\ i \in DOMAIN q /\ 1 < i
      BY <1>1, <2>1, <2>3
    <3> QED BY <1>2, <2>1, <3>1 DEF InOrder
  <2> QED BY <2>2, <2>3
<1> QED BY <1>3, <1>4, <1>5 DEF InOrder, t, h

\* A message that arrives goes behind those of its kind.
LEMMA ArrivalKeepsOrder ==
    ASSUME NEW s, NEW tw \in Seq(Requests), tw # <<>>,
           NEW fg \in Seq(Urgent), NEW mt \in Seq(Maintenance), NEW st,
           Ordered(s, tw, fg, mt, st)
    PROVE  /\ Head(tw) \in Maintenance =>
                  Ordered(s, Tail(tw), fg, Append(mt, Head(tw)), st)
           /\ Head(tw) \notin Maintenance =>
                  Ordered(s, Tail(tw), Append(fg, Head(tw)), mt, st)
<1> DEFINE r == Head(tw)
           t == Tail(tw)
<1>1. r \in Requests /\ r \in Range(tw) /\ Range(t) \subseteq Range(tw)
  BY FromTheFront
<1>2. InOrder(s, t) /\ \A w \in Range(t) : Before(s, r, w)
  BY OrderFromTheFront DEF Ordered
<1> HIDE DEF r, t
<1>3. /\ InOrder(s, fg) /\ InOrder(s, mt)
      /\ \A z \in Range(fg) \cup Range(mt) \cup Range(st), w \in Range(tw) : Before(s, z, w)
      /\ \A z \in Range(st), w \in Range(fg) : Before(s, z, w)
      /\ \A z \in Range(st), w \in Range(mt) : z \in Maintenance => Before(s, z, w)
  BY DEF Ordered
<1>4. ASSUME r \in Maintenance PROVE Ordered(s, t, fg, Append(mt, r), st)
  <2>1. Range(Append(mt, r)) = Range(mt) \cup {r}
    BY <1>4, AtTheEnd
  <2>2. InOrder(s, Append(mt, r))
    BY <1>1, <1>3, <1>4, OrderAtTheEnd
  <2> QED BY <1>1, <1>2, <1>3, <2>1, <2>2 DEF Ordered
<1>5. ASSUME r \notin Maintenance PROVE Ordered(s, t, Append(fg, r), mt, st)
  <2>1. r \in Urgent
    BY <1>1, <1>5, Kinds
  <2>2. Range(Append(fg, r)) = Range(fg) \cup {r}
    BY <2>1, AtTheEnd
  <2>3. InOrder(s, Append(fg, r))
    BY <1>1, <1>3, <2>1, OrderAtTheEnd
  <2> QED BY <1>1, <1>2, <1>3, <2>2, <2>3 DEF Ordered
<1> QED BY <1>4, <1>5 DEF r, t

\* One more dispatch: the request that goes was sent before all that stay behind in
\* its queue, and if it is maintenance nothing urgent waits.
LEMMA DispatchOvertakes ==
    ASSUME NEW s \in Seq(Requests), Distinct(s), NEW st \in Seq(Requests), OvertakesOnly(s, st),
           NEW x \in Requests, NEW rest, Range(s) \subseteq Range(st) \cup rest,
           \A y \in rest : Before(s, y, x) => x \notin Maintenance /\ y \in Maintenance
    PROVE  OvertakesOnly(s, Append(st, x))
<1>1. /\ Range(Append(st, x)) = Range(st) \cup {x}
      /\ \A u, v : Before(st, u, v) => Before(Append(st, x), u, v)
      /\ \A u \in Range(st) : Before(Append(st, x), u, x)
  BY AtTheEnd, BeforeTheNew
<1>2. ASSUME NEW y \in Requests, Before(s, y, x), ~Before(Append(st, x), y, x)
      PROVE  x \notin Maintenance /\ y \in Maintenance
  <2>1. y \in Range(s)
    BY <1>2, BeforeIsAnOrder
  <2>2. y \notin Range(st)
    BY <1>1, <1>2
  <2> QED BY <1>2, <2>1, <2>2
<1>3. ASSUME NEW u \in Range(st), NEW y \in Requests, Before(s, y, u),
             ~Before(Append(st, x), y, u)
      PROVE  u \notin Maintenance /\ y \in Maintenance
  <2>1. ~Before(st, y, u)
    BY <1>1, <1>3
  <2> QED BY <1>3, <2>1 DEF OvertakesOnly
<1> QED BY <1>1, <1>2, <1>3 DEF OvertakesOnly

\* What the next dispatch does to the order.
LEMMA DrainKeepsOrder ==
    ASSUME NEW s \in Seq(Requests), Distinct(s), started \in Seq(Requests),
           NEW tw \in Seq(Requests), NEW fg \in Seq(Urgent), NEW mt \in Seq(Maintenance),
           Distinct(fg), Distinct(mt), Range(tw) \cap (Range(fg) \cup Range(mt)) = {},
           Ordered(s, tw, fg, mt, started), OvertakesOnly(s, started),
           Range(s) \subseteq Range(started) \cup Range(tw) \cup Range(fg) \cup Range(mt),
           (Range(tw) \cup Range(fg) \cup Range(mt)) \cap Range(started) = {},
           Drain(fg, mt)
    PROVE  /\ Ordered(s, tw, foreground', maintenance', started')
           /\ OvertakesOnly(s, started')
           /\ Range(started') \subseteq Range(started) \cup Range(fg) \cup Range(mt)
           /\ Range(started) \subseteq Range(started')
           /\ Range(foreground') \subseteq Range(fg) /\ Range(maintenance') \subseteq Range(mt)
           /\ Range(fg) \cup Range(mt)
                  \subseteq Range(started') \cup Range(foreground') \cup Range(maintenance')
           /\ (Range(tw) \cup Range(foreground') \cup Range(maintenance')) \cap Range(started') = {}
<1>0. /\ InOrder(s, tw) /\ InOrder(s, fg) /\ InOrder(s, mt)
      /\ \A z \in Range(fg) \cup Range(mt) \cup Range(started), w \in Range(tw) : Before(s, z, w)
      /\ \A z \in Range(started), w \in Range(fg) : Before(s, z, w)
      /\ \A z \in Range(started), w \in Range(mt) : z \in Maintenance => Before(s, z, w)
  BY DEF Ordered
<1>a. Range(fg) \subseteq Urgent /\ Range(mt) \subseteq Maintenance
  BY InTheQueue
<1>b. \A x, y : Before(s, x, y) => x # y /\ ~Before(s, y, x)
  BY BeforeIsAnOrder
<1>1. CASE /\ fg # <<>> /\ Start(Head(fg))
           /\ foreground' = Tail(fg) /\ maintenance' = mt
  <2> DEFINE x == Head(fg)
  <2>1. /\ x \in Urgent /\ x \in Range(fg) /\ foreground' \in Seq(Urgent)
        /\ Range(foreground') = Range(fg) \ {x}
    BY <1>1, FromTheFront
  <2>2. /\ InOrder(s, foreground') /\ \A z \in Range(fg) : z = x \/ Before(s, x, z)
        /\ \A z \in Range(foreground') : Before(s, x, z)
    BY <1>0, <1>1, OrderFromTheFront
  <2>3. started' = Append(started, x) /\ maintenance' = mt
    BY <1>1 DEF Start
  <2> HIDE DEF x
  <2>4. x \in Requests /\ x \notin Maintenance /\ x \notin Range(mt) /\ x \notin Range(tw)
    BY <1>a, <2>1, Kinds
  <2>5. Range(started') = Range(started) \cup {x}
    BY <2>3, <2>4, AtTheEnd
  <2>6. Ordered(s, tw, foreground', maintenance', started')
    BY <1>0, <2>1, <2>2, <2>3, <2>4, <2>5 DEF Ordered
  <2>7. OvertakesOnly(s, started')
    <3>1. \A y \in Range(tw) \cup Range(fg) \cup Range(mt) :
              Before(s, y, x) => x \notin Maintenance /\ y \in Maintenance
      BY <1>0, <1>a, <1>b, <2>1, <2>2, <2>4
    <3>2. OvertakesOnly(s, Append(started, x))
      BY <2>4, <3>1, DispatchOvertakes
    <3> QED BY <2>3, <3>2
  <2> QED BY <2>1, <2>3, <2>4, <2>5, <2>6, <2>7
<1>2. CASE /\ fg = <<>> /\ mt # <<>> /\ Start(Head(mt))
           /\ foreground' = fg /\ maintenance' = Tail(mt)
  <2> DEFINE x == Head(mt)
  <2>1. /\ x \in Maintenance /\ x \in Range(mt) /\ maintenance' \in Seq(Maintenance)
        /\ Range(maintenance') = Range(mt) \ {x}
    BY <1>2, FromTheFront
  <2>2. /\ InOrder(s, maintenance') /\ \A z \in Range(mt) : z = x \/ Before(s, x, z)
        /\ \A z \in Range(maintenance') : Before(s, x, z)
    BY <1>0, <1>2, OrderFromTheFront
  <2>3. started' = Append(started, x) /\ foreground' = fg /\ Range(fg) = {}
    BY <1>2, NothingQueued DEF Start
  <2> HIDE DEF x
  <2>4. x \in Requests /\ x \notin Range(tw)
    BY <2>1, Kinds
  <2>5. Range(started') = Range(started) \cup {x}
    BY <2>3, <2>4, AtTheEnd
  <2>6. Ordered(s, tw, foreground', maintenance', started')
    BY <1>0, <2>1, <2>2, <2>3, <2>4, <2>5 DEF Ordered
  <2>7. OvertakesOnly(s, started')
    <3>1. \A y \in Range(tw) \cup Range(fg) \cup Range(mt) :
              Before(s, y, x) => x \notin Maintenance /\ y \in Maintenance
      BY <1>0, <1>b, <2>1, <2>2, <2>3
    <3>2. OvertakesOnly(s, Append(started, x))
      BY <2>4, <3>1, DispatchOvertakes
    <3> QED BY <2>3, <3>2
  <2> QED BY <2>1, <2>3, <2>4, <2>5, <2>6, <2>7
<1>3. CASE fg = <<>> /\ mt = <<>> /\ foreground' = fg /\ maintenance' = mt /\ started' = started
  BY <1>3
<1> QED BY <1>1, <1>2, <1>3 DEF Drain

\* The answer to a request, or its abandonment, takes none of the sent back.
LEMMA NothingMoves ==
    ASSUME OInv, UNCHANGED <<toWorker, foreground, maintenance, started, sent, alive>>,
           \A r \in Range(sent) :
               (r \in pending \/ outcome[r] # "none") => (r \in pending' \/ outcome'[r] # "none")
    PROVE  OInv'
<1>1. Waits' = Waits
  BY DEF Waits
<1> QED BY <1>1 DEF OInv

\* A worker that ended holds nothing.
LEMMA WorkerEndsInOrder ==
    ASSUME OInv, Terminated,
           \A r \in Range(sent) :
               (r \in pending \/ outcome[r] # "none") => (r \in pending' \/ outcome'[r] # "none")
    PROVE  OInv'
<1>1. /\ toWorker' = <<>> /\ foreground' = <<>> /\ maintenance' = <<>> /\ ~alive'
      /\ sent' = sent /\ started' = started
  BY DEF Terminated
<1>2. Range(<<>>) = {}
  BY NothingQueued
<1>3. Waits' = {}
  BY <1>1, <1>2 DEF Waits
<1>4. Ordered(sent, <<>>, <<>>, <<>>, started)
  BY <1>2 DEF Ordered, InOrder
<1> QED BY <1>1, <1>3, <1>4 DEF OInv

\* A request that is posted was never sent before, and is now the last sent.
LEMMA PostKeepsOrder ==
    ASSUME IInv, OInv, NEW r \in Requests, r \notin pending, outcome[r] = "none",
           Post(r), UNCHANGED server
    PROVE  OInv'
<1>1. /\ sent' = Append(sent, r) /\ pending' = pending \cup {r} /\ outcome' = outcome
      /\ toWorker' = IF alive THEN Append(toWorker, r) ELSE toWorker
      /\ UNCHANGED <<alive, foreground, maintenance, started>>
  BY DEF Post, server
<1>2. /\ sent \in Seq(Requests) /\ toWorker \in Seq(Requests) /\ started \in Seq(Requests)
      /\ Distinct(toWorker)
  BY DEF IInv, TypeOK, InOnePlace
<1>3. /\ Distinct(sent) /\ Waits \subseteq Range(sent) /\ Range(started) \subseteq Range(sent)
      /\ Waits \cap Range(started) = {}
      /\ Ordered(sent, toWorker, foreground, maintenance, started)
      /\ OvertakesOnly(sent, started)
      /\ (~alive => Waits = {})
      /\ (alive => Range(sent) \subseteq Range(started) \cup Waits)
      /\ r \notin Range(sent)
  BY DEF OInv, IInv, InOnePlace
<1>4. /\ Range(sent') = Range(sent) \cup {r} /\ Distinct(sent')
  BY <1>1, <1>2, <1>3, AtTheEnd
<1>5. /\ \A x, y : Before(sent, x, y) => Before(sent', x, y)
      /\ \A x \in Range(sent) : Before(sent', x, r)
      /\ \A x, y : Before(sent', x, y) => Before(sent, x, y) \/ (x \in Range(sent) /\ y = r)
  BY <1>1, <1>2, BeforeTheNew
<1>6. \A q : InOrder(sent, q) => InOrder(sent', q)
  BY <1>5 DEF InOrder
<1>7. Range(toWorker') \subseteq Range(toWorker) \cup {r} /\ (alive => r \in Range(toWorker'))
        /\ Range(toWorker) \subseteq Range(toWorker')
  BY <1>1, <1>2, AtTheEnd
<1>8. Waits' = Range(toWorker') \cup Range(foreground) \cup Range(maintenance)
        /\ Waits' \subseteq Waits \cup {r} /\ Waits \subseteq Waits' /\ (alive => r \in Waits')
  BY <1>1, <1>7 DEF Waits
<1>9. InOrder(sent', toWorker')
  <2>1. InOrder(sent', toWorker) /\ \A z \in Range(toWorker) : Before(sent', z, r)
    BY <1>3, <1>5, <1>6 DEF Ordered, Waits
  <2>2. InOrder(sent', Append(toWorker, r))
    BY <1>2, <2>1, OrderAtTheEnd
  <2> QED BY <1>1, <2>1, <2>2
<1>10. Ordered(sent', toWorker', foreground, maintenance, started)
  <2>1. \A z \in Range(foreground) \cup Range(maintenance) \cup Range(started),
           w \in Range(toWorker') : Before(sent', z, w)
    BY <1>3, <1>5, <1>7 DEF Ordered, Waits
  <2> QED BY <1>3, <1>5, <1>6, <1>9, <2>1 DEF Ordered
<1>11. OvertakesOnly(sent', started)
  BY <1>3, <1>5 DEF OvertakesOnly
<1>12. \A x \in Range(sent') : x \in pending' \/ outcome'[x] # "none"
  BY <1>1, <1>4 DEF OInv
<1>13. alive' => Range(sent') \subseteq Range(started') \cup Waits'
  BY <1>1, <1>3, <1>4, <1>8
<1>14. /\ Waits' \subseteq Range(sent') /\ Range(started') \subseteq Range(sent')
       /\ Waits' \cap Range(started') = {}
  BY <1>1, <1>3, <1>4, <1>8
<1> QED BY <1>1, <1>4, <1>10, <1>11, <1>12, <1>13, <1>14 DEF OInv

\* A message that arrives keeps the order, dispatched at once or not.
LEMMA ArrivalInOrder ==
    ASSUME IInv, OInv, HandleRequest
    PROVE  OInv'
<1> DEFINE r == Head(toWorker)
           fg == IF IsMaintenance(r) THEN foreground ELSE Append(foreground, r)
           mt == IF IsMaintenance(r) THEN Append(maintenance, r) ELSE maintenance
           tw == Tail(toWorker)
<1>1. /\ alive /\ toWorker # <<>> /\ toWorker' = tw
      /\ UNCHANGED <<pending, outcome, alive, sent>>
      /\ IF running = Idling THEN Drain(fg, mt)
         ELSE foreground' = fg /\ maintenance' = mt /\ started' = started
  BY DEF HandleRequest, renderer
<1>2. /\ toWorker \in Seq(Requests) /\ Distinct(toWorker)
      /\ foreground \in Seq(Urgent) /\ Distinct(foreground)
      /\ maintenance \in Seq(Maintenance) /\ Distinct(maintenance)
      /\ sent \in Seq(Requests) /\ started \in Seq(Requests)
      /\ Range(toWorker) \cap (Range(foreground) \cup Range(maintenance)) = {}
  BY DEF IInv, TypeOK, InOnePlace, Urgent
<1>3. /\ r \in Requests /\ r \in Range(toWorker) /\ tw \in Seq(Requests)
      /\ Distinct(tw) /\ Range(tw) = Range(toWorker) \ {r}
  BY <1>1, <1>2, FromTheFront
<1>4. /\ fg \in Seq(Urgent) /\ mt \in Seq(Maintenance) /\ Distinct(fg) /\ Distinct(mt)
      /\ Range(fg) \cup Range(mt) = Range(foreground) \cup Range(maintenance) \cup {r}
  <2>0. r \notin Range(foreground) \cup Range(maintenance)
    BY <1>2, <1>3
  <2>1. CASE r \in Maintenance
    BY <2>0, <2>1, <1>2, AtTheEnd DEF IsMaintenance
  <2>2. CASE r \notin Maintenance
    <3>1. r \in Urgent
      BY <2>2, <1>3, Kinds
    <3> QED BY <2>0, <2>2, <3>1, <1>2, AtTheEnd DEF IsMaintenance
  <2> QED BY <2>1, <2>2
<1>5. Ordered(sent, tw, fg, mt, started)
  <2>1. Ordered(sent, toWorker, foreground, maintenance, started)
    BY DEF OInv
  <2> QED BY <1>1, <1>2, <2>1, ArrivalKeepsOrder DEF IsMaintenance
<1> HIDE DEF r, fg, mt, tw
<1>6. /\ Waits = Range(tw) \cup Range(fg) \cup Range(mt)
      /\ Range(tw) \cap (Range(fg) \cup Range(mt)) = {}
  BY <1>2, <1>3, <1>4 DEF Waits
<1>7. /\ Distinct(sent) /\ Waits \subseteq Range(sent) /\ Range(started) \subseteq Range(sent)
      /\ Waits \cap Range(started) = {} /\ OvertakesOnly(sent, started)
      /\ Range(sent) \subseteq Range(started) \cup Waits
      /\ \A x \in Range(sent) : x \in pending \/ outcome[x] # "none"
  BY <1>1 DEF OInv
<1>8. CASE running = Idling
  <2>1. /\ Ordered(sent, tw, foreground', maintenance', started')
        /\ OvertakesOnly(sent, started')
        /\ Range(started') \subseteq Range(started) \cup Range(fg) \cup Range(mt)
        /\ Range(foreground') \subseteq Range(fg) /\ Range(maintenance') \subseteq Range(mt)
        /\ Range(fg) \cup Range(mt)
               \subseteq Range(started') \cup Range(foreground') \cup Range(maintenance')
        /\ (Range(tw) \cup Range(foreground') \cup Range(maintenance')) \cap Range(started') = {}
        /\ Range(started) \subseteq Range(started')
    <3>1. Drain(fg, mt)
      BY <1>1, <1>8
    <3>2. /\ Range(sent) \subseteq Range(started) \cup Range(tw) \cup Range(fg) \cup Range(mt)
          /\ (Range(tw) \cup Range(fg) \cup Range(mt)) \cap Range(started) = {}
      BY <1>6, <1>7
    <3>3. /\ sent \in Seq(Requests) /\ started \in Seq(Requests) /\ tw \in Seq(Requests)
          /\ fg \in Seq(Urgent) /\ mt \in Seq(Maintenance) /\ Distinct(fg) /\ Distinct(mt)
          /\ Distinct(sent) /\ OvertakesOnly(sent, started)
          /\ Range(tw) \cap (Range(fg) \cup Range(mt)) = {}
      BY <1>2, <1>3, <1>4, <1>6, <1>7
    <3> QED BY ONLY <1>5, <3>1, <3>2, <3>3, DrainKeepsOrder
  <2> QED BY <1>1, <1>6, <1>7, <2>1 DEF OInv, Waits
<1>9. CASE running # Idling
  BY <1>1, <1>5, <1>6, <1>7, <1>9 DEF OInv, Waits
<1> QED BY <1>8, <1>9

\* So does the dispatch that follows an answer.
LEMMA AnswerInOrder ==
    ASSUME IInv, OInv, Respond
    PROVE  OInv'
<1>1. /\ Drain(foreground, maintenance) /\ UNCHANGED <<pending, outcome, toWorker, alive, sent>>
      /\ running.request # None
  BY DEF Respond, renderer
<1>2. alive
  BY <1>1, Kinds DEF IInv, InOnePlace, Idling, Dispatch
<1>3. /\ toWorker \in Seq(Requests)
      /\ foreground \in Seq(Urgent) /\ Distinct(foreground)
      /\ maintenance \in Seq(Maintenance) /\ Distinct(maintenance)
      /\ sent \in Seq(Requests) /\ started \in Seq(Requests)
      /\ Range(toWorker) \cap (Range(foreground) \cup Range(maintenance)) = {}
  BY DEF IInv, TypeOK, InOnePlace, Urgent
<1>4. /\ Distinct(sent) /\ Waits \subseteq Range(sent) /\ Range(started) \subseteq Range(sent)
      /\ Waits \cap Range(started) = {} /\ OvertakesOnly(sent, started)
      /\ Ordered(sent, toWorker, foreground, maintenance, started)
      /\ Range(sent) \subseteq Range(started) \cup Waits
      /\ \A x \in Range(sent) : x \in pending \/ outcome[x] # "none"
      /\ Waits = Range(toWorker) \cup Range(foreground) \cup Range(maintenance)
  BY <1>2 DEF OInv, Waits
<1>5. /\ Ordered(sent, toWorker, foreground', maintenance', started')
      /\ OvertakesOnly(sent, started')
      /\ Range(started') \subseteq Range(started) \cup Range(foreground) \cup Range(maintenance)
      /\ Range(foreground') \subseteq Range(foreground)
      /\ Range(maintenance') \subseteq Range(maintenance)
      /\ Range(foreground) \cup Range(maintenance)
             \subseteq Range(started') \cup Range(foreground') \cup Range(maintenance')
      /\ (Range(toWorker) \cup Range(foreground') \cup Range(maintenance'))
             \cap Range(started') = {}
      /\ Range(started) \subseteq Range(started')
  BY <1>1, <1>3, <1>4, DrainKeepsOrder, SMTT(30)
<1> QED BY <1>1, <1>4, <1>5 DEF OInv, Waits

\* The order holds at the start.
LEMMA InitOInv == Init => OInv
<1> SUFFICES ASSUME Init PROVE OInv
  OBVIOUS
<1>1. /\ toWorker = <<>> /\ foreground = <<>> /\ maintenance = <<>>
      /\ sent = <<>> /\ started = <<>>
  BY DEF Init
<1>2. Range(<<>>) = {} /\ Distinct(<<>>)
  BY NothingQueued
<1>3. Waits = {}
  BY <1>1, <1>2 DEF Waits
<1> QED BY <1>1, <1>2, <1>3 DEF OInv, Ordered, InOrder, OvertakesOnly

\* Every step keeps the order.
LEMMA StepOInv == IInv /\ OInv /\ [Next]_vars => OInv'
<1> SUFFICES ASSUME IInv, OInv, [Next]_vars PROVE OInv'
  OBVIOUS
<1>0. /\ outcome \in [Requests -> {"none", "ok", "error", "refused", "abandoned"}]
      /\ pending \subseteq Requests /\ Range(sent) \subseteq Requests
      /\ \A r \in pending : outcome[r] = "none"
  BY InTheQueue DEF IInv, TypeOK, PendingByState
<1>a. ASSUME NEW r \in Requests, r \notin pending, outcome[r] = "none",
             Post(r) \/ PostThrows(r), UNCHANGED server
      PROVE  OInv'
  <2>1. CASE Post(r)
    BY <1>a, <2>1, PostKeepsOrder
  <2>2. CASE PostThrows(r)
    BY <1>0, <1>a, <2>2, NothingMoves DEF PostThrows, Settle, server
  <2> QED BY <1>a, <2>1, <2>2
<1>1. CASE HandleRequest
  BY <1>1, ArrivalInOrder
<1>2. CASE Execute
  BY <1>2, NothingMoves DEF Execute, renderer
<1>3. CASE Respond
  BY <1>3, AnswerInOrder
<1>4. CASE WorkerDies
  BY <1>4, WorkerEndsInOrder DEF WorkerDies, renderer
<1>5. CASE StartOpen
  BY <1>5, <1>a, Kinds DEF StartOpen, IInv, PendingByState
<1>6. CASE Opened
  BY <1>6, NothingMoves DEF Opened, server
<1>7. CASE OpenFails \/ OpenTimesOut \/ DrainTimesOut \/ CloseSettles \/ CloseTimesOut
  <2>1. ForceClose
    BY <1>7 DEF OpenFails, OpenTimesOut, DrainTimesOut, CloseSettles, CloseTimesOut
  <2>2. \A r \in Range(sent) :
            (r \in pending \/ outcome[r] # "none") => outcome'[r] # "none"
    BY <1>0, <2>1 DEF ForceClose
  <2> QED BY <2>1, <2>2, WorkerEndsInOrder DEF ForceClose
<1>8. ASSUME NEW r \in Calls, Call(r) \/ Refuse(r) PROVE OInv'
  BY <1>8, <1>a, Kinds DEF Call, Refuse, Fresh
<1>9. CASE HandleResponse
  <2> DEFINE a == Head(toRenderer)
  <2>1. /\ \/ pending' = pending \ {a.request} /\ Settle(a.request, a.result)
           \/ UNCHANGED <<pending, outcome>>
        /\ UNCHANGED <<toWorker, server, sent>>
    BY <1>9 DEF HandleResponse
  <2>2. a \in [request : Requests, result : {"ok", "error"}]
    BY <1>9, FromTheFront DEF HandleResponse, IInv, TypeOK
  <2> HIDE DEF a
  <2>3. \A r \in Range(sent) :
            (r \in pending \/ outcome[r] # "none") => (r \in pending' \/ outcome'[r] # "none")
    BY <1>0, <2>1, <2>2 DEF Settle
  <2> QED BY <2>1, <2>3, NothingMoves DEF server
<1>10. CASE StartClose
  BY <1>10, NothingMoves DEF StartClose, server
<1>11. CASE SendClose
  BY <1>11, <1>a, Kinds DEF SendClose, IInv, PendingByState
<1>12. CASE UNCHANGED vars
  BY <1>12, NothingMoves DEF vars, renderer, server
<1> QED
  BY <1>1, <1>2, <1>3, <1>4, <1>5, <1>6, <1>7, <1>8, <1>9, <1>10, <1>11, <1>12 DEF Next

\* A request overtakes one sent before it only if it is urgent and the other is
\* maintenance, however messages, operations and a dying worker interleave.
THEOREM OrderIsKept == Spec => []OnlyMaintenanceIsOvertaken
<1>1. Init => IInv /\ OInv
  BY InitIInv, InitOInv
<1>2. (IInv /\ OInv) /\ [Next]_vars => (IInv /\ OInv)'
  BY StepIInv, StepOInv
<1>3. OInv => OnlyMaintenanceIsOvertaken
  BY DEF OInv, OvertakesOnly, OnlyMaintenanceIsOvertaken
<1> QED BY <1>1, <1>2, <1>3, PTL DEF Spec

================================================================================
