------------------------------- MODULE QueryProofs ------------------------------
(***************************************************************************)
(* Proofs about Prefetch, for any series, samples, questions and options,  *)
(* whatever the parser and the evaluator are; about the set operators of   *)
(* VectorMatching, for any two vectors; and about the values Evaluator     *)
(* gives the parts of a question, for any tree of expressions.             *)
(***************************************************************************)
EXTENDS Evaluator, Sums, SequenceTheorems

-----------------------------------------------------------------------------
(* The requests of a question.                                             *)

\* The indexes of the keys that come up first.
FirstOnes(keys) == {i \in DOMAIN keys : \A j \in 1..i - 1 : keys[j] # keys[i]}

\* Each key comes up once in Distinct, and none is lost.
LEMMA DistinctIs ==
    ASSUME NEW keys, NEW n \in Nat, DOMAIN keys = 1..n
    PROVE  /\ Distinct(keys) \in Seq(Members(keys))
           /\ Members(Distinct(keys)) = Members(keys)
           /\ \A i, j \in DOMAIN Distinct(keys) : Distinct(keys)[i] = Distinct(keys)[j] => i = j
<1> DEFINE F == FirstOnes(keys)
           N == Cardinality(F)
           d == [k \in 1..N |-> keys[Nth(F, k)]]
<1>1. F \in SUBSET Nat /\ IsFiniteSet(F) /\ F \subseteq DOMAIN keys
  <2>1. F \subseteq 1..n
    BY DEF FirstOnes
  <2>2. IsFiniteSet(1..n)
    BY FS_Interval
  <2> QED BY <2>1, <2>2, FS_Subset
<1>2. Distinct(keys) = d
  BY DEF Distinct, ElementsAt, FirstOnes
<1>3. \A i \in F, j \in F : keys[i] = keys[j] => i = j
  <2>1. \A i \in F, j \in F : i < j => keys[i] # keys[j]
    BY DEF FirstOnes
  <2> QED BY <1>1, <2>1
<1>4. \A key \in Members(keys) : \E i \in F : keys[i] = key
  <2>1. SUFFICES ASSUME NEW key \in Members(keys) PROVE \E i \in F : keys[i] = key
    OBVIOUS
  <2> DEFINE T == {i \in 1..n : keys[i] = key}
  <2>2. T \in SUBSET Nat /\ T # {}
    BY <2>1 DEF Members
  <2>3. PICK i \in T : \A m \in T : i <= m
    BY <2>2, LeastNatural
  <2>4. \A j \in 1..i - 1 : keys[j] # keys[i]
    BY <2>3
  <2> QED BY <2>3, <2>4 DEF FirstOnes
<1>5. /\ N \in Nat
      /\ \A k \in 1..N : Nth(F, k) \in F
      /\ \A i \in F : \E k \in 1..N : Nth(F, k) = i
  BY <1>1, NthIs
<1>6. \A k \in 1..N, l \in 1..N : Nth(F, k) = Nth(F, l) => k = l
  BY <1>1, NthHasRank
<1> HIDE DEF F, N
<1>7. DOMAIN d = 1..N /\ \A k \in 1..N : d[k] = keys[Nth(F, k)] /\ d[k] \in Members(keys)
  BY <1>1, <1>5 DEF Members
<1>8. d \in Seq(Members(keys))
  BY <1>5, <1>7
<1>9. \A i, j \in DOMAIN d : d[i] = d[j] => i = j
  BY <1>3, <1>5, <1>6, <1>7
<1>10. Members(d) = Members(keys)
  <2>1. Members(d) \subseteq Members(keys)
    BY <1>7 DEF Members
  <2>2. ASSUME NEW key \in Members(keys) PROVE key \in Members(d)
    <3>1. PICK i \in F : keys[i] = key
      BY <1>4
    <3>2. PICK k \in 1..N : Nth(F, k) = i
      BY <1>5
    <3> QED BY <1>7, <3>1, <3>2 DEF Members
  <2> QED BY <2>1, <2>2
<1> HIDE DEF d
<1> QED BY <1>2, <1>8, <1>9, <1>10

Answered == {q \in Questions : ~Refused(q)}
AllRequests == UNION {Members(Requests(q)) : q \in Answered}

\* The requests of a question are distinct, and those of its selectors.
LEMMA RequestsAre ==
    ASSUME NEW q \in Answered
    PROVE  /\ Requests(q) \in Seq(AllRequests)
           /\ \A i, j \in DOMAIN Requests(q) : Requests(q)[i] = Requests(q)[j] => i = j
           /\ \A selector \in Members(SelectorsOf(q.expr)) :
                 RequestOf(selector, TimesOf(q)) \in Members(Requests(q))
<1> DEFINE selectors == SelectorsOf(q.expr)
           keys == [i \in DOMAIN selectors |-> RequestOf(selectors[i], TimesOf(q))]
<1>1. q \in Questions /\ q.expr # Wrong
  BY DEF Answered, Refused
<1>2. DOMAIN selectors = 1..Len(selectors) /\ Len(selectors) \in Nat
  BY <1>1, AskedQuestions DEF IsSequence
<1>3. DOMAIN keys = 1..Len(selectors)
  BY <1>2
<1>4. Requests(q) = Distinct(keys)
  BY DEF Requests
<1>5. \A selector \in Members(selectors) : RequestOf(selector, TimesOf(q)) \in Members(keys)
  BY DEF Members
<1> HIDE DEF keys
<1>6. /\ Distinct(keys) \in Seq(Members(keys))
      /\ Members(Distinct(keys)) = Members(keys)
      /\ \A i, j \in DOMAIN Distinct(keys) : Distinct(keys)[i] = Distinct(keys)[j] => i = j
  BY <1>2, <1>3, DistinctIs
<1>7. Members(keys) \subseteq AllRequests
  BY <1>4, <1>6 DEF AllRequests
<1>8. Requests(q) \in Seq(AllRequests)
  BY <1>4, <1>6, <1>7
<1> QED BY <1>4, <1>5, <1>6, <1>8

-----------------------------------------------------------------------------
(***************************************************************************)
(* The inductive invariant.  That all requests of a question read one      *)
(* state needs to know where they are: together in the queue, at its head  *)
(* once the first of them has been answered, and gone when the question is *)
(* answered.                                                               *)
(***************************************************************************)
Ops == [op : {"ingest"}, arrival : Arrivals] \cup [op : {"fetch"}, request : AllRequests]

\* Where the requests wait in the queue.
Fetches == {i \in DOMAIN queue : queue[i].op = "fetch"}

\* No write comes between them,
Together == \A i, k \in Fetches : \A j \in i..k : j \in Fetches

\* nor before the rest of them once one is answered,
AtTheHead == DOMAIN fetched # {} /\ Fetches # {} => 1 \in Fetches /\ samples = asOf

\* and what they got is what the store held then.
ReadFromOne == \A request \in DOMAIN fetched : fetched[request] = Fetch(asOf, request)

\* What waits is a request of the question that no answer has come for.
Awaited ==
    /\ Fetches # {} => asked \in Answered /\ answer = NoAnswer
    /\ \A i \in Fetches : queue[i].request \in Members(Requests(asked)) \ DOMAIN fetched
    /\ \A i, j \in Fetches : queue[i].request = queue[j].request => i = j
    /\ asked = NotAsked => DOMAIN fetched = {}

\* The samples of each series are at finitely many moments, whole milliseconds.
Sampled(store) ==
    /\ store = [s \in DOMAIN Series |-> store[s]]
    /\ \A s \in DOMAIN Series : DOMAIN store[s] \subseteq Nat /\ IsFiniteSet(DOMAIN store[s])
    /\ \A s \in DOMAIN Series : \A t \in DOMAIN store[s] : IsWhole(t)

\* The invariant of types.
TypesFit ==
    /\ queue \in Seq(Ops) /\ asked \in Questions \cup {NotAsked}
    /\ Sampled(samples) /\ Sampled(asOf)

IInv == TypesFit /\ Together /\ AtTheHead /\ ReadFromOne /\ Awaited

LEMMA InitIInv == Init => IInv
<1> SUFFICES ASSUME Init PROVE IInv
  OBVIOUS
<1>1. queue = <<>> /\ DOMAIN fetched = {}
  BY DEF Init
<1>2. Fetches = {}
  BY <1>1 DEF Fetches
<1>3. Sampled(Recorded)
  BY StoredSamples DEF Sampled, SampleTimes
<1>4. TypesFit
  BY <1>1, <1>3 DEF Init, TypesFit
<1> QED BY <1>1, <1>2, <1>4 DEF IInv, Together, AtTheHead, ReadFromOne, Awaited

\* A request in the queue, by its operation.
LEMMA OpFields ==
    ASSUME NEW o \in Ops
    PROVE  /\ o.op = "ingest" => o.arrival \in Arrivals
           /\ o.op = "fetch" => o.request \in AllRequests
  BY DEF Ops

\* A question that is asked is none of those sentinels.
LEMMA AskedIsAsked == NotAsked \notin Questions
<1>1. \A q \in Questions : q.kind \in {"instant", "range"}
  BY AskedQuestions
<1>2. NotAsked.kind = "none"
  BY DEF NotAsked
<1> QED BY <1>1, <1>2

\* An ingest joins the queue behind the requests.
LEMMA IngestKeeps == ASSUME IInv, NEW a \in Arrivals, Ingest(a) PROVE IInv'
<1> DEFINE o == [op |-> "ingest", arrival |-> a]
           L == Len(queue)
<1>1. queue \in Seq(Ops) /\ L \in Nat /\ DOMAIN queue = 1..L
  BY DEF IInv, TypesFit
<1>2. o \in Ops /\ o.op = "ingest"
  BY DEF Ops
<1>3. queue' = queue \o <<o>>
  BY DEF Ingest, Enqueue
<1> HIDE DEF o, L
<1>4. /\ queue' \in Seq(Ops) /\ DOMAIN queue' = 1..(L + 1)
      /\ \A i \in 1..L : queue'[i] = queue[i]
      /\ queue'[L + 1] = o
  BY <1>1, <1>2, <1>3 DEF L
<1>5. Fetches' = Fetches
  <2>1. "ingest" # "fetch"
    OBVIOUS
  <2>2. \A i \in DOMAIN queue' : queue'[i].op = "fetch" => i \in Fetches
    BY <1>1, <1>2, <1>4, <2>1 DEF Fetches
  <2>3. \A i \in Fetches : i \in DOMAIN queue' /\ queue'[i].op = "fetch"
    BY <1>1, <1>4 DEF Fetches
  <2> QED BY <2>2, <2>3 DEF Fetches
<1>6. \A i \in Fetches : queue'[i] = queue[i]
  BY <1>1, <1>4 DEF Fetches
<1>7. UNCHANGED <<samples, asked, fetched, answer, asOf>>
  BY DEF Ingest
<1>8. TypesFit'
  BY <1>4, <1>7 DEF IInv, TypesFit, Sampled
<1>9. Together' /\ AtTheHead' /\ ReadFromOne' /\ Awaited'
  BY <1>5, <1>6, <1>7 DEF IInv, Together, AtTheHead, ReadFromOne, Awaited
<1> QED BY <1>8, <1>9 DEF IInv

\* What is left in the queue when its head is served.
LEMMA TailOfQueue ==
    ASSUME queue \in Seq(Ops), queue # <<>>, queue' = Tail(queue)
    PROVE  /\ queue' \in Seq(Ops)
           /\ Fetches' \subseteq Nat /\ Fetches \subseteq Nat
           /\ \A i \in Fetches' : i + 1 \in Fetches /\ i # 0 /\ queue'[i] = queue[i + 1]
           /\ \A i \in Fetches : i # 1 => i - 1 \in Fetches'
<1> DEFINE L == Len(queue)
<1>1. L \in Nat /\ L # 0 /\ DOMAIN queue = 1..L
  OBVIOUS
<1>2. /\ queue' \in Seq(Ops) /\ DOMAIN queue' = 1..(L - 1)
      /\ \A i \in 1..(L - 1) : queue'[i] = queue[i + 1]
  OBVIOUS
<1> HIDE DEF L
<1>3. Fetches' \subseteq Nat /\ Fetches \subseteq Nat
  BY <1>1, <1>2 DEF Fetches
<1>4. \A i \in Fetches' : i + 1 \in Fetches /\ i # 0 /\ queue'[i] = queue[i + 1]
  BY <1>1, <1>2 DEF Fetches
<1>5. \A i \in Fetches : i # 1 => i - 1 \in Fetches'
  <2>1. SUFFICES ASSUME NEW i \in Fetches, i # 1 PROVE i - 1 \in Fetches'
    OBVIOUS
  <2>2. i \in 1..L /\ queue[i].op = "fetch"
    BY <1>1 DEF Fetches
  <2>3. i - 1 \in 1..(L - 1) /\ (i - 1) + 1 = i
    BY <1>1, <2>1, <2>2
  <2>4. queue'[i - 1] = queue[i]
    BY <1>2, <2>3
  <2> QED BY <1>2, <2>2, <2>3, <2>4 DEF Fetches
<1> QED BY <1>2, <1>3, <1>4, <1>5

\* The requests that are left are together and distinct still.
LEMMA TailKeeps ==
    ASSUME IInv, queue # <<>>, queue' = Tail(queue)
    PROVE  /\ Together'
           /\ \A i, j \in Fetches' : queue'[i].request = queue'[j].request => i = j
<1>1. /\ Fetches' \subseteq Nat /\ Fetches \subseteq Nat
      /\ \A i \in Fetches' : i + 1 \in Fetches /\ i # 0 /\ queue'[i] = queue[i + 1]
      /\ \A i \in Fetches : i # 1 => i - 1 \in Fetches'
  BY TailOfQueue DEF IInv, TypesFit
<1>2. ASSUME NEW i \in Fetches', NEW k \in Fetches', NEW j \in i..k PROVE j \in Fetches'
  <2>1. i \in Nat /\ k \in Nat /\ i # 0 /\ j \in Nat /\ j # 0
    BY <1>1
  <2>2. j + 1 \in (i + 1)..(k + 1)
    BY <2>1
  <2>3. j + 1 \in Fetches
    BY <1>1, <2>2 DEF IInv, Together
  <2>4. j + 1 # 1 /\ (j + 1) - 1 = j
    BY <2>1
  <2> QED BY <1>1, <2>3, <2>4
<1>3. ASSUME NEW i \in Fetches', NEW j \in Fetches', queue'[i].request = queue'[j].request
      PROVE  i = j
  <2>1. i + 1 = j + 1
    BY <1>1, <1>3 DEF IInv, Awaited
  <2> QED BY <1>1, <2>1
<1> QED BY <1>2, <1>3 DEF Together

\* The moments of a series stay finitely many when a sample is put.
LEMMA PutSample ==
    ASSUME NEW store, Sampled(store), NEW s \in DOMAIN Series, NEW t \in SampleTimes, NEW v
    PROVE  Sampled([store EXCEPT ![s] = Put(@, t, v)])
<1> DEFINE put == Put(store[s], t, v)
           next == [store EXCEPT ![s] = put]
<1>1. DOMAIN put = DOMAIN store[s] \cup {t}
  BY DEF Put
<1>2. DOMAIN store[s] \subseteq Nat /\ IsFiniteSet(DOMAIN store[s])
  BY DEF Sampled
<1>3. DOMAIN put \subseteq Nat /\ IsFiniteSet(DOMAIN put)
  <2>1. IsFiniteSet(DOMAIN put)
    BY <1>1, <1>2, FS_AddElement
  <2> QED BY <1>1, <1>2, <2>1 DEF SampleTimes
<1>0. \A u \in DOMAIN put : IsWhole(u)
  BY <1>1 DEF Sampled, SampleTimes
<1> HIDE DEF put
<1>4. DOMAIN store = DOMAIN Series
  BY DEF Sampled
<1>5. /\ next = [r \in DOMAIN Series |-> next[r]]
      /\ next[s] = put
      /\ \A r \in DOMAIN Series : r # s => next[r] = store[r]
  BY <1>4
<1> HIDE DEF next
<1>6. ASSUME NEW r \in DOMAIN Series
      PROVE  /\ DOMAIN next[r] \subseteq Nat /\ IsFiniteSet(DOMAIN next[r])
             /\ \A u \in DOMAIN next[r] : IsWhole(u)
  <2>1. CASE r = s
    BY <1>0, <1>3, <1>5, <2>1
  <2>2. CASE r # s
    <3>1. next[r] = store[r]
      BY <1>5, <2>2
    <3> QED BY <3>1 DEF Sampled
  <2> QED BY <2>1, <2>2
<1>7. Sampled(next)
  BY <1>5, <1>6 DEF Sampled
<1> QED BY <1>7 DEF next, put

\* A write is served only while no request has been answered, or none is left.
LEMMA ServeIngestKeeps == ASSUME IInv, ServeIngest PROVE IInv'
<1>1. /\ queue # <<>> /\ queue' = Tail(queue) /\ Head(queue).op = "ingest"
      /\ UNCHANGED <<asked, fetched, answer, asOf>>
  BY DEF ServeIngest
<1>2. queue \in Seq(Ops) /\ Head(queue) \in Ops /\ Head(queue) = queue[1]
  BY <1>1 DEF IInv, TypesFit
<1>3. /\ queue' \in Seq(Ops) /\ Fetches' \subseteq Nat
      /\ \A i \in Fetches' : i + 1 \in Fetches /\ i # 0 /\ queue'[i] = queue[i + 1]
  BY <1>1, <1>2, TailOfQueue
<1>4. 1 \notin Fetches
  BY <1>1, <1>2 DEF Fetches
<1>5. Sampled(samples')
  <2> DEFINE a == Head(queue).arrival
  <2>1. a \in Arrivals
    BY <1>1, <1>2, OpFields
  <2>2. samples' = [samples EXCEPT ![a.series] = Put(@, a.t, a.v)]
    BY DEF ServeIngest
  <2>3. a.series \in DOMAIN Series /\ a.t \in SampleTimes
    BY <2>1, StoredSamples
  <2> HIDE DEF a
  <2>4. Sampled([samples EXCEPT ![a.series] = Put(@, a.t, a.v)])
    BY <2>3, PutSample DEF IInv, TypesFit
  <2> QED BY <2>2, <2>4
<1>6. TypesFit'
  BY <1>1, <1>3, <1>5 DEF IInv, TypesFit, Sampled
<1>7. DOMAIN fetched = {} \/ Fetches = {}
  BY <1>4 DEF IInv, AtTheHead
<1>8. AtTheHead'
  BY <1>1, <1>3, <1>7 DEF AtTheHead
<1>9. ReadFromOne'
  BY <1>1 DEF IInv, ReadFromOne
<1>10. Together' /\ \A i, j \in Fetches' : queue'[i].request = queue'[j].request => i = j
  BY <1>1, TailKeeps
<1>11. Awaited'
  <2>1. Fetches' # {} => asked' \in Answered /\ answer' = NoAnswer
    BY <1>1, <1>3 DEF IInv, Awaited
  <2>2. \A i \in Fetches' : queue'[i].request \in Members(Requests(asked)) \ DOMAIN fetched
    BY <1>3 DEF IInv, Awaited
  <2>3. asked' = NotAsked => DOMAIN fetched' = {}
    BY <1>1 DEF IInv, Awaited
  <2> QED BY <1>1, <1>10, <2>1, <2>2, <2>3 DEF Awaited
<1> QED BY <1>6, <1>8, <1>9, <1>10, <1>11 DEF IInv

\* A request is answered from the state the first one was answered from.
LEMMA ServeFetchKeeps == ASSUME IInv, ServeFetch PROVE IInv'
<1> DEFINE r == Head(queue).request
<1>1. /\ queue # <<>> /\ queue' = Tail(queue) /\ Head(queue).op = "fetch"
      /\ fetched' = Put(fetched, r, Fetch(samples, r))
      /\ asOf' = IF DOMAIN fetched = {} THEN samples ELSE asOf
      /\ UNCHANGED <<samples, asked, answer>>
  BY DEF ServeFetch
<1>2. queue \in Seq(Ops) /\ Head(queue) = queue[1] /\ 1 \in DOMAIN queue
  BY <1>1 DEF IInv, TypesFit
<1>3. 1 \in Fetches /\ r = queue[1].request
  BY <1>1, <1>2 DEF Fetches
<1> HIDE DEF r
<1>4. asOf' = samples /\ (DOMAIN fetched # {} => asOf = samples)
  BY <1>1, <1>3 DEF IInv, AtTheHead
<1>5. /\ DOMAIN fetched' = DOMAIN fetched \cup {r}
      /\ fetched'[r] = Fetch(samples, r)
      /\ \A q \in DOMAIN fetched : q # r => fetched'[q] = fetched[q]
  BY <1>1 DEF Put
<1>6. /\ queue' \in Seq(Ops) /\ Fetches' \subseteq Nat
      /\ \A i \in Fetches' : i + 1 \in Fetches /\ i # 0 /\ queue'[i] = queue[i + 1]
      /\ \A i \in Fetches : i # 1 => i - 1 \in Fetches'
  BY <1>1, <1>2, TailOfQueue
<1>7. TypesFit'
  BY <1>1, <1>4, <1>6 DEF IInv, TypesFit, Sampled
<1>8. ReadFromOne'
  <2>1. SUFFICES ASSUME NEW q \in DOMAIN fetched' PROVE fetched'[q] = Fetch(samples, q)
    BY <1>4 DEF ReadFromOne
  <2>2. CASE q = r
    BY <1>5, <2>2
  <2>3. CASE q # r
    <3>1. q \in DOMAIN fetched /\ fetched'[q] = fetched[q]
      BY <1>5, <2>3
    <3>2. fetched[q] = Fetch(asOf, q) /\ asOf = samples
      BY <1>4, <3>1 DEF IInv, ReadFromOne
    <3> QED BY <3>1, <3>2
  <2> QED BY <2>2, <2>3
<1>9. AtTheHead'
  <2>1. ASSUME Fetches' # {} PROVE 1 \in Fetches'
    <3>1. PICK i \in Fetches' : TRUE
      BY <2>1
    <3>2. i \in Nat /\ i # 0 /\ i + 1 \in Fetches
      BY <1>6
    <3>3. 2 \in 1..(i + 1)
      BY <3>2
    <3>4. 2 \in Fetches
      BY <1>3, <3>2, <3>3 DEF IInv, Together
    <3> QED BY <1>6, <3>4
  <2> QED BY <1>1, <1>4, <2>1 DEF AtTheHead
<1>10. Together' /\ \A i, j \in Fetches' : queue'[i].request = queue'[j].request => i = j
  BY <1>1, TailKeeps
<1>11. Awaited'
  <2>1. asked \in Answered /\ answer = NoAnswer
    BY <1>3 DEF IInv, Awaited
  <2>2. ASSUME NEW i \in Fetches'
        PROVE  queue'[i].request \in Members(Requests(asked)) \ DOMAIN fetched'
    <3>1. i + 1 \in Fetches /\ i + 1 # 1 /\ queue'[i] = queue[i + 1]
      BY <1>6
    <3>2. queue[i + 1].request \in Members(Requests(asked)) \ DOMAIN fetched
      BY <3>1 DEF IInv, Awaited
    <3>3. queue[i + 1].request # r
      BY <1>3, <3>1 DEF IInv, Awaited
    <3> QED BY <1>5, <3>1, <3>2, <3>3
  <2>3. asked # NotAsked
    BY <2>1, AskedIsAsked DEF Answered
  <2> QED BY <1>1, <1>10, <2>1, <2>2, <2>3 DEF Awaited
<1> QED BY <1>7, <1>8, <1>9, <1>10, <1>11 DEF IInv

\* What is queued behind a queue.
LEMMA Appended ==
    ASSUME NEW S, NEW s \in Seq(S), NEW t \in Seq(S)
    PROVE  /\ s \o t \in Seq(S) /\ DOMAIN (s \o t) = 1..(Len(s) + Len(t))
           /\ \A i \in 1..Len(s) : (s \o t)[i] = s[i]
           /\ \A i \in 1..(Len(s) + Len(t)) : i > Len(s) => (s \o t)[i] = t[i - Len(s)]
<1>1. s \o t \in Seq(S) /\ Len(s \o t) = Len(s) + Len(t) /\ Len(s) \in Nat /\ Len(t) \in Nat
  OBVIOUS
<1>2. DOMAIN (s \o t) = 1..(Len(s) + Len(t))
  BY <1>1
<1>3. \A i \in 1..Len(s) : (s \o t)[i] = s[i]
  OBVIOUS
<1>4. \A i \in 1..(Len(s) + Len(t)) : i > Len(s) => (s \o t)[i] = t[i - Len(s)]
  OBVIOUS
<1> QED BY <1>1, <1>2, <1>3, <1>4

\* The requests of a question come after all that is queued, in one turn.
LEMMA AskKeeps == ASSUME IInv, NEW q \in Questions, Ask(q) PROVE IInv'
<1>1. /\ asked = NotAsked /\ asked' = q /\ DOMAIN fetched' = {}
      /\ UNCHANGED <<samples, asOf>>
  BY DEF Ask
<1>2. Fetches = {} /\ queue \in Seq(Ops)
  BY <1>1, AskedIsAsked DEF IInv, TypesFit, Awaited, Answered
<1>3. ReadFromOne' /\ AtTheHead'
  BY <1>1 DEF ReadFromOne, AtTheHead
<1>4. asked' # NotAsked
  BY <1>1, AskedIsAsked
<1>5. CASE Refused(q)
  <2>1. queue' = queue
    BY <1>5 DEF Ask
  <2>2. Fetches' = {}
    BY <1>2, <2>1 DEF Fetches
  <2>3. TypesFit'
    BY <1>1, <2>1 DEF IInv, TypesFit, Sampled
  <2> QED BY <1>3, <1>4, <2>2, <2>3 DEF IInv, Together, Awaited
<1>6. CASE ~Refused(q)
  <2> DEFINE requests == Requests(q)
             added == [i \in DOMAIN requests |-> [op |-> "fetch", request |-> requests[i]]]
             L == Len(queue)
             n == Len(requests)
  <2>1. q \in Answered
    BY <1>6 DEF Answered
  <2>2. /\ requests \in Seq(AllRequests)
        /\ \A i, j \in DOMAIN requests : requests[i] = requests[j] => i = j
    BY <2>1, RequestsAre
  <2>3. queue' = queue \o added /\ answer' = NoAnswer
    BY <1>6 DEF Ask, Enqueue
  <2> HIDE DEF requests
  <2>4. n \in Nat /\ DOMAIN requests = 1..n /\ \A i \in 1..n : requests[i] \in AllRequests
    BY <2>2
  <2>5. /\ DOMAIN added = 1..n
        /\ \A i \in 1..n : added[i] \in Ops /\ added[i].op = "fetch" /\ added[i].request = requests[i]
    BY <2>4 DEF Ops
  <2>6. added \in Seq(Ops) /\ Len(added) = n
    BY <2>4, <2>5
  <2>7. L \in Nat /\ DOMAIN queue = 1..L
    BY <1>2
  <2> HIDE DEF added, n, L
  <2>8. /\ queue' \in Seq(Ops) /\ DOMAIN queue' = 1..(L + n)
        /\ \A i \in 1..L : queue'[i] = queue[i]
        /\ \A i \in 1..(L + n) : i > L => queue'[i] = added[i - L]
    BY <1>2, <2>3, <2>6, Appended DEF L
  <2>9. ASSUME NEW i \in Fetches'
        PROVE  i \in Nat /\ i > L /\ i - L \in 1..n /\ queue'[i].request = requests[i - L]
    <3>1. i \in 1..(L + n) /\ queue'[i].op = "fetch"
      BY <2>8 DEF Fetches
    <3>2. i > L
      <4>1. ASSUME i <= L PROVE FALSE
        <5>1. i \in 1..L
          BY <2>7, <3>1, <4>1
        <5>2. i \in Fetches
          BY <2>7, <2>8, <3>1, <5>1 DEF Fetches
        <5> QED BY <1>2, <5>2
      <4> QED BY <2>7, <3>1, <4>1
    <3>3. i - L \in 1..n
      BY <2>4, <2>7, <3>1, <3>2
    <3>4. queue'[i] = added[i - L]
      BY <2>8, <3>1, <3>2
    <3> QED BY <2>5, <3>1, <3>2, <3>3, <3>4
  <2>10. ASSUME NEW i \in 1..(L + n), i > L PROVE i \in Fetches'
    <3>1. i - L \in 1..n
      BY <2>4, <2>7, <2>10
    <3>2. queue'[i] = added[i - L] /\ added[i - L].op = "fetch"
      BY <2>5, <2>8, <2>10, <3>1
    <3> QED BY <2>8, <3>2 DEF Fetches
  <2>11. Together'
    <3>1. SUFFICES ASSUME NEW i \in Fetches', NEW k \in Fetches', NEW j \in i..k PROVE j \in Fetches'
      BY DEF Together
    <3>2. i \in Nat /\ i > L /\ k \in Nat /\ k - L \in 1..n
      BY <2>9
    <3>3. j \in 1..(L + n) /\ j > L
      BY <2>4, <2>7, <3>2
    <3> QED BY <2>10, <3>3
  <2>12. ASSUME NEW i \in Fetches', NEW j \in Fetches', queue'[i].request = queue'[j].request
         PROVE  i = j
    <3>1. /\ i \in Nat /\ i - L \in 1..n /\ queue'[i].request = requests[i - L]
          /\ j \in Nat /\ j - L \in 1..n /\ queue'[j].request = requests[j - L]
      BY <2>9
    <3>2. i - L = j - L
      BY <2>2, <2>4, <2>12, <3>1
    <3> QED BY <2>7, <3>1, <3>2
  <2>13. \A i \in Fetches' : queue'[i].request \in Members(Requests(asked')) \ DOMAIN fetched'
    BY <1>1, <2>4, <2>9 DEF Members, requests
  <2>14. Awaited'
    BY <1>1, <1>4, <2>1, <2>3, <2>12, <2>13 DEF Awaited
  <2>15. TypesFit'
    BY <1>1, <2>8 DEF IInv, TypesFit, Sampled
  <2> QED BY <1>3, <2>11, <2>14, <2>15 DEF IInv
<1> QED BY <1>5, <1>6

\* When all requests are answered none is queued.
LEMMA AllAnswered == ASSUME IInv, HasFetched PROVE Fetches = {}
  BY DEF IInv, Awaited, HasFetched

\* An answer is made of what was fetched,
LEMMA EvaluateKeeps == ASSUME IInv, Evaluate PROVE IInv'
<1>1. Fetches = {} /\ UNCHANGED <<samples, queue, asked, fetched, asOf>>
  BY AllAnswered DEF Evaluate
<1>2. Fetches' = {}
  BY <1>1 DEF Fetches
<1> QED BY <1>1, <1>2
     DEF IInv, TypesFit, Sampled, Together, AtTheHead, ReadFromOne, Awaited

\* and when it is given the data are forgotten.
LEMMA DeliverKeeps == ASSUME IInv, Deliver PROVE IInv'
<1>1. /\ answer # NoAnswer /\ asked' = NotAsked /\ DOMAIN fetched' = {} /\ asOf' = Recorded
      /\ UNCHANGED <<samples, queue>>
  BY DEF Deliver
<1>2. Fetches = {}
  BY <1>1 DEF IInv, Awaited
<1>3. Fetches' = {}
  BY <1>1, <1>2 DEF Fetches
<1>4. Sampled(Recorded)
  BY StoredSamples DEF Sampled, SampleTimes
<1>5. TypesFit'
  BY <1>1, <1>4 DEF IInv, TypesFit, Sampled
<1> QED BY <1>1, <1>3, <1>5 DEF IInv, Together, AtTheHead, ReadFromOne, Awaited

LEMMA StepIInv == IInv /\ [Next]_vars => IInv'
<1> SUFFICES ASSUME IInv, [Next]_vars PROVE IInv'
  OBVIOUS
<1>1. CASE \E a \in Arrivals : Ingest(a)
  BY <1>1, IngestKeeps
<1>2. CASE \E q \in Questions : Ask(q)
  BY <1>2, AskKeeps
<1>3. CASE ServeIngest
  BY <1>3, ServeIngestKeeps
<1>4. CASE ServeFetch
  BY <1>4, ServeFetchKeeps
<1>5. CASE Evaluate
  BY <1>5, EvaluateKeeps
<1>6. CASE Deliver
  BY <1>6, DeliverKeeps
<1>7. CASE UNCHANGED vars
  <2>1. UNCHANGED <<samples, queue, asked, fetched, answer, asOf>>
    BY <1>7 DEF vars
  <2>2. Fetches' = Fetches
    BY <2>1 DEF Fetches
  <2> QED BY <2>1, <2>2 DEF IInv, TypesFit, Sampled, Together, AtTheHead, ReadFromOne, Awaited
<1> QED BY <1>1, <1>2, <1>3, <1>4, <1>5, <1>6, <1>7 DEF Next

\* The invariant of the state machine.
THEOREM PrefetchInvariant == Spec => []IInv
  BY InitIInv, StepIInv, PTL DEF Spec

\* However the writes of others fall between the requests of a question, all
\* its selectors read one state of the store.
THEOREM OneMomentAlways == Spec => []OneMoment
<1>1. IInv => OneMoment
  BY DEF IInv, ReadFromOne, OneMoment
<1> QED BY <1>1, PrefetchInvariant, PTL

-----------------------------------------------------------------------------
(* The pointers of the evaluator.                                          *)

\* The recursive function inside Pointers.
PointerStep(points, bounds, g, n) ==
    IF n = 0 THEN 0 ELSE Advance(points, g[n - 1], bounds[n])
PointerFcn(points, bounds) ==
    CHOOSE g : g = [n \in 0..Len(bounds) |-> PointerStep(points, bounds, g, n)]

\* Pointers is that function, on the indexes of the bounds.
LEMMA PointersDef ==
    \A points, bounds :
        Pointers(points, bounds) = [n \in DOMAIN bounds |-> PointerFcn(points, bounds)[n]]
  BY Zenon DEF Pointers, PointerFcn, PointerStep

\* Where the points are in order and the bounds rise, the pointer stands after
\* every bound at the number of points up to it.
LEMMA PointersAre ==
    ASSUME NEW points, Len(points) \in Nat,
           NEW bounds, Len(bounds) \in Nat, DOMAIN bounds = 1..Len(bounds),
           NEW count,
           \A n \in 1..Len(bounds) : count[n] \in 0..Len(points),
           \A n \in 1..Len(bounds) : \A i \in 1..Len(points) :
               points[i].t <= bounds[n] <=> i <= count[n],
           \A n \in 1..Len(bounds) : n - 1 \in 1..Len(bounds) => count[n - 1] <= count[n]
    PROVE  \A n \in 1..Len(bounds) : Pointers(points, bounds)[n] = count[n]
<1> DEFINE M == Len(bounds)
           L == Len(points)
           g == [n \in 0..M |-> IF n = 0 THEN 0 ELSE count[n]]
           p == PointerFcn(points, bounds)
<1>1. M \in Nat /\ L \in Nat /\ DOMAIN bounds = 1..M
  OBVIOUS
<1>2. \A n \in 1..M : count[n] \in 0..L /\ (n - 1 \in 1..M => count[n - 1] <= count[n])
  OBVIOUS
<1>3. \A n \in 1..M : \A i \in 1..L : points[i].t <= bounds[n] <=> i <= count[n]
  OBVIOUS
<1>4. \A n, f : PointerStep(points, bounds, f, n) =
                IF n = 0 THEN 0
                ELSE f[n - 1] + Cardinality({i \in f[n - 1] + 1..L : points[i].t <= bounds[n]})
  BY DEF PointerStep, Advance
<1>5. p = CHOOSE h : h = [n \in 0..M |-> PointerStep(points, bounds, h, n)]
  BY DEF PointerFcn
<1>6. \A n \in 1..M : Pointers(points, bounds)[n] = p[n]
  BY <1>1, PointersDef
<1> HIDE DEF M, L, p
<1>7. \A n \in 0..M : g[n] \in 0..L
  BY <1>1, <1>2
<1>8. ASSUME NEW n \in 0..M PROVE PointerStep(points, bounds, g, n) = g[n]
  <2>1. CASE n = 0
    BY <1>4, <2>1
  <2>2. CASE n # 0
    <3>1. n \in 1..M /\ n - 1 \in 0..M /\ n \in Nat
      BY <1>1, <2>2
    <3>2. g[n] = count[n] /\ g[n] \in 0..L /\ g[n - 1] \in 0..L
      BY <1>7, <2>2, <3>1
    <3>3. g[n - 1] <= g[n]
      <4>1. CASE n - 1 = 0
        <5>1. g[n - 1] = 0
          BY <3>1, <4>1
        <5> QED BY <1>1, <3>2, <5>1
      <4>2. CASE n - 1 # 0
        <5>1. n - 1 \in 1..M
          BY <3>1, <4>2
        <5>2. g[n - 1] = count[n - 1]
          BY <3>1, <4>2
        <5> QED BY <1>2, <3>1, <3>2, <5>1, <5>2
      <4> QED BY <4>1, <4>2
    <3> HIDE DEF g
    <3>4. {i \in g[n - 1] + 1..L : points[i].t <= bounds[n]} = g[n - 1] + 1..g[n]
      <4>1. \A i \in g[n - 1] + 1..L : i \in 1..L
        BY <1>1, <3>2
      <4>2. \A i \in g[n - 1] + 1..L : points[i].t <= bounds[n] <=> i <= g[n]
        BY <1>3, <3>1, <3>2, <4>1
      <4>3. \A i \in g[n - 1] + 1..g[n] : i \in g[n - 1] + 1..L /\ i <= g[n]
        BY <1>1, <3>2
      <4>4. \A i \in g[n - 1] + 1..L : i <= g[n] => i \in g[n - 1] + 1..g[n]
        BY <1>1, <3>2
      <4> QED BY <4>2, <4>3, <4>4
    <3>5. Cardinality(g[n - 1] + 1..g[n]) = g[n] - g[n - 1]
      <4>1. g[n - 1] \in Int /\ g[n] \in Int /\ g[n - 1] + 1 \in Int
        BY <1>1, <3>2
      <4>2. Cardinality(g[n - 1] + 1..g[n]) =
                IF g[n - 1] + 1 > g[n] THEN 0 ELSE g[n] - (g[n - 1] + 1) + 1
        BY <4>1, FS_Interval
      <4> QED BY <3>3, <4>1, <4>2
    <3>6. PointerStep(points, bounds, g, n) = g[n - 1] + (g[n] - g[n - 1])
      BY <1>4, <2>2, <3>4, <3>5
    <3> QED BY <1>1, <3>2, <3>6
  <2> QED BY <2>1, <2>2
<1>9. g = [n \in 0..M |-> PointerStep(points, bounds, g, n)]
  <2> DEFINE h == [n \in 0..M |-> PointerStep(points, bounds, g, n)]
  <2>1. \A n \in 0..M : h[n] = g[n]
    BY <1>8
  <2>2. DOMAIN g = 0..M
    OBVIOUS
  <2>3. g = [n \in 0..M |-> g[n]]
    OBVIOUS
  <2> HIDE DEF g
  <2> QED BY <2>1, <2>3
<1>10. p = [n \in 0..M |-> PointerStep(points, bounds, p, n)]
  <2>1. \E h : h = [n \in 0..M |-> PointerStep(points, bounds, h, n)]
    <3> HIDE DEF g
    <3> QED BY <1>9, Zenon
  <2> QED BY <1>5, <2>1, Zenon
<1> DEFINE T == {n \in Nat : n <= M => p[n] = g[n]}
<1>11. 0 \in T
  <2>1. 0 \in 0..M /\ g[0] = 0
    BY <1>1
  <2>2. p[0] = PointerStep(points, bounds, p, 0)
    BY <1>10, <2>1
  <2>3. p[0] = 0
    BY <1>4, <2>2
  <2> HIDE DEF g
  <2> QED BY <2>1, <2>3
<1>12. ASSUME NEW n \in T PROVE n + 1 \in T
  <2> HIDE DEF g
  <2>1. CASE n + 1 <= M
    <3>1. n \in 0..M /\ n + 1 \in 0..M /\ p[n] = g[n] /\ (n + 1) - 1 = n /\ n + 1 # 0
      BY <1>1, <2>1
    <3>2. p[n + 1] = PointerStep(points, bounds, p, n + 1)
      BY <1>10, <3>1
    <3>3. PointerStep(points, bounds, p, n + 1) = PointerStep(points, bounds, g, n + 1)
      BY <1>4, <3>1
    <3>4. p[n + 1] = g[n + 1]
      BY <1>8, <3>1, <3>2, <3>3
    <3> QED BY <3>4
  <2>2. CASE ~ n + 1 <= M
    BY <2>2
  <2> QED BY <2>1, <2>2
<1>13. T = Nat
  <2>1. T \in SUBSET Nat
    OBVIOUS
  <2> HIDE DEF T
  <2> QED BY <1>11, <1>12, <2>1, NaturalInduction, Zenon
<1>14. ASSUME NEW n \in 1..M PROVE p[n] = count[n]
  <2>1. n \in Nat /\ n <= M /\ n # 0 /\ n \in 0..M
    BY <1>1
  <2>2. p[n] = g[n]
    <3> HIDE DEF g
    <3> QED BY <1>13, <2>1
  <2> QED BY <2>1, <2>2
<1> QED BY <1>6, <1>14 DEF M

\* The points of a series, one per time.
LEMMA PointsAre ==
    ASSUME NEW store, Sampled(store), NEW s \in DOMAIN Series, NEW K, K \subseteq DOMAIN store[s]
    PROVE  /\ K \in SUBSET Nat /\ IsFiniteSet(K) /\ Cardinality(K) \in Nat
           /\ DOMAIN PointsOf(store, s, K) = 1..Cardinality(K)
           /\ Len(PointsOf(store, s, K)) = Cardinality(K)
           /\ \A i \in 1..Cardinality(K) :
                 PointsOf(store, s, K)[i] = [t |-> Nth(K, i), v |-> store[s][Nth(K, i)]]
<1> DEFINE P == PointsOf(store, s, K)
           N == Cardinality(K)
           E == {[t |-> k, v |-> store[s][k]] : k \in K}
<1>1. K \in SUBSET Nat /\ IsFiniteSet(K)
  <2>1. DOMAIN store[s] \subseteq Nat /\ IsFiniteSet(DOMAIN store[s])
    BY DEF Sampled
  <2> QED BY <2>1, FS_Subset
<1>2. /\ N \in Nat /\ DOMAIN InOrder(K) = 1..N
      /\ \A i \in 1..N : InOrder(K)[i] = Nth(K, i) /\ Nth(K, i) \in K
  BY <1>1, InOrderIs
<1>3. P = [i \in DOMAIN InOrder(K) |-> [t |-> InOrder(K)[i], v |-> store[s][InOrder(K)[i]]]]
  BY DEF PointsOf
<1> HIDE DEF N
<1>4. /\ DOMAIN P = 1..N
      /\ \A i \in 1..N : P[i] = [t |-> Nth(K, i), v |-> store[s][Nth(K, i)]]
  BY <1>2, <1>3
<1>5. \A i \in 1..N : P[i] \in E
  BY <1>2, <1>4
<1>6. P = [i \in 1..N |-> P[i]]
  BY <1>2, <1>3
<1> HIDE DEF P, E
<1>7. P \in Seq(E) /\ Len(P) = N
  BY <1>2, <1>4, <1>5, <1>6
<1> QED BY <1>1, <1>2, <1>4, <1>7 DEF P, N

\* The pointers into them count the times up to each bound.
LEMMA PointersCount ==
    ASSUME NEW store, Sampled(store), NEW s \in DOMAIN Series, NEW K, K \subseteq DOMAIN store[s],
           NEW bounds, IsSequence(bounds),
           \A n \in DOMAIN bounds : bounds[n] \in Int,
           \A n \in DOMAIN bounds : n - 1 \in DOMAIN bounds => bounds[n - 1] <= bounds[n]
    PROVE  \A n \in DOMAIN bounds :
               Pointers(PointsOf(store, s, K), bounds)[n] = CountTo(K, bounds[n])
<1> DEFINE P == PointsOf(store, s, K)
           N == Cardinality(K)
           M == Len(bounds)
           count == [n \in 1..M |-> CountTo(K, bounds[n])]
<1>1. /\ K \in SUBSET Nat /\ IsFiniteSet(K) /\ N \in Nat /\ Len(P) = N
      /\ \A i \in 1..N : P[i].t = Nth(K, i)
  <2>1. K \in SUBSET Nat /\ IsFiniteSet(K) /\ N \in Nat /\ Len(P) = N
    BY PointsAre
  <2>2. \A i \in 1..N : P[i] = [t |-> Nth(K, i), v |-> store[s][Nth(K, i)]]
    BY PointsAre
  <2> HIDE DEF P, N
  <2> QED BY <2>1, <2>2
<1>2. M \in Nat /\ DOMAIN bounds = 1..M
  BY DEF IsSequence
<1> HIDE DEF P, N
<1>3. ASSUME NEW n \in 1..M
      PROVE  /\ count[n] = CountTo(K, bounds[n])
             /\ count[n] \in 0..N
             /\ \A i \in 1..N : P[i].t <= bounds[n] <=> i <= count[n]
  <2>1. bounds[n] \in Int
    BY <1>2
  <2>2. /\ CountTo(K, bounds[n]) \in 0..N
        /\ \A i \in 1..N : Nth(K, i) <= bounds[n] <=> i <= CountTo(K, bounds[n])
    BY <1>1, <2>1, UpToABound DEF N
  <2> QED BY <1>1, <2>2
<1>4. ASSUME NEW n \in 1..M, n - 1 \in 1..M PROVE count[n - 1] <= count[n]
  <2>1. bounds[n] \in Int /\ bounds[n - 1] \in Int /\ bounds[n - 1] <= bounds[n]
    BY <1>2, <1>4
  <2>2. CountTo(K, bounds[n - 1]) <= CountTo(K, bounds[n])
    BY <1>1, <2>1, CountBetween
  <2> QED BY <1>3, <1>4, <2>2
<1> HIDE DEF count
<1>5. /\ \A n \in 1..M : count[n] \in 0..Len(P)
      /\ \A n \in 1..M : \A i \in 1..Len(P) : P[i].t <= bounds[n] <=> i <= count[n]
      /\ \A n \in 1..M : n - 1 \in 1..M => count[n - 1] <= count[n]
      /\ Len(P) \in Nat
  BY <1>1, <1>3, <1>4
<1>6. \A n \in 1..M : Pointers(P, bounds)[n] = count[n]
  BY <1>2, <1>5, PointersAre
<1> QED BY <1>2, <1>3, <1>6 DEF P

-----------------------------------------------------------------------------
(* The steps of a question.                                                *)

GridStep(times) == IF Len(times) > 1 THEN times[2] - times[1] ELSE Millisecond

\* At the same distance from each other, one at least.
Grid(times) ==
    /\ IsSequence(times) /\ Len(times) # 0
    /\ GridStep(times) \in Nat \ {0}
    /\ \A n \in DOMAIN times : times[n] \in Int /\ times[n] = times[1] + (n - 1) * GridStep(times)

\* The steps of a question that is answered are.
LEMMA StepsAreAGrid == ASSUME NEW q \in Answered PROVE Grid(TimesOf(q))
<1> DEFINE times == TimesOf(q)
<1> SUFFICES Grid(times)
  OBVIOUS
<1>1. q \in Questions /\ ~Refused(q) /\ q.start \in Int /\ q.end \in Int /\ q.step \in Int
  BY AskedQuestions DEF Answered
<1>2. CASE IsInstant(q)
  <2>1. times = <<q.start>>
    BY <1>2 DEF TimesOf
  <2>2. IsSequence(times) /\ Len(times) = 1 /\ times[1] = q.start /\ DOMAIN times = 1..1
    BY <2>1 DEF IsSequence
  <2> HIDE DEF times
  <2>3. GridStep(times) = Millisecond /\ Millisecond \in Nat \ {0}
    BY <2>2, TimesHaveParts DEF GridStep
  <2>5. (1 - 1) * GridStep(times) = 0
    BY <2>3
  <2>4. \A n \in DOMAIN times : n = 1
    BY <2>2
  <2> QED BY <1>1, <2>2, <2>3, <2>4, <2>5 DEF Grid
<1>3. CASE ~IsInstant(q)
  <2> DEFINE d == q.step
             w == q.end - q.start
             N == StepCount(q)
  <2>1. d \in Nat \ {0} /\ w \in Nat
    BY <1>1, <1>3 DEF Refused
  <2>2. N \in Nat \ {0}
    <3>1. N = w \div d + 1
      BY DEF StepCount
    <3> HIDE DEF N, d, w
    <3>2. w \div d \in Nat
      BY <2>1, DivMod
    <3> QED BY <3>1, <3>2
  <2>3. times = [n \in 1..N |-> q.start + (n - 1) * d]
    BY <1>3 DEF TimesOf
  <2> HIDE DEF N, d
  <2>4. DOMAIN times = 1..N /\ \A n \in 1..N : times[n] = q.start + (n - 1) * d /\ times[n] \in Int
    BY <1>1, <2>1, <2>2, <2>3
  <2>5. times \in Seq(Int) /\ Len(times) = N
    BY <2>2, <2>3, <2>4
  <2> HIDE DEF times
  <2>6. IsSequence(times) /\ Len(times) # 0
    BY <2>2, <2>4, <2>5 DEF IsSequence
  <2>7. times[1] = q.start
    <3>1. 1 \in 1..N /\ (1 - 1) * d = 0
      BY <2>1, <2>2
    <3> QED BY <1>1, <2>4, <3>1
  <2>8. CASE N = 1
    <3>1. GridStep(times) = Millisecond /\ Millisecond \in Nat \ {0}
      BY <2>5, <2>8, TimesHaveParts DEF GridStep
    <3>2. \A n \in DOMAIN times : n = 1
      BY <2>4, <2>8
    <3>3. (1 - 1) * GridStep(times) = 0
      BY <3>1
    <3> QED BY <1>1, <2>6, <2>7, <3>1, <3>2, <3>3 DEF Grid
  <2>9. CASE N # 1
    <3>1. 2 \in 1..N /\ N > 1 /\ (2 - 1) * d = d
      BY <2>1, <2>2, <2>9
    <3>2. times[2] = q.start + d
      BY <2>4, <3>1
    <3>3. GridStep(times) = d
      BY <1>1, <2>1, <2>5, <2>7, <3>1, <3>2 DEF GridStep
    <3> QED BY <2>1, <2>4, <2>6, <2>7, <3>3 DEF Grid
  <2> QED BY <2>8, <2>9
<1> QED BY <1>2, <1>3

\* They rise, between the first and the last of them.
LEMMA GridRises ==
    ASSUME NEW times, Grid(times), NEW n \in DOMAIN times
    PROVE  /\ times[n] \in Int /\ times[1] \in Int /\ times[Len(times)] \in Int
           /\ times[1] <= times[n] /\ times[n] <= times[Len(times)]
           /\ n - 1 \in DOMAIN times => times[n - 1] <= times[n]
<1> DEFINE d == GridStep(times)
           N == Len(times)
           a == times[1]
<1>1. N \in Nat \ {0} /\ d \in Nat \ {0} /\ DOMAIN times = 1..N
  BY DEF Grid, IsSequence
<1>2. \A m \in 1..N : times[m] \in Int /\ times[m] = a + (m - 1) * d
  BY <1>1 DEF Grid
<1> HIDE DEF d, N, a
<1>3. a \in Int /\ n \in Nat /\ n # 0 /\ n <= N /\ n \in 1..N /\ N \in 1..N
  BY <1>1, <1>2 DEF a
<1>4. /\ times[n] = a + (n - 1) * d /\ times[N] = a + (N - 1) * d
      /\ times[n] \in Int /\ times[N] \in Int
  BY <1>2, <1>3
<1>5. 0 <= (n - 1) * d /\ (n - 1) * d <= (N - 1) * d /\ (n - 1) * d \in Int /\ (N - 1) * d \in Int
  BY <1>1, <1>3
<1>6. a <= times[n] /\ times[n] <= times[N]
  BY <1>3, <1>4, <1>5
<1>7. ASSUME n - 1 \in 1..N PROVE times[n - 1] <= times[n]
  <2>1. times[n - 1] = a + (n - 1 - 1) * d
    BY <1>2, <1>7
  <2>2. (n - 1 - 1) * d = (n - 1) * d - d
    BY <1>1, <1>3
  <2> QED BY <1>1, <1>3, <1>4, <1>5, <2>1, <2>2
<1> QED BY <1>1, <1>3, <1>4, <1>6, <1>7 DEF a, N

\* The step a sample counts for is the first of the grid at or after it.
LEMMA FirstEvalIs ==
    ASSUME NEW t \in Int, NEW start \in Int, NEW step \in Nat \ {0}
    PROVE  /\ FirstEval(t, start, step) \in Int
           /\ start <= FirstEval(t, start, step) /\ t <= FirstEval(t, start, step)
           /\ \A k \in Nat : t <= start + k * step => FirstEval(t, start, step) <= start + k * step
<1> DEFINE first == FirstEval(t, start, step)
<1> SUFFICES /\ first \in Int /\ start <= first /\ t <= first
             /\ \A k \in Nat : t <= start + k * step => first <= start + k * step
  OBVIOUS
<1>1. CASE t <= start
  <2>1. first = start
    BY <1>1 DEF FirstEval
  <2> HIDE DEF first
  <2>2. \A k \in Nat : k * step \in Nat
    OBVIOUS
  <2> QED BY <1>1, <2>1, <2>2
<1>2. CASE ~ t <= start
  <2> DEFINE a == t - start + step - 1
             b == a \div step
             r == a % step
  <2>1. a \in Nat /\ t = start + a - step + 1
    BY <1>2
  <2>2. first = start + b * step
    BY <1>2 DEF FirstEval
  <2> HIDE DEF a, first
  <2>3. b \in Nat /\ r \in 0..(step - 1) /\ a = step * b + r
    BY <2>1, DivMod
  <2> HIDE DEF b, r
  <2>4. step * b = b * step /\ b * step \in Nat
    BY <2>3
  <2>5. t <= start + b * step
    BY <2>1, <2>3, <2>4
  <2>6. ASSUME NEW k \in Nat, t <= start + k * step PROVE b * step <= k * step
    <3>1. k * step \in Nat
      OBVIOUS
    <3>2. b * step < k * step + step
      BY <2>1, <2>3, <2>4, <2>6, <3>1
    <3>3. ASSUME k + 1 <= b PROVE FALSE
      <4>1. (k + 1) * step <= b * step
        BY <2>3, <3>3
      <4>2. (k + 1) * step = k * step + step
        OBVIOUS
      <4> QED BY <2>4, <3>1, <3>2, <4>1, <4>2
    <3>4. b <= k
      BY <2>3, <3>3
    <3> QED BY <2>3, <3>4
  <2>7. \A k \in Nat : k * step \in Nat
    OBVIOUS
  <2>8. start + b * step \in Int /\ start <= start + b * step
    BY <2>4
  <2>9. ASSUME NEW k \in Nat, t <= start + k * step PROVE start + b * step <= start + k * step
    <3> DEFINE p == b * step
               w == k * step
    <3>1. p \in Nat /\ w \in Nat /\ p <= w
      BY <2>4, <2>6, <2>7, <2>9
    <3> HIDE DEF p, w
    <3>2. start + p <= start + w
      BY <3>1
    <3> QED BY <3>2 DEF p, w
  <2> QED BY <2>2, <2>5, <2>8, <2>9
<1> QED BY <1>1, <1>2

-----------------------------------------------------------------------------
(* Milliseconds.                                                           *)

\* Rounding down gives the whole milliseconds at or before a time, rounding up
\* none before it.
LEMMA RoundingIs ==
    ASSUME NEW time \in Int
    PROVE  /\ Floored(time) \in Int /\ Floored(time) <= time /\ time < Floored(time) + Millisecond
           /\ IsWhole(Floored(time))
           /\ Raised(time) \in Int /\ time <= Raised(time)
<1> DEFINE p == Millisecond
<1>1. p \in Nat \ {0}
  BY TimesHaveParts
<1> HIDE DEF p
<1>2. \A n \in Int : n % p \in 0..p - 1 /\ n = p * (n \div p) + (n % p) /\ n \div p \in Int
  BY <1>1
<1>3. (time - (time % p)) % p = 0
  BY <1>1, <1>2
<1>4. (-time) % p \in 0..p - 1 /\ time % p \in 0..p - 1
  BY <1>2
<1> QED BY <1>1, <1>3, <1>4 DEF Floored, Raised, IsWhole, p

\* Of two whole times less than a millisecond apart one is at or before the other.
LEMMA WholeTimes ==
    ASSUME NEW t \in Int, NEW g \in Int, IsWhole(t), IsWhole(g), t < g + Millisecond
    PROVE  t <= g
<1> DEFINE p == Millisecond
           a == t \div p
           b == g \div p
<1>1. p \in Nat \ {0}
  BY TimesHaveParts
<1>2. t = p * a /\ g = p * b /\ a \in Int /\ b \in Int
  BY <1>1 DEF IsWhole
<1> HIDE DEF p, a, b
<1>3. ASSUME b + 1 <= a PROVE FALSE
  <2>1. p * (b + 1) <= p * a
    BY <1>1, <1>2, <1>3
  <2>2. p * (b + 1) = p * b + p
    BY <1>1, <1>2
  <2> QED BY <1>1, <1>2, <2>1, <2>2 DEF p
<1>4. a <= b
  BY <1>2, <1>3
<1>5. p * a <= p * b
  BY <1>1, <1>2, <1>4
<1> QED BY <1>2, <1>5

\* Whole steps from a whole start are at whole times.
LEMMA WholeGrid ==
    ASSUME NEW start \in Int, NEW step \in Nat, IsWhole(start), IsWhole(step), NEW k \in Nat
    PROVE  IsWhole(start + k * step)
<1> DEFINE p == Millisecond
           a == start \div p
           b == step \div p
<1>1. p \in Nat \ {0}
  BY TimesHaveParts
<1>2. start = p * a /\ step = p * b /\ a \in Int /\ b \in Int
  BY <1>1 DEF IsWhole
<1> HIDE DEF p, a, b
<1>3. k * (p * b) = p * (k * b) /\ k * b \in Int
  BY <1>1, <1>2
<1>4. start + k * step = p * (a + k * b) /\ a + k * b \in Int
  BY <1>1, <1>2, <1>3
<1>5. \A n \in Int : (p * n) % p = 0
  BY <1>1
<1> QED BY <1>4, <1>5 DEF IsWhole, p

\* A step of whole milliseconds is used as it is, and so is the lookback.
LEMMA WholeStays ==
    ASSUME NEW time \in Nat \ {0}, IsWhole(time)
    PROVE  OneAtLeast(Floored(time)) = time /\ OneAtLeast(time) = time
<1> DEFINE p == Millisecond
<1>1. p \in Nat \ {0}
  BY TimesHaveParts
<1>2. time % p = 0
  BY DEF IsWhole
<1>3. p * 0 = 0
  BY <1>1
<1>4. time >= p
  <2>1. IsWhole(0) /\ IsWhole(time)
    BY <1>1 DEF IsWhole
  <2> QED BY <1>1, <2>1, WholeTimes
<1>5. Floored(time) = time
  BY <1>2 DEF Floored
<1> QED BY <1>1, <1>4, <1>5 DEF OneAtLeast

-----------------------------------------------------------------------------
(* Instant selectors.                                                      *)

\* The request of an instant selector reaches from the first of the steps to the last.
LEMMA InstantRequest ==
    ASSUME NEW selector, selector.range = NoRange, NEW times
    PROVE  LET request == RequestOf(selector, times)
           IN /\ request.matchers = selector.matchers
              /\ request.start = times[1] - selector.offset
              /\ request.end = times[Len(times)] - selector.offset
              /\ request.step = OneAtLeast(GridStep(times))
<1>1. OneAtLeast(Millisecond) = Millisecond
  BY DEF OneAtLeast
<1> QED BY <1>1 DEF RequestOf, GridStep

\* The newest sample of the lookback of a step is selected for it, and no later
\* one; where there is none, all that are selected are too old.
LEMMA SelectedForAStep ==
    ASSUME NEW store, Sampled(store), NEW s \in DOMAIN Series,
           NEW selector, selector.range = NoRange, selector.offset \in Int,
           NEW times, Grid(times), IsWhole(GridStep(times)), NEW n \in DOMAIN times,
           NEW x, x = times[n] - selector.offset,
           NEW seen, seen = SamplesBetween(store, s, x - Lookback, x),
           NEW K, K = SelectedAtSteps(store, s, RequestOf(selector, times))
    PROVE  /\ x \in Int /\ K \subseteq DOMAIN store[s]
           /\ seen = {} => \A u \in K : u <= x => u <= x - Lookback
           /\ seen # {} => /\ Newest(seen) \in K /\ Newest(seen) \in seen
                           /\ \A u \in K : u <= x => u <= Newest(seen)
<1> DEFINE request == RequestOf(selector, times)
           from == request.start
           until == request.end
           start == Floored(from)
           end == Raised(until)
           step == OneAtLeast(Floored(request.step))
           D == DOMAIN store[s]
           raw == {t \in D : start - Lookback <= t /\ t <= end}
           first(t) == FirstEval(t, start, step)
<1>1. /\ D \subseteq Nat /\ IsFiniteSet(D) /\ \A t \in D : IsWhole(t)
      /\ Lookback \in Nat \ {0} /\ IsWhole(Lookback)
  BY Options, TimesHaveParts DEF Sampled
<1>2. times[n] \in Int /\ times[1] <= times[n] /\ times[n] <= times[Len(times)]
      /\ times[1] \in Int /\ times[Len(times)] \in Int
  BY GridRises
<1>3. /\ from = times[1] - selector.offset /\ until = times[Len(times)] - selector.offset
      /\ step = GridStep(times)
  <2>1. /\ from = times[1] - selector.offset /\ until = times[Len(times)] - selector.offset
        /\ request.step = OneAtLeast(GridStep(times))
    BY InstantRequest
  <2>2. GridStep(times) \in Nat \ {0}
    BY DEF Grid
  <2> QED BY <2>1, <2>2, WholeStays
<1>4. step \in Nat \ {0} /\ times[n] = times[1] + (n - 1) * step /\ n - 1 \in Nat
  <2>1. n \in 1..Len(times) /\ Len(times) \in Nat
    BY DEF Grid, IsSequence
  <2>2. n - 1 \in Nat
    BY <2>1
  <2> QED BY <1>3, <2>2 DEF Grid
<1>5. K = {t \in raw : /\ first(t) <= end
                       /\ \A u \in raw : u > t => first(t) < u
                       /\ first(t) < t + Lookback}
  <2>1. OneAtLeast(Floored(Lookback)) = Lookback
    BY <1>1, WholeStays
  <2> QED BY <2>1 DEF SelectedAtSteps
<1>6. seen = {u \in D : x - Lookback < u /\ u <= x}
  BY DEF SamplesBetween
<1> HIDE DEF request, from, until, step, D
<1>11. /\ from \in Int /\ until \in Int /\ x \in Int /\ from <= x /\ x <= until
       /\ (n - 1) * step \in Nat /\ x = from + (n - 1) * step
  <2> DEFINE y == (n - 1) * step
  <2>1. y \in Nat
    BY <1>4
  <2>2. times[n] = times[1] + y
    BY <1>4
  <2> HIDE DEF y
  <2>3. from \in Int /\ until \in Int /\ x \in Int /\ from <= x /\ x <= until
    <3> DEFINE offset == selector.offset
               last == times[Len(times)]
    <3>1. offset \in Int /\ from = times[1] - offset /\ until = last - offset /\ x = times[n] - offset
      BY <1>3
    <3>2. times[n] \in Int /\ times[1] \in Int /\ last \in Int /\ times[1] <= times[n] /\ times[n] <= last
      BY <1>2
    <3> HIDE DEF offset, last
    <3> QED BY ONLY <3>1, <3>2
  <2>4. x = from + y
    BY <1>2, <1>3, <2>1, <2>2
  <2> QED BY <2>1, <2>3, <2>4 DEF y
<1> DEFINE g == start + (n - 1) * step
<1>12. /\ start \in Int /\ start <= from /\ from < start + Millisecond /\ IsWhole(start)
       /\ end \in Int /\ until <= end
  BY <1>11, RoundingIs
<1>13. IsWhole(g)
  BY <1>3, <1>4, <1>12, WholeGrid
<1>7. /\ start \in Int /\ end \in Int /\ x \in Int /\ start <= x /\ x <= end
      /\ g \in Int /\ g <= x /\ x < g + Millisecond
  <2> DEFINE y == (n - 1) * step
  <2>1. y \in Nat /\ x = from + y /\ g = start + y
    BY <1>11
  <2> HIDE DEF y, g, start, end
  <2> QED BY <1>11, <1>12, <2>1, TimesHaveParts
<1> HIDE DEF start, end
<1>8. K \subseteq D
  BY <1>5
<1>9. ASSUME seen = {} PROVE \A u \in K : u <= x => u <= x - Lookback
  <2>1. \A u \in D : u \in Nat /\ ~(x - Lookback < u /\ u <= x)
    BY <1>1, <1>6, <1>9
  <2> QED BY <1>1, <1>7, <1>8, <2>1
<1>10. ASSUME seen # {}
       PROVE  /\ Newest(seen) \in K /\ Newest(seen) \in seen
              /\ \A u \in K : u <= x => u <= Newest(seen)
  <2> DEFINE m == Newest(seen)
  <2>1. seen \in SUBSET Nat /\ IsFiniteSet(seen)
    <3>1. seen \subseteq D
      BY <1>6
    <3> QED BY <1>1, <3>1, FS_Subset
  <2>2. m \in seen /\ \A u \in seen : u <= m
    <3>1. \E k \in seen : \A j \in seen : k >= j
      BY <1>10, <2>1, FiniteHasGreatest
    <3>2. \E k \in seen : \A j \in seen : j <= k
      BY <2>1, <3>1
    <3> QED BY <3>2 DEF Newest
  <2> HIDE DEF m
  <2>3. m \in D /\ m \in Nat /\ x - Lookback < m /\ m <= x
    BY <1>1, <1>6, <2>2
  <2>4. ASSUME NEW u \in D, u <= x PROVE u <= m
    <3>1. u \in Nat
      BY <1>1
    <3>2. CASE x - Lookback < u
      BY <1>6, <2>2, <2>4, <3>2
    <3>3. CASE ~ x - Lookback < u
      BY <1>1, <1>7, <2>3, <3>1, <3>3
    <3> QED BY <3>2, <3>3
  <2>5. m \in raw
    BY <1>1, <1>7, <2>3
  <2>10. m <= g
    <3>1. IsWhole(m) /\ m < g + Millisecond
      BY <1>1, <1>7, <2>3, TimesHaveParts
    <3> HIDE DEF g
    <3> QED BY <1>7, <1>13, <2>3, <3>1, WholeTimes
  <2>6. first(m) \in Int /\ first(m) <= x
    <3>1. m \in Int /\ start \in Int /\ step \in Nat \ {0}
      BY <1>4, <1>7, <2>3
    <3>2. first(m) \in Int /\ \A k \in Nat : m <= start + k * step => first(m) <= start + k * step
      BY <3>1, FirstEvalIs
    <3> HIDE DEF first
    <3>3. first(m) <= g
      BY <1>4, <2>10, <3>2
    <3> HIDE DEF g
    <3> QED BY <1>7, <3>2, <3>3
  <2> HIDE DEF first
  <2>7. \A u \in raw : u > m => first(m) < u
    <3>1. SUFFICES ASSUME NEW u \in raw, u > m PROVE first(m) < u
      OBVIOUS
    <3>2. u \in Nat /\ u \in D
      BY <1>1
    <3>3. ~ u <= x
      BY <2>3, <2>4, <3>1, <3>2
    <3> QED BY <1>7, <2>6, <3>2, <3>3
  <2>8. first(m) <= end /\ first(m) < m + Lookback
    BY <1>1, <1>7, <2>3, <2>6
  <2>9. m \in K
    BY <1>5, <2>5, <2>7, <2>8
  <2> QED BY <1>8, <2>2, <2>4, <2>9 DEF m
<1> QED BY <1>7, <1>8, <1>9, <1>10 DEF D

\* The steps moved by an offset rise as well.
LEMMA MovedSteps ==
    ASSUME NEW times, Grid(times), NEW moved, NEW d \in Int,
           moved = [n \in DOMAIN times |-> times[n] - d]
    PROVE  /\ IsSequence(moved) /\ DOMAIN moved = DOMAIN times
           /\ \A n \in DOMAIN moved : moved[n] = times[n] - d /\ moved[n] \in Int
           /\ \A n \in DOMAIN moved : n - 1 \in DOMAIN moved => moved[n - 1] <= moved[n]
<1>1. DOMAIN times = 1..Len(times) /\ Len(times) \in Nat
  BY DEF Grid, IsSequence
<1>2. \A n \in DOMAIN times :
        times[n] \in Int /\ (n - 1 \in DOMAIN times => times[n - 1] <= times[n])
  BY GridRises
<1>3. DOMAIN moved = DOMAIN times /\ \A n \in DOMAIN times : moved[n] = times[n] - d
  OBVIOUS
<1>4. \A n \in DOMAIN times : moved[n] \in Int
  BY <1>2, <1>3
<1>5. moved \in Seq(Int) /\ Len(moved) = Len(times)
  BY <1>1, <1>3, <1>4
<1>6. IsSequence(moved)
  BY <1>1, <1>3, <1>5 DEF IsSequence
<1>7. ASSUME NEW n \in DOMAIN times, n - 1 \in DOMAIN times PROVE moved[n - 1] <= moved[n]
  <2>1. /\ times[n] \in Int /\ times[n - 1] \in Int /\ times[n - 1] <= times[n]
        /\ moved[n] = times[n] - d /\ moved[n - 1] = times[n - 1] - d
    BY <1>2, <1>3, <1>7
  <2> QED BY <2>1
<1> QED BY <1>3, <1>4, <1>6, <1>7

\* At every step an instant selector sees the newest sample of the lookback.
LEMMA LatestIsSeen ==
    ASSUME NEW store, Sampled(store), NEW s \in DOMAIN Series,
           NEW selector, selector.range = NoRange, selector.offset \in Int,
           NEW times, Grid(times), IsWhole(GridStep(times)), NEW n \in DOMAIN times,
           NEW K, K = SelectedAtSteps(store, s, RequestOf(selector, times))
    PROVE  LatestOf(selector, PointsOf(store, s, K), times)[n]
             = Latest(store, s, times[n] - selector.offset)
<1> DEFINE x == times[n] - selector.offset
           seen == SamplesBetween(store, s, x - Lookback, x)
           points == PointsOf(store, s, K)
           targets == [m \in DOMAIN times |-> times[m] - selector.offset]
           idx == Pointers(points, targets)
           N == Cardinality(K)
           c == CountTo(K, x)
           u == Nth(K, c)
<1>1. /\ x \in Int /\ K \subseteq DOMAIN store[s]
      /\ seen = {} => \A k \in K : k <= x => k <= x - Lookback
      /\ seen # {} => /\ Newest(seen) \in K /\ Newest(seen) \in seen
                      /\ \A k \in K : k <= x => k <= Newest(seen)
  BY SelectedForAStep, SMTT(60)
<1>2. /\ K \in SUBSET Nat /\ IsFiniteSet(K) /\ N \in Nat
      /\ \A i \in 1..N : points[i] = [t |-> Nth(K, i), v |-> store[s][Nth(K, i)]]
  BY <1>1, PointsAre
<1>3. /\ IsSequence(targets) /\ DOMAIN targets = DOMAIN times /\ targets[n] = x
      /\ \A m \in DOMAIN targets : targets[m] \in Int
      /\ \A m \in DOMAIN targets : m - 1 \in DOMAIN targets => targets[m - 1] <= targets[m]
  BY MovedSteps
<1>4. LatestOf(selector, points, times)[n] =
        IF idx[n] > 0 /\ points[idx[n]].t > targets[n] - Lookback THEN points[idx[n]].v ELSE NaN
  BY DEF LatestOf
<1>5. Latest(store, s, x) = IF seen = {} THEN NaN ELSE store[s][Newest(seen)]
  BY DEF Latest
<1>6. \A k \in seen : k > x - Lookback /\ k <= x
  BY DEF SamplesBetween
<1>7. \A k \in DOMAIN store[s] : k > x - Lookback /\ k <= x => k \in seen
  BY DEF SamplesBetween
<1> HIDE DEF targets
<1>8. idx[n] = c
  BY <1>1, <1>3, PointersCount
<1>9. /\ c \in 0..N
      /\ \A i \in 1..N : Nth(K, i) <= x <=> i <= c
      /\ \A k \in K : \E i \in 1..N : Nth(K, i) = k
      /\ \A i \in 1..N : Nth(K, i) \in K
  BY <1>1, <1>2, UpToABound, NthIs
<1> HIDE DEF seen, points, idx, N, c, x
<1>10. Lookback \in Nat
  BY Options
<1>11. CASE c = 0
  <2>1. \A k \in K : ~ k <= x
    <3>1. SUFFICES ASSUME NEW k \in K PROVE ~ k <= x
      OBVIOUS
    <3>2. PICK i \in 1..N : Nth(K, i) = k
      BY <1>9
    <3> QED BY <1>2, <1>9, <1>11, <3>2
  <2>2. seen = {}
    BY <1>1, <1>6, <2>1
  <2> QED BY <1>4, <1>5, <1>8, <1>11, <2>2 DEF x, points
<1>12. CASE c # 0
  <2>1. c \in 1..N /\ c > 0
    BY <1>2, <1>9, <1>12
  <2>2. u \in K /\ u <= x /\ points[c] = [t |-> u, v |-> store[s][u]]
    BY <1>2, <1>9, <2>1
  <2>3. ASSUME NEW k \in K, k <= x PROVE k <= u
    <3>1. PICK i \in 1..N : Nth(K, i) = k
      BY <1>9
    <3>2. i <= c
      BY <1>9, <2>3, <3>1
    <3>3. i < c <=> k < u
      BY <1>2, <2>1, <3>1, NthRises DEF N
    <3>4. i = c => k = u
      BY <3>1
    <3>5. k \in Nat /\ u \in Nat /\ i \in Nat /\ c \in Nat
      BY <1>2, <2>1, <2>2
    <3> HIDE DEF u
    <3> QED BY <3>2, <3>3, <3>4, <3>5
  <2> HIDE DEF u
  <2>4. u \in Nat
    BY <1>2, <2>2
  <2>5. LatestOf(selector, points, times)[n] = IF u > x - Lookback THEN store[s][u] ELSE NaN
    BY <1>3, <1>4, <1>8, <2>1, <2>2
  <2>6. CASE u > x - Lookback
    <3>1. u \in seen
      BY <1>1, <1>7, <2>2, <2>6
    <3>2. Newest(seen) \in K /\ Newest(seen) <= x /\ u <= Newest(seen)
      BY <1>1, <1>6, <2>2, <3>1
    <3>3. Newest(seen) <= u /\ Newest(seen) \in Nat
      BY <1>2, <2>3, <3>2
    <3>4. u = Newest(seen)
      BY <2>4, <3>2, <3>3
    <3> QED BY <1>5, <2>5, <2>6, <3>1, <3>4 DEF x, points
  <2>7. CASE ~ u > x - Lookback
    <3>1. ASSUME seen # {} PROVE FALSE
      <4>1. Newest(seen) \in K /\ Newest(seen) <= x /\ Newest(seen) > x - Lookback
        BY <1>1, <1>6, <3>1
      <4>2. Newest(seen) <= u /\ Newest(seen) \in Nat
        BY <1>2, <2>3, <4>1
      <4> QED BY <1>1, <1>10, <2>4, <2>7, <4>1, <4>2
    <3> QED BY <1>5, <2>5, <2>7, <3>1 DEF x, points
  <2> QED BY <2>6, <2>7
<1> QED BY <1>11, <1>12

-----------------------------------------------------------------------------
(* Range selectors.                                                        *)

\* The request of a range selector is for all samples from the start of the
\* first window to the end of the last.
LEMMA RangeRequest ==
    ASSUME NEW selector, selector.range # NoRange, NEW times
    PROVE  LET request == RequestOf(selector, times)
           IN /\ request.matchers = selector.matchers
              /\ request.start = times[1] - selector.offset - selector.range
              /\ request.end = times[Len(times)] - selector.offset
              /\ request.step = 0
  BY DEF RequestOf

\* At every step a range selector sees the samples of its window.
LEMMA WindowIsSeen ==
    ASSUME NEW store, Sampled(store), NEW s \in DOMAIN Series,
           NEW selector, selector.range \in Nat, selector.range # NoRange, selector.offset \in Int,
           NEW times, Grid(times), NEW n \in DOMAIN times,
           NEW K, K = LET request == RequestOf(selector, times)
                      IN TimesWithin(store, s, request.start, request.end)
    PROVE  /\ K \subseteq DOMAIN store[s]
           /\ WindowsOf(selector, PointsOf(store, s, K), times)[n]
                = PointsOf(store, s, SamplesBetween(store, s, WindowStart(selector, times[n]),
                                                              WindowEnd(selector, times[n])))
<1> DEFINE a == WindowStart(selector, times[n])
           b == WindowEnd(selector, times[n])
           W == SamplesBetween(store, s, a, b)
           points == PointsOf(store, s, K)
           seen == PointsOf(store, s, W)
           highs == [m \in DOMAIN times |-> WindowEnd(selector, times[m])]
           lows == [m \in DOMAIN times |-> WindowStart(selector, times[m])]
           hi == CountTo(K, b)
           lo == CountTo(K, a)
           D == DOMAIN store[s]
<1>1. /\ times[n] \in Int /\ times[1] \in Int /\ times[Len(times)] \in Int
      /\ times[1] <= times[n] /\ times[n] <= times[Len(times)]
  BY GridRises
<1>2. a \in Int /\ b \in Int /\ a <= b
  BY <1>1 DEF WindowStart, WindowEnd
<1>3. D \subseteq Nat /\ IsFiniteSet(D)
  BY DEF Sampled
<1> DEFINE from == times[1] - selector.offset - selector.range
           until == times[Len(times)] - selector.offset
<1>0. from \in Int /\ until \in Int
  BY <1>1
<1>4. K = {t \in D : Floored(from) <= t /\ t <= Raised(until)}
  BY RangeRequest DEF TimesWithin
<1>16. /\ Floored(from) \in Int /\ Floored(from) <= from
       /\ Raised(until) \in Int /\ until <= Raised(until)
  BY <1>0, RoundingIs
<1>5. W = {k \in K : a < k /\ k <= b}
  <2>1. W = {k \in D : a < k /\ k <= b}
    BY DEF SamplesBetween
  <2>2. a = times[n] - selector.offset - selector.range /\ b = times[n] - selector.offset
    BY DEF WindowStart, WindowEnd
  <2> HIDE DEF a, b, W, D
  <2>3. ASSUME NEW k \in D, a < k, k <= b PROVE k \in K
    <3>1. from <= a /\ b <= until
      BY <1>1, <2>2
    <3>2. k \in Int
      BY <1>3
    <3> HIDE DEF from, until
    <3>3. Floored(from) <= k /\ k <= Raised(until)
      BY <1>0, <1>2, <1>16, <2>3, <3>1, <3>2
    <3> QED BY <1>4, <3>3
  <2>4. K \subseteq D
    BY <1>4
  <2> QED BY <2>1, <2>3, <2>4
<1>6. K \subseteq D /\ W \subseteq D
  BY <1>4, <1>5
<1>7. /\ K \in SUBSET Nat /\ IsFiniteSet(K) /\ Cardinality(K) \in Nat
      /\ DOMAIN points = 1..Cardinality(K)
      /\ \A i \in 1..Cardinality(K) :
            points[i] = [t |-> Nth(K, i), v |-> store[s][Nth(K, i)]]
  BY <1>6, PointsAre
<1>8. /\ Cardinality(W) \in Nat /\ DOMAIN seen = 1..Cardinality(W)
      /\ \A i \in 1..Cardinality(W) : seen[i] = [t |-> Nth(W, i), v |-> store[s][Nth(W, i)]]
  BY <1>6, PointsAre
<1>9. Pointers(points, highs)[n] = hi
  <2>1. highs = [m \in DOMAIN times |-> times[m] - selector.offset] /\ highs[n] = b
    BY DEF WindowEnd
  <2> HIDE DEF highs, b, points
  <2>2. /\ IsSequence(highs) /\ DOMAIN highs = DOMAIN times
        /\ \A m \in DOMAIN highs : highs[m] \in Int
        /\ \A m \in DOMAIN highs : m - 1 \in DOMAIN highs => highs[m - 1] <= highs[m]
    BY <2>1, MovedSteps
  <2> QED BY <1>6, <2>1, <2>2, PointersCount DEF points
<1>10. Pointers(points, lows)[n] = lo
  <2> DEFINE d == selector.offset + selector.range
  <2>1. \A m \in DOMAIN times : lows[m] = times[m] - d
    <3>1. \A m \in DOMAIN times : times[m] \in Int
      BY DEF Grid
    <3> QED BY <3>1 DEF WindowStart, WindowEnd
  <2>2. lows = [m \in DOMAIN times |-> times[m] - d] /\ lows[n] = a /\ d \in Int
    BY <2>1
  <2> HIDE DEF lows, a, points, d
  <2>3. /\ IsSequence(lows) /\ DOMAIN lows = DOMAIN times
        /\ \A m \in DOMAIN lows : lows[m] \in Int
        /\ \A m \in DOMAIN lows : m - 1 \in DOMAIN lows => lows[m - 1] <= lows[m]
    BY <2>2, MovedSteps
  <2> QED BY <1>6, <2>2, <2>3, PointersCount DEF points
<1>11. WindowsOf(selector, points, times)[n] = SubSeq(points, lo + 1, hi)
  BY <1>9, <1>10 DEF WindowsOf
<1>12. /\ lo \in 0..Cardinality(K) /\ hi \in 0..Cardinality(K) /\ lo <= hi
       /\ Cardinality(W) = hi - lo
  <2> HIDE DEF a, b, W
  <2>1. /\ lo <= hi /\ Cardinality({k \in K : a < k /\ k <= b}) = hi - lo
    BY <1>2, <1>7, CountBetween
  <2>2. lo \in 0..Cardinality(K) /\ hi \in 0..Cardinality(K)
    BY <1>2, <1>7, UpToABound
  <2> QED BY <1>5, <2>1, <2>2
<1>13. ASSUME NEW i \in 1..Cardinality(W) PROVE lo + i \in 1..Cardinality(K) /\ points[lo + i] = seen[i]
  <2> HIDE DEF W
  <2>1. lo + i \in 1..Cardinality(K) /\ Nth(W, i) = Nth(K, lo + i)
    <3>1. K \in SUBSET Nat /\ IsFiniteSet(K)
      BY <1>7
    <3> HIDE DEF a, b
    <3>2. \A j \in 1..Cardinality(W) : /\ CountTo(K, a) + j \in 1..Cardinality(K)
                                       /\ Nth(W, j) = Nth(K, CountTo(K, a) + j)
      BY <1>2, <1>5, <3>1, NthBetween
    <3> QED BY <3>2
  <2> HIDE DEF a, b, lo, hi, points, seen
  <2> QED BY <1>7, <1>8, <2>1
<1> HIDE DEF a, b, W, points, seen, hi, lo
<1>14. SubSeq(points, lo + 1, hi) = seen
  <2> DEFINE S == {points[i] : i \in DOMAIN points}
             part == SubSeq(points, lo + 1, hi)
             N == Cardinality(K)
             w == Cardinality(W)
  <2>1. lo + 1 \in Int /\ hi \in Int /\ w = hi - lo /\ lo \in Nat /\ hi \in Nat /\ w \in Nat
    BY <1>7, <1>8, <1>12
  <2>2. \A i \in lo + 1..hi : points[i] \in S
    BY <1>7, <1>12
  <2> HIDE DEF S
  <2>3. /\ part \in Seq(S)
        /\ Len(part) = IF lo + 1 <= hi THEN hi - (lo + 1) + 1 ELSE 0
        /\ \A i \in 1..hi - (lo + 1) + 1 : part[i] = points[lo + 1 + i - 1]
    BY <2>1, <2>2, SubSeqProperties
  <2> HIDE DEF part, N, w
  <2>4. Len(part) = w /\ DOMAIN part = 1..w
    BY <2>1, <2>3
  <2>5. \A i \in 1..w : part[i] = points[lo + i]
    <3>1. SUFFICES ASSUME NEW i \in 1..w PROVE part[i] = points[lo + i]
      OBVIOUS
    <3>2. i \in 1..hi - (lo + 1) + 1 /\ lo + 1 + i - 1 = lo + i
      BY <2>1
    <3> QED BY <2>3, <3>2
  <2>6. \A i \in 1..w : part[i] = seen[i]
    BY <1>13, <2>5 DEF w
  <2>7. seen = [i \in 1..w |-> seen[i]] /\ part = [i \in 1..w |-> part[i]]
    <3>1. seen = [i \in DOMAIN seen |-> seen[i]]
      BY DEF seen, PointsOf
    <3> QED BY <1>8, <2>3, <2>4, <3>1 DEF w
  <2>8. part = seen
    BY <2>6, <2>7
  <2> QED BY <2>8 DEF part
<1>15. WindowsOf(selector, points, times)[n] = seen
  BY <1>11, <1>14
<1> QED BY <1>6, <1>15 DEF points, seen, W, a, b

-----------------------------------------------------------------------------
(* What a selector sees.                                                   *)

\* The row of a series in the answer to a request, or no points without one.
LEMMA FetchedPoints ==
    ASSUME NEW store, Sampled(store), NEW request, NEW s \in MatchSeries(request.matchers)
    PROVE  PointsFor(Fetch(store, request), Series[s])
             = PointsOf(store, s, ReadTimes(store, s, request))
<1> DEFINE F == {r \in MatchSeries(request.matchers) : ReadTimes(store, r, request) # {}}
           K == ReadTimes(store, s, request)
           data == Fetch(store, request)
           found == InOrder(F)
           rows == {i \in DOMAIN data : data[i].labels = Series[s]}
           N == Cardinality(F)
<1>1. s \in DOMAIN Series /\ DOMAIN Series = 1..Len(Series) /\ Len(Series) \in Nat
  BY StoredSeries DEF MatchSeries, IsSequence
<1>2. F \subseteq DOMAIN Series
  BY DEF MatchSeries
<1>3. F \in SUBSET Nat /\ IsFiniteSet(F)
  <2>1. IsFiniteSet(1..Len(Series))
    BY <1>1, FS_Interval
  <2> HIDE DEF F
  <2> QED BY <1>1, <1>2, <2>1, FS_Subset
<1>4. s \in F <=> K # {}
  OBVIOUS
<1>5. data = [i \in DOMAIN found |->
                [labels |-> Series[found[i]],
                 points |-> PointsOf(store, found[i], ReadTimes(store, found[i], request))]]
  BY DEF Fetch
<1>6. PointsFor(data, Series[s]) = IF rows = {} THEN <<>> ELSE data[CHOOSE i \in rows : TRUE].points
  BY DEF PointsFor
<1> HIDE DEF F, K
<1>7. /\ N \in Nat /\ DOMAIN found = 1..N
      /\ \A i \in 1..N : found[i] \in F
      /\ \A r \in F : \E i \in 1..N : found[i] = r
  BY <1>3, InOrderIs
<1> HIDE DEF found, N
<1>8. /\ DOMAIN data = 1..N
      /\ \A i \in 1..N :
            /\ data[i].labels = Series[found[i]]
            /\ data[i].points = PointsOf(store, found[i], ReadTimes(store, found[i], request))
  <2> HIDE DEF data
  <2> QED BY <1>5, <1>7
<1> HIDE DEF data
<1>9. ASSUME NEW i \in rows PROVE s \in F /\ data[i].points = PointsOf(store, s, K)
  <2>1. i \in 1..N /\ Series[found[i]] = Series[s] /\ found[i] \in F
    BY <1>7, <1>8
  <2>2. found[i] = s
    BY <1>1, <1>2, <2>1, StoredSeries
  <2> QED BY <1>8, <2>1, <2>2 DEF K
<1>10. CASE s \in F
  <2>1. PICK i \in 1..N : found[i] = s
    BY <1>7, <1>10
  <2>2. i \in rows
    BY <1>8, <2>1
  <2> DEFINE j == CHOOSE k \in rows : TRUE
  <2>3. j \in rows
    BY <2>2
  <2> HIDE DEF j
  <2>4. data[j].points = PointsOf(store, s, K)
    BY <1>9, <2>3
  <2> QED BY <1>6, <2>2, <2>4 DEF data, K, j
<1>11. CASE s \notin F
  <2>1. rows = {} /\ K = {}
    BY <1>4, <1>9, <1>11
  <2>2. PointsOf(store, s, K) = <<>>
    <3>1. Cardinality({}) = 0 /\ 1..0 = {}
      BY FS_EmptySet
    <3>2. DOMAIN InOrder({}) = {}
      BY <3>1 DEF InOrder
    <3>3. PointsOf(store, s, {}) = [i \in {} |-> [t |-> InOrder({})[i], v |-> store[s][InOrder({})[i]]]]
      BY <3>2 DEF PointsOf
    <3> QED BY <2>1, <3>3
  <2> QED BY <1>6, <2>1, <2>2 DEF data, K
<1> QED BY <1>10, <1>11

\* Selectors as the parser makes them.
IsSelector(selector) == selector.range \in Nat \cup {NoRange} /\ selector.offset \in Int

\* Whatever the store holds, what a selector makes of the answer to its request
\* is what the store holds for it at every step: a range selector whatever the
\* steps are, an instant selector if they are whole milliseconds apart.
THEOREM SelectorSeesItsSamples ==
    ASSUME NEW store, Sampled(store), NEW selector, IsSelector(selector),
           NEW times, Grid(times), selector.range # NoRange \/ IsWhole(GridStep(times)),
           NEW s \in MatchSeries(selector.matchers)
    PROVE  SeesItsSamples(selector, s, times, Fetch(store, RequestOf(selector, times)), store)
<1> DEFINE request == RequestOf(selector, times)
           points == PointsFor(Fetch(store, request), Series[s])
           K == ReadTimes(store, s, request)
<1>1. s \in DOMAIN Series
  BY DEF MatchSeries
<1>2. request.matchers = selector.matchers
  BY InstantRequest, RangeRequest
<1>3. points = PointsOf(store, s, K)
  <2> HIDE DEF request
  <2> QED BY <1>2, FetchedPoints
<1>4. selector.offset \in Int
  BY DEF IsSelector
<1>5. CASE selector.range = NoRange
  <2>1. request.step # 0
    <3>1. request.step = OneAtLeast(GridStep(times))
      BY <1>5, InstantRequest
    <3> HIDE DEF request
    <3> QED BY <3>1, TimesHaveParts DEF OneAtLeast
  <2>2. K = SelectedAtSteps(store, s, RequestOf(selector, times))
    BY <2>1 DEF ReadTimes
  <2> HIDE DEF request, K, points
  <2>3. \A n \in DOMAIN times :
          LatestOf(selector, points, times)[n] = Latest(store, s, times[n] - selector.offset)
    BY <1>1, <1>3, <1>4, <1>5, <2>2, LatestIsSeen
  <2> QED BY <1>5, <2>3 DEF SeesItsSamples, points, request
<1>6. CASE selector.range # NoRange
  <2>1. request.step = 0 /\ selector.range \in Nat
    BY <1>6, RangeRequest DEF IsSelector
  <2>2. K = LET r == RequestOf(selector, times) IN TimesWithin(store, s, r.start, r.end)
    BY <2>1 DEF ReadTimes
  <2> HIDE DEF request, K, points
  <2>3. \A n \in DOMAIN times :
          WindowsOf(selector, points, times)[n]
            = PointsOf(store, s, SamplesBetween(store, s, WindowStart(selector, times[n]),
                                                          WindowEnd(selector, times[n])))
    BY <1>1, <1>3, <1>4, <1>6, <2>1, <2>2, WindowIsSeen
  <2> QED BY <1>6, <2>3 DEF SeesItsSamples, points, request
<1> QED BY <1>5, <1>6

\* The steps of a question whose step is whole, or that has only one.
LEMMA WholeStepsAreWhole ==
    ASSUME NEW q \in Answered, WholeSteps(q)
    PROVE  IsWhole(GridStep(TimesOf(q)))
<1> DEFINE times == TimesOf(q)
<1>1. IsWhole(Millisecond)
  BY TimesHaveParts DEF IsWhole
<1>2. CASE ~ Len(times) > 1
  BY <1>1, <1>2 DEF GridStep
<1>3. CASE Len(times) > 1
  <2>1. ~IsInstant(q) /\ IsWhole(q.step)
    <3>1. ASSUME IsInstant(q) PROVE FALSE
      <4>1. times = <<q.start>>
        BY <3>1 DEF TimesOf
      <4> HIDE DEF times
      <4> QED BY <1>3, <4>1
    <3>2. IsInstant(q) \/ IsWhole(q.step)
      BY DEF WholeSteps
    <3> QED BY <3>1, <3>2
  <2>2. q.start \in Int /\ q.step \in Int
    BY AskedQuestions DEF Answered
  <2>3. DOMAIN times = 1..Len(times) /\ Len(times) \in Nat
    BY StepsAreAGrid DEF Grid, IsSequence
  <2>4. 1 \in DOMAIN times /\ 2 \in DOMAIN times
    BY <1>3, <2>3
  <2>5. times = [n \in 1..StepCount(q) |-> q.start + (n - 1) * q.step]
    BY <2>1 DEF TimesOf
  <2> HIDE DEF times
  <2>6. times[1] = q.start + (1 - 1) * q.step /\ times[2] = q.start + (2 - 1) * q.step
    BY <2>4, <2>5
  <2>7. GridStep(times) = q.step
    BY <1>3, <2>2, <2>6 DEF GridStep
  <2> QED BY <2>1, <2>7 DEF times
<1> QED BY <1>2, <1>3

\* Of every question, in every state of the store its requests can meet.
THEOREM SelectorsAlwaysSeeTheirSamples == Spec => []SelectorsSeeTheirSamples
<1>1. ASSUME IInv PROVE SelectorsSeeTheirSamples
  <2>1. SUFFICES ASSUME HasFetched,
                        NEW selector \in Members(SelectorsOf(Expression)),
                        selector.range # NoRange \/ WholeSteps(asked),
                        NEW s \in MatchSeries(selector.matchers)
                 PROVE  SeesItsSamples(selector, s, Steps, fetched[RequestOf(selector, Steps)], asOf)
    BY DEF SelectorsSeeTheirSamples, SelectorSees
  <2>2. asked \in Answered
    BY <1>1, <2>1 DEF HasFetched, Answered, IInv, TypesFit
  <2>3. RequestOf(selector, Steps) \in DOMAIN fetched
    BY <2>1, <2>2, RequestsAre DEF HasFetched, Expression, Steps
  <2>4. fetched[RequestOf(selector, Steps)] = Fetch(asOf, RequestOf(selector, Steps))
    BY <1>1, <2>3 DEF IInv, ReadFromOne
  <2>5. IsSelector(selector)
    <3>1. asked \in Questions /\ asked.expr # Wrong
      BY <2>2 DEF Answered, Refused
    <3>2. PICK i \in DOMAIN SelectorsOf(asked.expr) : selector = SelectorsOf(asked.expr)[i]
      BY <2>1 DEF Members, Expression
    <3> QED BY <3>1, <3>2, AskedQuestions DEF IsSelector
  <2>6. Grid(Steps) /\ Sampled(asOf)
    BY <1>1, <2>2, StepsAreAGrid DEF Steps, IInv, TypesFit
  <2>7. selector.range # NoRange \/ IsWhole(GridStep(Steps))
    BY <2>1, <2>2, WholeStepsAreWhole DEF Steps
  <2> QED BY <2>1, <2>4, <2>5, <2>6, <2>7, SelectorSeesItsSamples
<1> QED BY <1>1, PrefetchInvariant, PTL

\* At every step of a range query a selector sees what it sees in the instant
\* query of that time: the request for all steps at once, with its own bounds,
\* its thinning and its pointers, makes no difference if the steps are whole
\* milliseconds apart.
THEOREM StepsAreSeenAlone ==
    ASSUME NEW store, Sampled(store), NEW selector, IsSelector(selector),
           NEW times, Grid(times), selector.range # NoRange \/ IsWhole(GridStep(times)),
           NEW n \in DOMAIN times, NEW s \in MatchSeries(selector.matchers)
    PROVE  LET points == PointsFor(Fetch(store, RequestOf(selector, times)), Series[s])
               alone == <<times[n]>>
               pointsAlone == PointsFor(Fetch(store, RequestOf(selector, alone)), Series[s])
           IN IF selector.range = NoRange
              THEN LatestOf(selector, points, times)[n] = LatestOf(selector, pointsAlone, alone)[1]
              ELSE WindowsOf(selector, points, times)[n] = WindowsOf(selector, pointsAlone, alone)[1]
<1> DEFINE alone == <<times[n]>>
<1>1. /\ Grid(alone) /\ 1 \in DOMAIN alone /\ alone[1] = times[n]
      /\ IsWhole(GridStep(alone))
  <2>1. times[n] \in Int
    BY DEF Grid
  <2>2. IsSequence(alone) /\ Len(alone) = 1 /\ alone[1] = times[n] /\ DOMAIN alone = 1..1
    BY DEF IsSequence
  <2> HIDE DEF alone
  <2>3. GridStep(alone) = Millisecond /\ Millisecond \in Nat \ {0}
    BY <2>2, TimesHaveParts DEF GridStep
  <2>4. (1 - 1) * GridStep(alone) = 0 /\ \A m \in DOMAIN alone : m = 1
    BY <2>2, <2>3
  <2>5. IsWhole(GridStep(alone))
    BY <2>3 DEF IsWhole
  <2> QED BY <2>1, <2>2, <2>3, <2>4, <2>5 DEF Grid
<1> HIDE DEF alone
<1>2. SeesItsSamples(selector, s, times, Fetch(store, RequestOf(selector, times)), store)
  BY SelectorSeesItsSamples
<1>3. SeesItsSamples(selector, s, alone, Fetch(store, RequestOf(selector, alone)), store)
  BY <1>1, SelectorSeesItsSamples
<1> DEFINE points == PointsFor(Fetch(store, RequestOf(selector, times)), Series[s])
           pointsAlone == PointsFor(Fetch(store, RequestOf(selector, alone)), Series[s])
<1>4. CASE selector.range = NoRange
  <2>1. LatestOf(selector, points, times)[n] = Latest(store, s, times[n] - selector.offset)
    BY <1>2, <1>4 DEF SeesItsSamples
  <2>2. LatestOf(selector, pointsAlone, alone)[1] = Latest(store, s, times[n] - selector.offset)
    BY <1>1, <1>3, <1>4 DEF SeesItsSamples
  <2> QED BY <1>4, <2>1, <2>2 DEF alone
<1>5. CASE selector.range # NoRange
  <2> DEFINE seen == PointsOf(store, s, SamplesBetween(store, s, WindowStart(selector, times[n]),
                                                                 WindowEnd(selector, times[n])))
  <2>1. WindowsOf(selector, points, times)[n] = seen
    BY <1>2, <1>5 DEF SeesItsSamples
  <2>2. WindowsOf(selector, pointsAlone, alone)[1] = seen
    BY <1>1, <1>3, <1>5 DEF SeesItsSamples
  <2> QED BY <1>5, <2>1, <2>2 DEF alone
<1> QED BY <1>4, <1>5

-----------------------------------------------------------------------------
(* The set operators.                                                      *)

\* A sample of a vector, at index i and step n.
CellAt(vector, i, n) == [labels |-> vector[i].labels, step |-> n, value |-> vector[i].values[n]]

LEMMA CellsAre ==
    \A vector, c : c \in Cells(vector) <=>
        \E i \in DOMAIN vector : \E n \in DOMAIN vector[i].values :
            vector[i].values[n] # NaN /\ c = CellAt(vector, i, n)
  BY DEF Cells, CellAt

\* Nothing is lost with the series that have no value.
LEMMA KeptKeepsCells ==
    ASSUME NEW vector, NEW L \in Nat, DOMAIN vector = 1..L
    PROVE  /\ Cells(Kept(vector)) = Cells(vector)
           /\ Kept(vector) \in Seq(Members(vector))
<1> DEFINE F == {i \in DOMAIN vector : IsPresent(vector[i])}
           N == Cardinality(F)
           found == [k \in 1..N |-> Nth(F, k)]
           kept == Kept(vector)
<1>1. F \in SUBSET Nat /\ IsFiniteSet(F)
  <2>1. F \subseteq 1..L /\ IsFiniteSet(1..L)
    BY FS_Interval
  <2> HIDE DEF F
  <2>2. F \in SUBSET Nat
    BY <2>1
  <2>3. IsFiniteSet(F)
    BY <2>1, FS_Subset
  <2> QED BY <2>2, <2>3
<1>2. \A i : i \in F <=> i \in DOMAIN vector
                         /\ \E n \in DOMAIN vector[i].values : vector[i].values[n] # NaN
  BY DEF IsPresent
<1>3. kept = [k \in 1..N |-> vector[Nth(F, k)]]
  BY DEF Kept, ElementsAt
<1> HIDE DEF F
<1>4. /\ N \in Nat /\ DOMAIN found = 1..N
      /\ \A i \in 1..N : found[i] \in F /\ found[i] = Nth(F, i)
      /\ \A r \in F : \E i \in 1..N : found[i] = r
  BY <1>1, NthIs
<1> HIDE DEF found, N, kept
<1>5. DOMAIN kept = 1..N /\ \A k \in 1..N : kept[k] = vector[found[k]] /\ found[k] \in DOMAIN vector
  BY <1>2, <1>3, <1>4
<1>6. kept \in Seq(Members(vector))
  <2>1. \A k \in 1..N : kept[k] \in Members(vector)
    BY <1>5 DEF Members
  <2> QED BY <1>3, <1>4, <1>5, <2>1
<1>7. ASSUME NEW c \in Cells(kept) PROVE c \in Cells(vector)
  <2>1. PICK k \in 1..N : \E n \in DOMAIN kept[k].values :
               kept[k].values[n] # NaN /\ c = CellAt(kept, k, n)
    <3>1. \E i \in DOMAIN kept : \E n \in DOMAIN kept[i].values :
             kept[i].values[n] # NaN /\ c = CellAt(kept, i, n)
      BY <1>7, CellsAre
    <3> QED BY <1>5, <3>1, Zenon
  <2>2. PICK n \in DOMAIN kept[k].values : kept[k].values[n] # NaN /\ c = CellAt(kept, k, n)
    BY <2>1
  <2>3. kept[k] = vector[found[k]] /\ found[k] \in DOMAIN vector
    BY <1>5
  <2>4. c = CellAt(vector, found[k], n)
    BY <2>2, <2>3 DEF CellAt
  <2> QED BY <2>2, <2>3, <2>4, CellsAre
<1>8. ASSUME NEW c \in Cells(vector) PROVE c \in Cells(kept)
  <2>1. PICK i \in DOMAIN vector : \E n \in DOMAIN vector[i].values :
               vector[i].values[n] # NaN /\ c = CellAt(vector, i, n)
    BY <1>8, CellsAre
  <2>2. PICK n \in DOMAIN vector[i].values : vector[i].values[n] # NaN /\ c = CellAt(vector, i, n)
    BY <2>1
  <2>3. PICK k \in 1..N : found[k] = i
    BY <1>2, <1>4, <2>2
  <2>4. kept[k] = vector[i] /\ k \in DOMAIN kept
    BY <1>5, <2>3
  <2>5. c = CellAt(kept, k, n)
    BY <2>2, <2>4 DEF CellAt
  <2> QED BY <2>2, <2>4, <2>5, CellsAre
<1> QED BY <1>6, <1>7, <1>8 DEF kept

\* Signatures are equal where the labels that take part are.
LEMMA SignaturesMatch ==
    ASSUME NEW matching, NEW labels, NEW others
    PROVE  MatchSignature(matching, labels) = MatchSignature(matching, others)
             <=> Shared(matching, labels) = Shared(matching, others)
<1> DEFINE Part(f) == IF matching.on THEN DOMAIN f \cap matching.labels
                      ELSE DOMAIN f \ ({NameLabel} \cup matching.labels)
           A == Part(labels)
           B == Part(others)
<1>1. /\ MatchSignature(matching, labels) = [x \in A |-> labels[x]]
      /\ MatchSignature(matching, others) = [x \in B |-> others[x]]
  BY DEF MatchSignature, Restrict
<1>2. \A f : Part(f) = IF matching.on THEN matching.labels \cap DOMAIN f
                       ELSE DOMAIN f \ (matching.labels \cup {NameLabel})
  OBVIOUS
<1>3. /\ Shared(matching, labels) = {<<x, labels[x]>> : x \in A}
      /\ Shared(matching, others) = {<<x, others[x]>> : x \in B}
  BY <1>2 DEF Shared
<1> HIDE DEF A, B
<1>4. ASSUME [x \in A |-> labels[x]] = [x \in B |-> others[x]]
      PROVE  {<<x, labels[x]>> : x \in A} = {<<x, others[x]>> : x \in B}
  <2>1. A = B
    BY <1>4
  <2>2. \A x \in A : labels[x] = others[x]
    BY <1>4, <2>1
  <2> QED BY <2>1, <2>2
<1>5. ASSUME {<<x, labels[x]>> : x \in A} = {<<x, others[x]>> : x \in B}
      PROVE  [x \in A |-> labels[x]] = [x \in B |-> others[x]]
  <2>1. \A x \in A : x \in B /\ labels[x] = others[x]
    <3>1. SUFFICES ASSUME NEW x \in A PROVE x \in B /\ labels[x] = others[x]
      OBVIOUS
    <3>2. <<x, labels[x]>> \in {<<y, others[y]>> : y \in B}
      BY <1>5
    <3>3. PICK y \in B : <<x, labels[x]>> = <<y, others[y]>>
      BY <3>2
    <3> QED BY <3>3
  <2>2. \A x \in B : x \in A
    <3>1. SUFFICES ASSUME NEW x \in B PROVE x \in A
      OBVIOUS
    <3>2. <<x, others[x]>> \in {<<y, labels[y]>> : y \in A}
      BY <1>5
    <3>3. PICK y \in A : <<x, others[x]>> = <<y, labels[y]>>
      BY <3>2
    <3> QED BY <3>3
  <2>3. A = B
    BY <2>1, <2>2
  <2> QED BY <2>1, <2>3
<1> QED BY <1>1, <1>3, <1>4, <1>5

\* The filter divides the samples of a vector by whether they meet another's.
LEMMA FilteredCells ==
    ASSUME NEW matching, NEW vector, NEW L \in Nat, DOMAIN vector = 1..L, NEW against,
           NEW wantPresent \in BOOLEAN
    PROVE  \A c : c \in Cells(Filtered(matching, vector, against, wantPresent)) <=>
                    c \in Cells(vector) /\ (Meets(matching, c, Cells(against)) = wantPresent)
<1> DEFINE sig(s) == MatchSignature(matching, s.labels)
           present(key, n) == \E i \in DOMAIN against :
             sig(against[i]) = key /\ n \in DOMAIN against[i].values /\ against[i].values[n] # NaN
           valueAt(s, n) == IF present(sig(s), n) = wantPresent THEN s.values[n] ELSE NaN
           part == [i \in DOMAIN vector |->
                     [labels |-> vector[i].labels,
                      values |-> [n \in DOMAIN vector[i].values |-> valueAt(vector[i], n)]]]
<1>1. Filtered(matching, vector, against, wantPresent) = Kept(part)
  BY DEF Filtered
<1>2. /\ DOMAIN part = 1..L
      /\ \A i \in 1..L : /\ part[i].labels = vector[i].labels
                         /\ DOMAIN part[i].values = DOMAIN vector[i].values
                         /\ \A n \in DOMAIN vector[i].values :
                               part[i].values[n] = valueAt(vector[i], n)
  <2> HIDE DEF valueAt
  <2> QED OBVIOUS
<1>3. \A i, n : present(sig(vector[i]), n) <=> Meets(matching, CellAt(vector, i, n), Cells(against))
  <2>1. SUFFICES ASSUME NEW i, NEW n
                 PROVE  present(sig(vector[i]), n)
                          <=> Meets(matching, CellAt(vector, i, n), Cells(against))
    OBVIOUS
  <2> DEFINE c == CellAt(vector, i, n)
  <2>2. c.labels = vector[i].labels /\ c.step = n
    BY DEF CellAt
  <2> HIDE DEF c
  <2>3. ASSUME present(sig(vector[i]), n) PROVE Meets(matching, c, Cells(against))
    <3>1. PICK j \in DOMAIN against :
            /\ MatchSignature(matching, against[j].labels) = MatchSignature(matching, vector[i].labels)
            /\ n \in DOMAIN against[j].values /\ against[j].values[n] # NaN
      BY <2>3
    <3> DEFINE d == CellAt(against, j, n)
    <3>2. d \in Cells(against)
      BY <3>1, CellsAre
    <3>3. d.labels = against[j].labels /\ d.step = n
      BY DEF CellAt
    <3> HIDE DEF d
    <3>4. Shared(matching, d.labels) = Shared(matching, c.labels)
      BY <2>2, <3>1, <3>3, SignaturesMatch
    <3> QED BY <2>2, <3>2, <3>3, <3>4 DEF Meets
  <2>4. ASSUME Meets(matching, c, Cells(against)) PROVE present(sig(vector[i]), n)
    <3>1. PICK d \in Cells(against) :
            d.step = c.step /\ Shared(matching, d.labels) = Shared(matching, c.labels)
      BY <2>4 DEF Meets
    <3>2. PICK j \in DOMAIN against : \E m \in DOMAIN against[j].values :
                 against[j].values[m] # NaN /\ d = CellAt(against, j, m)
      BY CellsAre
    <3>3. PICK m \in DOMAIN against[j].values :
                 against[j].values[m] # NaN /\ d = CellAt(against, j, m)
      BY <3>2
    <3>4. d.labels = against[j].labels /\ d.step = m
      BY <3>3 DEF CellAt
    <3>5. m = n
      BY <2>2, <3>1, <3>4
    <3>6. MatchSignature(matching, against[j].labels) = MatchSignature(matching, vector[i].labels)
      BY <2>2, <3>1, <3>4, SignaturesMatch
    <3> QED BY <3>3, <3>5, <3>6
  <2> QED BY <2>3, <2>4 DEF c
<1> DEFINE Wanted(i, n) == present(sig(vector[i]), n) = wantPresent
<1>4. \A i \in 1..L : \A n \in DOMAIN vector[i].values :
        part[i].values[n] = IF Wanted(i, n) THEN vector[i].values[n] ELSE NaN
  BY <1>2
<1>5. \A i, n : Wanted(i, n) <=> (Meets(matching, CellAt(vector, i, n), Cells(against)) = wantPresent)
  <2>1. \A c : Meets(matching, c, Cells(against)) \in BOOLEAN
    BY DEF Meets
  <2> QED BY <1>3, <2>1
<1> HIDE DEF part, Wanted
<1>6. \A n : \A i \in 1..L :
        Wanted(i, n) /\ n \in DOMAIN vector[i].values => CellAt(part, i, n) = CellAt(vector, i, n)
  BY <1>2, <1>4 DEF CellAt
<1>7. ASSUME NEW c \in Cells(part)
      PROVE  c \in Cells(vector) /\ (Meets(matching, c, Cells(against)) = wantPresent)
  <2>1. PICK i \in 1..L : \E n \in DOMAIN part[i].values :
               part[i].values[n] # NaN /\ c = CellAt(part, i, n)
    BY <1>2, <1>7, CellsAre
  <2>2. PICK n \in DOMAIN part[i].values : part[i].values[n] # NaN /\ c = CellAt(part, i, n)
    BY <2>1
  <2>3. n \in DOMAIN vector[i].values /\ Wanted(i, n) /\ vector[i].values[n] # NaN
    BY <1>2, <1>4, <2>2
  <2>4. c = CellAt(vector, i, n)
    BY <1>6, <2>2, <2>3
  <2>5. c \in Cells(vector)
    BY <2>3, <2>4, CellsAre
  <2> QED BY <1>5, <2>3, <2>4, <2>5
<1>8. ASSUME NEW c \in Cells(vector), Meets(matching, c, Cells(against)) = wantPresent
      PROVE  c \in Cells(part)
  <2>1. PICK i \in 1..L : \E n \in DOMAIN vector[i].values :
               vector[i].values[n] # NaN /\ c = CellAt(vector, i, n)
    BY <1>8, CellsAre
  <2>2. PICK n \in DOMAIN vector[i].values : vector[i].values[n] # NaN /\ c = CellAt(vector, i, n)
    BY <2>1
  <2>3. Wanted(i, n)
    BY <1>5, <1>8, <2>2
  <2>4. part[i].values[n] # NaN /\ n \in DOMAIN part[i].values /\ c = CellAt(part, i, n)
    BY <1>2, <1>4, <1>6, <2>2, <2>3
  <2> QED BY <1>2, <2>4, CellsAre
<1>9. Cells(Kept(part)) = Cells(part)
  BY <1>2, KeptKeepsCells
<1> QED BY <1>1, <1>7, <1>8, <1>9

\* The samples of two vectors, one behind the other.
LEMMA CellsTogether ==
    ASSUME NEW R, NEW left \in Seq(R), NEW right \in Seq(R)
    PROVE  Cells(left \o right) = Cells(left) \cup Cells(right)
<1> DEFINE both == left \o right
           m == Len(left)
           n == Len(right)
<1>1. m \in Nat /\ n \in Nat /\ DOMAIN left = 1..m /\ DOMAIN right = 1..n
  OBVIOUS
<1>2. /\ DOMAIN both = 1..(m + n)
      /\ \A i \in 1..m : both[i] = left[i]
      /\ \A i \in 1..(m + n) : i > m => both[i] = right[i - m]
  BY Appended
<1> HIDE DEF both, m, n
<1>3. \A i \in 1..m : i \in DOMAIN both
  BY <1>1, <1>2
<1>4. \A i \in 1..n : m + i \in DOMAIN both /\ both[m + i] = right[i]
  <2>1. SUFFICES ASSUME NEW i \in 1..n PROVE m + i \in DOMAIN both /\ both[m + i] = right[i]
    OBVIOUS
  <2>2. m + i \in 1..(m + n) /\ m + i > m /\ (m + i) - m = i
    BY <1>1
  <2> QED BY <1>2, <2>2
<1>5. \A i \in DOMAIN both : (i \in 1..m /\ both[i] = left[i]) \/ (i - m \in 1..n /\ both[i] = right[i - m])
  <2>1. SUFFICES ASSUME NEW i \in 1..(m + n)
                 PROVE  (i \in 1..m /\ both[i] = left[i]) \/ (i - m \in 1..n /\ both[i] = right[i - m])
    BY <1>2
  <2>2. CASE i <= m
    <3>1. i \in 1..m
      BY <1>1, <2>2
    <3> QED BY <1>2, <3>1
  <2>3. CASE ~ i <= m
    <3>1. i > m /\ i - m \in 1..n
      BY <1>1, <2>3
    <3> QED BY <1>2, <3>1
  <2> QED BY <2>2, <2>3
<1>6. \A u, v, i, j, k : u[i] = v[j] => CellAt(u, i, k) = CellAt(v, j, k)
  BY DEF CellAt
<1>7. ASSUME NEW c \in Cells(both) PROVE c \in Cells(left) \cup Cells(right)
  <2>1. PICK i \in DOMAIN both : \E k \in DOMAIN both[i].values :
               both[i].values[k] # NaN /\ c = CellAt(both, i, k)
    BY <1>7, CellsAre
  <2>2. CASE i \in 1..m /\ both[i] = left[i]
    <3>1. c \in Cells(left)
      BY <1>1, <1>6, <2>1, <2>2, CellsAre
    <3> QED BY <3>1
  <2>3. CASE i - m \in 1..n /\ both[i] = right[i - m]
    <3>1. c \in Cells(right)
      BY <1>1, <1>6, <2>1, <2>3, CellsAre
    <3> QED BY <3>1
  <2> QED BY <1>5, <2>2, <2>3
<1>8. ASSUME NEW c \in Cells(left) PROVE c \in Cells(both)
  <2>1. PICK i \in 1..m : \E k \in DOMAIN left[i].values :
               left[i].values[k] # NaN /\ c = CellAt(left, i, k)
    BY <1>1, <1>8, CellsAre
  <2>2. both[i] = left[i] /\ i \in DOMAIN both
    BY <1>2, <1>3
  <2> QED BY <1>6, <2>1, <2>2, CellsAre
<1>9. ASSUME NEW c \in Cells(right) PROVE c \in Cells(both)
  <2>1. PICK i \in 1..n : \E k \in DOMAIN right[i].values :
               right[i].values[k] # NaN /\ c = CellAt(right, i, k)
    BY <1>1, <1>9, CellsAre
  <2>2. both[m + i] = right[i] /\ m + i \in DOMAIN both
    BY <1>4
  <2> QED BY <1>6, <2>1, <2>2, CellsAre
<1> QED BY <1>7, <1>8, <1>9 DEF both

\* and, unless and or work sample by sample, on the labels they match by.
THEOREM SetOperatorsBySample ==
    ASSUME NEW expr, expr.op \in {"and", "unless", "or"},
           NEW R, NEW lhs \in Seq(R), NEW rhs \in Seq(R)
    PROVE  Cells(EvalSetOp(expr, lhs, rhs).series) = BySample(expr, Cells(lhs), Cells(rhs))
<1>1. /\ Len(lhs) \in Nat /\ DOMAIN lhs = 1..Len(lhs)
      /\ Len(rhs) \in Nat /\ DOMAIN rhs = 1..Len(rhs)
  OBVIOUS
<1>2. \A c, others : Meets(expr.matching, c, others) \in BOOLEAN
  BY DEF Meets
<1>3. CASE expr.op = "and"
  <2>1. EvalSetOp(expr, lhs, rhs).series = Filtered(expr.matching, lhs, rhs, TRUE)
    BY <1>3 DEF EvalSetOp, Vector
  <2>2. \A c : c \in Cells(Filtered(expr.matching, lhs, rhs, TRUE)) <=>
                 c \in Cells(lhs) /\ Meets(expr.matching, c, Cells(rhs))
    BY <1>1, <1>2, FilteredCells
  <2>3. BySample(expr, Cells(lhs), Cells(rhs)) =
          {c \in Cells(lhs) : Meets(expr.matching, c, Cells(rhs))}
    BY <1>3 DEF BySample
  <2> QED BY <2>1, <2>2, <2>3
<1>4. CASE expr.op = "unless"
  <2>1. EvalSetOp(expr, lhs, rhs).series = Filtered(expr.matching, lhs, rhs, FALSE)
    BY <1>4 DEF EvalSetOp, Vector
  <2>2. \A c : c \in Cells(Filtered(expr.matching, lhs, rhs, FALSE)) <=>
                 c \in Cells(lhs) /\ ~Meets(expr.matching, c, Cells(rhs))
    BY <1>1, <1>2, FilteredCells
  <2>3. BySample(expr, Cells(lhs), Cells(rhs)) =
          {c \in Cells(lhs) : ~Meets(expr.matching, c, Cells(rhs))}
    BY <1>4 DEF BySample
  <2> QED BY <2>1, <2>2, <2>3
<1>5. CASE expr.op = "or"
  <2> DEFINE rest == Filtered(expr.matching, rhs, lhs, FALSE)
  <2>1. EvalSetOp(expr, lhs, rhs).series = lhs \o rest
    BY <1>5 DEF EvalSetOp, Vector
  <2>2. \A c : c \in Cells(rest) <=> c \in Cells(rhs) /\ ~Meets(expr.matching, c, Cells(lhs))
    BY <1>1, <1>2, FilteredCells
  <2>3. \E S : lhs \in Seq(S) /\ rest \in Seq(S)
    <3>1. PICK part : rest = Kept(part) /\ DOMAIN part = DOMAIN rhs
      <4> DEFINE sig(s) == MatchSignature(expr.matching, s.labels)
                 present(key, n) == \E i \in DOMAIN lhs :
                   sig(lhs[i]) = key /\ n \in DOMAIN lhs[i].values /\ lhs[i].values[n] # NaN
                 valueAt(s, n) == IF present(sig(s), n) = FALSE THEN s.values[n] ELSE NaN
                 whole == [i \in DOMAIN rhs |->
                            [labels |-> rhs[i].labels,
                             values |-> [n \in DOMAIN rhs[i].values |-> valueAt(rhs[i], n)]]]
      <4>1. rest = Kept(whole)
        BY DEF Filtered
      <4>2. DOMAIN whole = DOMAIN rhs
        OBVIOUS
      <4> HIDE DEF whole, rest
      <4> QED BY <4>1, <4>2
    <3>2. rest \in Seq(Members(part))
      BY <1>1, <3>1, KeptKeepsCells
    <3> HIDE DEF rest
    <3>3. lhs \in Seq(R \cup Members(part)) /\ rest \in Seq(R \cup Members(part))
      BY <3>2
    <3> QED BY <3>3
  <2> HIDE DEF rest
  <2>4. Cells(lhs \o rest) = Cells(lhs) \cup Cells(rest)
    BY <2>3, CellsTogether
  <2>5. BySample(expr, Cells(lhs), Cells(rhs)) =
          Cells(lhs) \cup {d \in Cells(rhs) : ~Meets(expr.matching, d, Cells(lhs))}
    BY <1>5 DEF BySample
  <2> QED BY <2>1, <2>2, <2>4, <2>5
<1> QED BY <1>3, <1>4, <1>5

-----------------------------------------------------------------------------
(***************************************************************************)
(* The evaluator: every value it makes that is a vector is a sequence of   *)
(* series, whatever it is made from.                                       *)
(***************************************************************************)
Fits(value) == value.kind = "vector" => value.series \in Seq(Members(value.series))

\* A list of things is a sequence.
LEMMA ListIs ==
    ASSUME NEW n \in Nat, NEW s, s = [i \in 1..n |-> s[i]]
    PROVE  s \in Seq(Members(s)) /\ DOMAIN s = 1..n
<1>1. DOMAIN s = 1..n
  OBVIOUS
<1>2. \A i \in 1..n : s[i] \in Members(s)
  BY <1>1 DEF Members
<1>3. s \in [1..n -> Members(s)]
  BY <1>2
<1> QED BY <1>1, <1>3

\* Some indexes of a list are finitely many.
LEMMA SomeIndexes ==
    ASSUME NEW n \in Nat, NEW K, K \subseteq 1..n
    PROVE  K \in SUBSET Nat /\ IsFiniteSet(K) /\ Cardinality(K) \in Nat
<1>0. IsFiniteSet(1..n)
  BY FS_Interval
<1>1. IsFiniteSet(K)
  BY <1>0, FS_Subset
<1>2. Cardinality(K) \in Nat
  BY <1>1, FS_CardinalityType
<1> QED BY <1>1, <1>2

\* A vector of listed series fits,
LEMMA VectorFits ==
    ASSUME NEW n \in Nat, NEW s, s = [i \in 1..n |-> s[i]]
    PROVE  Fits(Vector(s))
<1>1. s \in Seq(Members(s))
  BY ListIs
<1> QED BY <1>1 DEF Fits, Vector

\* also when the series without a value are dropped,
LEMMA KeptFits ==
    ASSUME NEW n \in Nat, NEW part, DOMAIN part = 1..n
    PROVE  Fits(Vector(Kept(part)))
<1> DEFINE K == {i \in DOMAIN part : IsPresent(part[i])}
           s == Kept(part)
<1>1. Cardinality(K) \in Nat
  BY SomeIndexes
<1>2. s = [i \in 1..Cardinality(K) |-> part[Nth(K, i)]]
  BY DEF Kept, ElementsAt
<1> HIDE DEF K, s
<1>3. s = [i \in 1..Cardinality(K) |-> s[i]]
  BY <1>2
<1>4. Fits(Vector(s))
  BY <1>1, <1>3, VectorFits
<1> QED BY <1>4 DEF s

\* an error fits,
LEMMA ThrownFits == Fits(Thrown)
  BY DEF Fits, Thrown

\* and so does a number per step.
LEMMA ScalarFits == \A values : Fits(Scalar(values))
  BY DEF Fits, Scalar

\* The domain of the series of a value that fits.
LEMMA SeriesOf ==
    ASSUME NEW value, Fits(value), value.kind = "vector"
    PROVE  /\ value.series \in Seq(Members(value.series))
           /\ DOMAIN value.series = 1..Len(value.series) /\ Len(value.series) \in Nat
<1>1. value.series \in Seq(Members(value.series))
  BY DEF Fits
<1> QED BY <1>1

\* The result of an operation on a vector is a vector.
LEMMA ComputedFits ==
    ASSUME NEW expr, NEW n \in Nat, NEW vector, DOMAIN vector = 1..n, NEW values
    PROVE  Fits(Computed(expr, vector, values))
<1> DEFINE filters == expr.op \in Comparisons /\ ~expr.bool
           any(i) == \E m \in DOMAIN values[i] : filters => values[i][m] # NaN
           valueAt(i, m) == IF m \in DOMAIN values[i] THEN values[i][m] ELSE NaN
           K == {i \in DOMAIN vector : any(i)}
           kept == InOrder(K)
           s == [k \in DOMAIN kept |->
                  [labels |-> ResultLabels(expr, vector[kept[k]].labels),
                   values |-> [m \in DOMAIN vector[kept[k]].values |-> valueAt(kept[k], m)]]]
<1>1. Computed(expr, vector, values) = Vector(s)
  BY DEF Computed
<1>2. Cardinality(K) \in Nat /\ DOMAIN kept = 1..Cardinality(K)
  <2>1. K \subseteq 1..n
    OBVIOUS
  <2> HIDE DEF K
  <2> QED BY <2>1, SomeIndexes DEF InOrder
<1>3. s = [k \in DOMAIN kept |-> s[k]]
  <2> HIDE DEF kept, valueAt
  <2> QED OBVIOUS
<1> HIDE DEF s, kept, K
<1> QED BY <1>1, <1>2, <1>3, VectorFits

\* topk and bottomk give vectors,
LEMMA TopKFits ==
    ASSUME NEW agg, NEW n \in Nat, NEW vector, DOMAIN vector = 1..n, NEW ks
    PROVE  Fits(TopK(agg, vector, ks))
<1> DEFINE comesBefore(i, j, m) ==
             LET a == vector[i].values[m] b == vector[j].values[m]
             IN \/ IF agg.op = "topk" THEN Less(b, a) ELSE Less(a, b)
                \/ a = b /\ i < j
           rivals(j, m) == {i \in DOMAIN vector :
             /\ vector[i].values[m] # NaN
             /\ GroupLabels(agg, vector[i].labels) = GroupLabels(agg, vector[j].labels)
             /\ comesBefore(i, j, m)}
           keeps(j, m) == vector[j].values[m] # NaN /\ Less(Num(Cardinality(rivals(j, m))), Truncated(ks[m]))
           part == [j \in DOMAIN vector |->
             [labels |-> vector[j].labels,
              values |-> [m \in DOMAIN vector[j].values |->
                            IF keeps(j, m) THEN vector[j].values[m] ELSE NaN]]]
<1>1. TopK(agg, vector, ks) = Vector(Kept(part))
  BY DEF TopK
<1>2. DOMAIN part = 1..n
  OBVIOUS
<1> HIDE DEF part
<1> QED BY <1>1, <1>2, KeptFits

\* and so do the aggregations that make groups.
LEMMA GroupedFits ==
    ASSUME NEW agg, NEW n \in Nat, NEW vector, DOMAIN vector = 1..n, NEW param, NEW times
    PROVE  Fits(Grouped(agg, vector, param, times))
<1> DEFINE keys == [i \in DOMAIN vector |-> GroupLabels(agg, vector[i].labels)]
           groups == Distinct(keys)
           members(g) == SelectSeq(vector, LAMBDA s : GroupLabels(agg, s.labels) = groups[g])
           valueAt(g, m) ==
             LET values == ValuesAt(members(g), m)
             IN IF values = <<>> THEN NaN
                ELSE Aggregate(agg.op, values, IF agg.op = "quantile" THEN param.values[m] ELSE NaN)
           part == [g \in DOMAIN groups |->
             [labels |-> groups[g], values |-> [m \in DOMAIN times |-> valueAt(g, m)]]]
<1>1. Grouped(agg, vector, param, times) = Vector(Kept(part))
  BY DEF Grouped
<1>2. DOMAIN part = DOMAIN groups
  <2> HIDE DEF groups, valueAt
  <2> QED OBVIOUS
<1>3. DOMAIN keys = 1..n
  OBVIOUS
<1> HIDE DEF part, keys
<1>4. groups \in Seq(Members(keys))
  BY <1>3, DistinctIs
<1>5. Len(groups) \in Nat /\ DOMAIN groups = 1..Len(groups)
  BY <1>4
<1> QED BY <1>1, <1>2, <1>5, KeptFits

\* An aggregation fits.
LEMMA EvalAggregationFits ==
    ASSUME NEW agg, NEW input, Fits(input), NEW param, NEW times
    PROVE  Fits(EvalAggregation(agg, input, param, times))
<1>1. CASE input.kind = "vector"
  <2> DEFINE vector == input.series
  <2>1. Len(vector) \in Nat /\ DOMAIN vector = 1..Len(vector)
    BY <1>1, SeriesOf
  <2> HIDE DEF vector
  <2>2. Fits(TopK(agg, vector, param.values)) /\ Fits(Grouped(agg, vector, param, times))
    BY <2>1, TopKFits, GroupedFits
  <2>3. \/ EvalAggregation(agg, input, param, times) = Thrown
        \/ EvalAggregation(agg, input, param, times) = TopK(agg, vector, param.values)
        \/ EvalAggregation(agg, input, param, times) = Grouped(agg, vector, param, times)
    BY DEF EvalAggregation, vector
  <2> QED BY <2>2, <2>3, ThrownFits
<1>2. CASE input.kind # "vector"
  <2>1. EvalAggregation(agg, input, param, times) = Thrown
    BY <1>2 DEF EvalAggregation
  <2> QED BY <2>1, ThrownFits
<1> QED BY <1>1, <1>2

\* What a set operator keeps of a side is a list of series.
LEMMA FilteredFits ==
    ASSUME NEW matching, NEW n \in Nat, NEW vector, DOMAIN vector = 1..n, NEW against, NEW wanted
    PROVE  Fits(Vector(Filtered(matching, vector, against, wanted)))
<1> DEFINE sig(s) == MatchSignature(matching, s.labels)
           present(key, m) == \E i \in DOMAIN against :
             sig(against[i]) = key /\ m \in DOMAIN against[i].values /\ against[i].values[m] # NaN
           valueAt(s, m) == IF present(sig(s), m) = wanted THEN s.values[m] ELSE NaN
           part == [i \in DOMAIN vector |->
                     [labels |-> vector[i].labels,
                      values |-> [m \in DOMAIN vector[i].values |-> valueAt(vector[i], m)]]]
<1>1. Filtered(matching, vector, against, wanted) = Kept(part)
  BY DEF Filtered
<1>2. DOMAIN part = 1..n
  <2> HIDE DEF valueAt
  <2> QED OBVIOUS
<1> HIDE DEF part
<1> QED BY <1>1, <1>2, KeptFits

\* The set operators give vectors.
LEMMA EvalSetOpFits ==
    ASSUME NEW expr, expr.op \in SetOperators,
           NEW lhs, lhs \in Seq(Members(lhs)), NEW rhs, rhs \in Seq(Members(rhs))
    PROVE  Fits(EvalSetOp(expr, lhs, rhs))
<1>1. /\ Len(lhs) \in Nat /\ DOMAIN lhs = 1..Len(lhs)
      /\ Len(rhs) \in Nat /\ DOMAIN rhs = 1..Len(rhs)
  OBVIOUS
<1>2. CASE expr.op = "or"
  <2> DEFINE rest == Filtered(expr.matching, rhs, lhs, FALSE)
             both == lhs \o rest
             R == Members(lhs) \cup Members(rest)
  <2>1. Fits(Vector(rest))
    BY <1>1, FilteredFits
  <2>2. rest \in Seq(Members(rest))
    BY <2>1 DEF Fits, Vector
  <2>3. EvalSetOp(expr, lhs, rhs) = Vector(both)
    BY <1>2 DEF EvalSetOp
  <2> HIDE DEF rest
  <2>4. lhs \in Seq(R) /\ rest \in Seq(R)
    BY <2>2
  <2> HIDE DEF R
  <2>5. both \in Seq(R)
    BY <2>4
  <2> HIDE DEF both
  <2>6. both = [i \in 1..Len(both) |-> both[i]] /\ Len(both) \in Nat
    BY <2>5
  <2> QED BY <2>3, <2>6, VectorFits
<1>3. CASE expr.op # "or"
  <2>1. expr.op \in {"and", "unless"}
    BY <1>3 DEF SetOperators
  <2>2. \/ EvalSetOp(expr, lhs, rhs) = Vector(Filtered(expr.matching, lhs, rhs, TRUE))
        \/ EvalSetOp(expr, lhs, rhs) = Vector(Filtered(expr.matching, lhs, rhs, FALSE))
    BY <2>1 DEF EvalSetOp
  <2> QED BY <1>1, <2>2, FilteredFits
<1> QED BY <1>2, <1>3

\* A binary operation on values that fit gives one.
LEMMA EvalBinaryFits ==
    ASSUME NEW expr, NEW lhs, Fits(lhs), NEW rhs, Fits(rhs)
    PROVE  Fits(EvalBinary(expr, lhs, rhs))
<1> DEFINE value == EvalBinary(expr, lhs, rhs)
<1>1. CASE lhs.kind = "vector" /\ rhs.kind = "vector" /\ expr.op \in SetOperators
  <2>1. value = EvalSetOp(expr, lhs.series, rhs.series)
    BY <1>1 DEF EvalBinary
  <2>2. lhs.series \in Seq(Members(lhs.series)) /\ rhs.series \in Seq(Members(rhs.series))
    BY <1>1 DEF Fits
  <2> HIDE DEF value
  <2> QED BY <1>1, <2>1, <2>2, EvalSetOpFits DEF value
<1>2. CASE lhs.kind = "vector" /\ rhs.kind = "vector" /\ expr.op \notin SetOperators
  <2>1. value = VectorVectorOp(expr, lhs.series, rhs.series)
    BY <1>2 DEF EvalBinary
  <2>2. Len(lhs.series) \in Nat /\ DOMAIN lhs.series = 1..Len(lhs.series)
    BY <1>2, SeriesOf
  <2>3. value = Thrown \/ \E values : value = Computed(expr, lhs.series, values)
    BY <2>1 DEF VectorVectorOp
  <2> HIDE DEF value
  <2> QED BY <2>2, <2>3, ComputedFits, ThrownFits DEF value
<1>3. CASE lhs.kind = "vector" /\ rhs.kind = "scalar"
  <2>1. value = Thrown \/ value = VectorScalarOp(expr, lhs.series, rhs.values, FALSE)
    BY <1>3 DEF EvalBinary
  <2>2. Len(lhs.series) \in Nat /\ DOMAIN lhs.series = 1..Len(lhs.series)
    BY <1>3, SeriesOf
  <2>3. value = Thrown \/ \E values : value = Computed(expr, lhs.series, values)
    BY <2>1 DEF VectorScalarOp
  <2> HIDE DEF value
  <2> QED BY <2>2, <2>3, ComputedFits, ThrownFits DEF value
<1>4. CASE lhs.kind = "scalar" /\ rhs.kind = "vector"
  <2>1. value = Thrown \/ value = VectorScalarOp(expr, rhs.series, lhs.values, TRUE)
    BY <1>4 DEF EvalBinary
  <2>2. Len(rhs.series) \in Nat /\ DOMAIN rhs.series = 1..Len(rhs.series)
    BY <1>4, SeriesOf
  <2>3. value = Thrown \/ \E values : value = Computed(expr, rhs.series, values)
    BY <2>1 DEF VectorScalarOp
  <2> HIDE DEF value
  <2> QED BY <2>2, <2>3, ComputedFits, ThrownFits DEF value
<1>5. CASE lhs.kind = "scalar" /\ rhs.kind = "scalar"
  <2>1. value = Thrown \/ \E values : value = Scalar(values)
    BY <1>5 DEF EvalBinary
  <2> HIDE DEF value
  <2> QED BY <2>1, ThrownFits, ScalarFits DEF value
<1>6. CASE lhs.kind \notin {"vector", "scalar"} \/ rhs.kind \notin {"vector", "scalar"}
  <2>1. value = Thrown
    BY <1>6 DEF EvalBinary
  <2> HIDE DEF value
  <2> QED BY <2>1, ThrownFits DEF value
<1> QED BY <1>1, <1>2, <1>3, <1>4, <1>5, <1>6

\* So does a sign.
LEMMA EvalUnaryFits ==
    ASSUME NEW op, NEW value, Fits(value)
    PROVE  Fits(EvalUnary(op, value))
<1> DEFINE vector == value.series
           mapped == [i \in DOMAIN vector |->
             [labels |-> WithoutName(vector[i].labels),
              values |-> [n \in DOMAIN vector[i].values |->
                            IF vector[i].values[n] = NaN THEN NaN ELSE Negated(vector[i].values[n])]]]
<1>1. \/ EvalUnary(op, value) = value
      \/ \E values : EvalUnary(op, value) = Scalar(values)
      \/ value.kind = "vector" /\ EvalUnary(op, value) = Vector(mapped)
      \/ EvalUnary(op, value) = Thrown
  BY DEF EvalUnary, MapValues
<1>2. ASSUME value.kind = "vector" PROVE Fits(Vector(mapped))
  <2>1. Len(vector) \in Nat /\ DOMAIN vector = 1..Len(vector)
    BY <1>2, SeriesOf
  <2>2. mapped = [i \in DOMAIN vector |-> mapped[i]]
    OBVIOUS
  <2> HIDE DEF vector, mapped
  <2> QED BY <2>1, <2>2, VectorFits
<1> HIDE DEF mapped
<1> QED BY <1>1, <1>2, ThrownFits, ScalarFits

\* What the store answers are rows.
IsRows(data) == \E n \in Nat : DOMAIN data = 1..n

\* An instant selector gives a vector.
LEMMA SelectorFits ==
    ASSUME NEW selector, NEW raw, IsRows(raw), NEW times
    PROVE  Fits(EvalInstantSelector(selector, raw, times))
<1> DEFINE part == [i \in DOMAIN raw |->
             [labels |-> raw[i].labels, values |-> LatestOf(selector, raw[i].points, times)]]
<1>1. EvalInstantSelector(selector, raw, times) = Vector(Kept(part))
  BY DEF EvalInstantSelector
<1>2. PICK n \in Nat : DOMAIN part = 1..n
  BY DEF IsRows
<1> HIDE DEF part
<1> QED BY <1>1, <1>2, KeptFits

\* The calls, one kind after the other: the range functions,
LEMMA RangeCallFits ==
    ASSUME NEW func, NEW exprs, NEW data, NEW times,
           Len(exprs) = 1 /\ IsBareRange(exprs[1]) => IsRows(data[RequestOf(exprs[1], times)])
    PROVE  Fits(RangeCall(func, exprs, data, times))
<1> DEFINE selector == exprs[1]
           raw == data[RequestOf(selector, times)]
           values(points) ==
             LET windows == WindowsOf(selector, points, times)
             IN [n \in DOMAIN times |->
                   RangeFunc(func, windows[n], WindowStart(selector, times[n]),
                             WindowEnd(selector, times[n]))]
           part == [i \in DOMAIN raw |->
             [labels |-> WithoutName(raw[i].labels), values |-> values(raw[i].points)]]
           allowed == Len(exprs) = 1 /\ IsBareRange(exprs[1])
<1>1. RangeCall(func, exprs, data, times) = IF allowed THEN Vector(Kept(part)) ELSE Thrown
  BY DEF RangeCall, OrThrow, EvalRangeFunc
<1>2. DOMAIN part = DOMAIN raw
  <2> HIDE DEF raw, values
  <2> QED OBVIOUS
<1>3. allowed => IsRows(raw)
  OBVIOUS
<1> HIDE DEF part, allowed, raw
<1>4. CASE allowed
  <2>1. PICK n \in Nat : DOMAIN part = 1..n
    BY <1>2, <1>3, <1>4 DEF IsRows
  <2> QED BY <1>1, <1>4, <2>1, KeptFits
<1>5. CASE ~allowed
  BY <1>1, <1>5, ThrownFits
<1> QED BY <1>4, <1>5

\* quantile_over_time,
LEMMA QuantileOverTimeFits ==
    ASSUME NEW exprs, NEW args, NEW data, NEW times,
           Len(exprs) = 2 /\ IsBareRange(exprs[2]) => IsRows(data[RequestOf(exprs[2], times)])
    PROVE  Fits(QuantileOverTime(exprs, args, data, times))
<1> DEFINE selector == exprs[2]
           raw == data[RequestOf(selector, times)]
           values(points) ==
             LET windows == WindowsOf(selector, points, times)
             IN [n \in DOMAIN times |-> Quantile(args[1].values[n], WindowValues(windows[n]))]
           part == [i \in DOMAIN raw |->
             [labels |-> WithoutName(raw[i].labels), values |-> values(raw[i].points)]]
           allowed == Len(exprs) = 2 /\ args[1].kind = "scalar" /\ IsBareRange(exprs[2])
<1>1. QuantileOverTime(exprs, args, data, times) = IF allowed THEN Vector(Kept(part)) ELSE Thrown
  BY DEF QuantileOverTime, OrThrow, EvalRangeFunc
<1>2. DOMAIN part = DOMAIN raw
  <2> HIDE DEF raw, values
  <2> QED OBVIOUS
<1>3. allowed => IsRows(raw)
  OBVIOUS
<1> HIDE DEF part, allowed, raw
<1>4. CASE allowed
  <2>1. PICK n \in Nat : DOMAIN part = 1..n
    BY <1>2, <1>3, <1>4 DEF IsRows
  <2> QED BY <1>1, <1>4, <2>1, KeptFits
<1>5. CASE ~allowed
  BY <1>1, <1>5, ThrownFits
<1> QED BY <1>4, <1>5

\* What a call may take the vector of, its first argument.
First(args) == Len(args) # 0 /\ args[1].kind = "vector" => IsRows(args[1].series)

\* the functions of one value,
LEMMA MathCallFits ==
    ASSUME NEW func, NEW args, First(args)
    PROVE  Fits(MathCall(func, args))
<1> DEFINE vector == args[1].series
           mapped == [i \in DOMAIN vector |->
             [labels |-> WithoutName(vector[i].labels),
              values |-> [n \in DOMAIN vector[i].values |->
                            IF vector[i].values[n] = NaN THEN NaN
                            ELSE MathOf(func, vector[i].values[n])]]]
<1>1. MathCall(func, args) = IF TakesVector(args, 1) THEN Vector(mapped) ELSE Thrown
  BY DEF MathCall, OrThrow, MapValues
<1>2. mapped = [i \in DOMAIN vector |-> mapped[i]]
  <2> HIDE DEF vector
  <2> QED OBVIOUS
<1>3. TakesVector(args, 1) => IsRows(vector)
  BY DEF TakesVector, First
<1> HIDE DEF mapped, vector
<1> QED BY <1>1, <1>2, <1>3, VectorFits, ThrownFits DEF IsRows

\* round,
LEMMA RoundCallFits ==
    ASSUME NEW args, First(args)
    PROVE  Fits(RoundCall(args))
<1> DEFINE vector == args[1].series
           nearest(n) == IF Len(args) = 2 THEN args[2].values[n] ELSE Num(1)
           mapped == [i \in DOMAIN vector |->
             [labels |-> WithoutName(vector[i].labels),
              values |-> [n \in DOMAIN vector[i].values |->
                            IF vector[i].values[n] = NaN THEN NaN
                            ELSE Times(Rounded(Over(vector[i].values[n], nearest(n))), nearest(n))]]]
           allowed == (TakesVector(args, 1) \/ TakesVector(args, 2)) /\ TakesScalars(args, 2)
<1>1. RoundCall(args) = IF allowed THEN Vector(mapped) ELSE Thrown
  BY DEF RoundCall, OrThrow, MapValues
<1>2. mapped = [i \in DOMAIN vector |-> mapped[i]]
  <2> HIDE DEF vector, nearest
  <2> QED OBVIOUS
<1>3. allowed => IsRows(vector)
  BY DEF TakesVector, First
<1> HIDE DEF mapped, vector, allowed
<1> QED BY <1>1, <1>2, <1>3, VectorFits, ThrownFits DEF IsRows

\* the clamps,
LEMMA ClampCallFits ==
    ASSUME NEW func, NEW args, First(args)
    PROVE  Fits(ClampCall(func, args))
<1> DEFINE vector == args[1].series
           mapped == [i \in DOMAIN vector |->
             [labels |-> WithoutName(vector[i].labels),
              values |-> [n \in DOMAIN vector[i].values |->
                            IF vector[i].values[n] = NaN THEN NaN
                            ELSE Clamped(func, vector[i].values[n], args[2].values[n],
                                         Last(args).values[n])]]]
           allowed == TakesVector(args, IF func = "clamp" THEN 3 ELSE 2) /\ TakesScalars(args, 2)
<1>1. ClampCall(func, args) = IF allowed THEN Vector(mapped) ELSE Thrown
  BY DEF ClampCall, OrThrow, MapValues
<1>2. mapped = [i \in DOMAIN vector |-> mapped[i]]
  <2> HIDE DEF vector
  <2> QED OBVIOUS
<1>3. allowed => IsRows(vector)
  BY DEF TakesVector, First
<1> HIDE DEF mapped, vector, allowed
<1> QED BY <1>1, <1>2, <1>3, VectorFits, ThrownFits DEF IsRows

\* histogram_quantile,
LEMMA HistogramFits ==
    ASSUME NEW phis, NEW vector, IsRows(vector), NEW times
    PROVE  Fits(HistogramQuantile(phis, vector, times))
<1> DEFINE bound(s) == BoundOf[s.labels["le"]]
           IsUsable(s) == "le" \in DOMAIN s.labels /\ bound(s) # NaN
           K == {i \in DOMAIN vector : IsUsable(vector[i])}
           usable == ElementsAt(vector, K)
           group(s) == Restrict(s.labels, DOMAIN s.labels \ {"le", NameLabel})
           keys == [i \in DOMAIN usable |-> group(usable[i])]
           groups == Distinct(keys)
           counts(key, n) ==
             LET members == SelectSeq(usable, LAMBDA s : group(s) = key /\ s.values[n] # NaN)
             IN SortSeq([i \in DOMAIN members |-> [le |-> bound(members[i]), count |-> members[i].values[n]]],
                        LAMBDA a, b : Less(a.le, b.le))
           part == [g \in DOMAIN groups |->
             [labels |-> groups[g],
              values |-> [n \in DOMAIN times |-> BucketQuantile(phis[n], counts(groups[g], n))]]]
<1>1. HistogramQuantile(phis, vector, times) = Vector(Kept(part))
  BY DEF HistogramQuantile
<1>2. DOMAIN part = DOMAIN groups
  <2> HIDE DEF groups, counts
  <2> QED OBVIOUS
<1>3. PICK m \in Nat : DOMAIN vector = 1..m
  BY DEF IsRows
<1>4. Cardinality(K) \in Nat
  <2>1. K \subseteq 1..m
    BY <1>3
  <2> HIDE DEF K
  <2> QED BY <2>1, SomeIndexes
<1>5. DOMAIN usable = 1..Cardinality(K)
  <2> HIDE DEF K
  <2> QED BY DEF ElementsAt
<1>6. DOMAIN keys = 1..Cardinality(K)
  <2> HIDE DEF usable
  <2> QED BY <1>5
<1> HIDE DEF part, keys, K
<1>7. groups \in Seq(Members(keys))
  BY <1>4, <1>6, DistinctIs
<1>8. Len(groups) \in Nat /\ DOMAIN groups = 1..Len(groups)
  BY <1>7
<1> QED BY <1>1, <1>2, <1>8, KeptFits

\* and the rest.
LEMMA OthersFit ==
    /\ \A labels, values : Fits(Vector(<<[labels |-> labels, values |-> values]>>))
    /\ \A expr, vector, times : Fits(AbsentOf(expr, vector, times))
<1>1. ASSUME NEW labels, NEW values PROVE Fits(Vector(<<[labels |-> labels, values |-> values]>>))
  <2> DEFINE s == <<[labels |-> labels, values |-> values]>>
  <2>1. s = [i \in 1..1 |-> s[i]]
    OBVIOUS
  <2> HIDE DEF s
  <2>2. Fits(Vector(s))
    BY <2>1, VectorFits
  <2> QED BY <2>2 DEF s
<1>2. ASSUME NEW expr, NEW vector, NEW times PROVE Fits(AbsentOf(expr, vector, times))
  <2> DEFINE part == <<[labels |-> AbsentLabels(expr),
                        values |-> [n \in DOMAIN times |->
                                      IF ValuesAt(vector, n) = <<>> THEN Num(1) ELSE NaN]]>>
  <2>1. AbsentOf(expr, vector, times) = Vector(Kept(part))
    BY DEF AbsentOf
  <2>2. DOMAIN part = 1..1
    OBVIOUS
  <2> HIDE DEF part
  <2> QED BY <2>1, <2>2, KeptFits
<1> QED BY <1>1, <1>2

\* A call over arguments that fit gives a value that fits.
LEMMA EvalCallFits ==
    ASSUME NEW func, NEW exprs, IsSequence(exprs), NEW args, IsSequence(args), Len(args) = Len(exprs),
           \A i \in DOMAIN args : Fits(args[i]),
           NEW data, NEW times,
           \A i \in DOMAIN exprs : IsBareRange(exprs[i]) => IsRows(data[RequestOf(exprs[i], times)])
    PROVE  Fits(EvalCall(func, exprs, args, data, times))
<1> DEFINE value == EvalCall(func, exprs, args, data, times)
<1>1. \A k \in 1..Len(args) : k \in DOMAIN args /\ k \in DOMAIN exprs
  BY DEF IsSequence
<1>2. ASSUME NEW k \in 1..Len(args), args[k].kind = "vector" PROVE IsRows(args[k].series)
  <2>1. Fits(args[k])
    BY <1>1
  <2>2. DOMAIN args[k].series = 1..Len(args[k].series) /\ Len(args[k].series) \in Nat
    BY <1>2, <2>1, SeriesOf
  <2> QED BY <2>2 DEF IsRows
<1>3. Len(args) \in Nat /\ First(args)
  <2>1. Len(args) \in Nat
    BY DEF IsSequence
  <2>2. Len(args) # 0 => 1 \in 1..Len(args)
    BY <2>1
  <2> QED BY <1>2, <2>1, <2>2 DEF First
<1>4. \A k \in 1..Len(args) : IsBareRange(exprs[k]) => IsRows(data[RequestOf(exprs[k], times)])
  BY <1>1
<1>5. Fits(RangeCall(func, exprs, data, times)) /\ Fits(QuantileOverTime(exprs, args, data, times))
  <2>1. Len(exprs) = 1 => 1 \in 1..Len(args)
    BY <1>3
  <2>2. Len(exprs) = 2 => 2 \in 1..Len(args)
    BY <1>3
  <2> QED BY <1>4, <2>1, <2>2, RangeCallFits, QuantileOverTimeFits
<1>6. Fits(MathCall(func, args)) /\ Fits(RoundCall(args)) /\ Fits(ClampCall(func, args))
  BY <1>3, MathCallFits, RoundCallFits, ClampCallFits
<1>7. ASSUME Len(args) = 2, args[2].kind = "vector"
      PROVE  Fits(HistogramQuantile(args[1].values, args[2].series, times))
  <2>1. 2 \in 1..Len(args)
    BY <1>7
  <2>2. IsRows(args[2].series)
    BY <1>2, <1>7, <2>1
  <2> QED BY <2>2, HistogramFits
<1>8. Len(args) = 1 => Fits(args[1])
  BY <1>1
<1>9. \A vector : Fits(ScalarOf(vector, times))
  BY ScalarFits DEF ScalarOf
<1> DEFINE range == RangeCall(func, exprs, data, times)
           quantiles == QuantileOverTime(exprs, args, data, times)
           histogram == OrThrow(Len(args) = 2 /\ args[1].kind = "scalar" /\ args[2].kind = "vector",
                          HistogramQuantile(args[1].values, args[2].series, times))
           scalar == OrThrow(TakesVector(args, 1), ScalarOf(args[1].series, times))
           vector == OrThrow(Len(args) = 1 /\ TakesScalars(args, 1),
                       Vector(<<[labels |-> <<>>, values |-> args[1].values]>>))
           time == OrThrow(Len(args) = 0, Scalar([n \in DOMAIN times |-> Num(times[n])]))
           absent == OrThrow(TakesVector(args, 1), AbsentOf(exprs[1], args[1].series, times))
           sorted == OrThrow(TakesVector(args, 1), args[1])
<1>10. Fits(histogram)
  BY <1>7, ThrownFits DEF OrThrow
<1>11. Fits(scalar) /\ Fits(time)
  BY <1>9, ScalarFits, ThrownFits DEF OrThrow
<1>12. Fits(vector) /\ Fits(absent)
  BY OthersFit, ThrownFits DEF OrThrow
<1>13. Fits(sorted)
  BY <1>8, ThrownFits DEF OrThrow, TakesVector
<1>14. value = CASE func \in RangeFuncs -> range
                 [] func = "quantile_over_time" -> quantiles
                 [] func \in MathFuncs -> MathCall(func, args)
                 [] func = "round" -> RoundCall(args)
                 [] func \in {"clamp", "clamp_min", "clamp_max"} -> ClampCall(func, args)
                 [] func = "histogram_quantile" -> histogram
                 [] func = "scalar" -> scalar
                 [] func = "vector" -> vector
                 [] func = "time" -> time
                 [] func = "absent" -> absent
                 [] func \in {"sort", "sort_desc"} -> sorted
                 [] OTHER -> Thrown
  BY DEF EvalCall
<1> HIDE DEF value, range, quantiles, histogram, scalar, vector, time, absent, sorted
<1>15. value \in {range, quantiles, MathCall(func, args), RoundCall(args), ClampCall(func, args),
                  histogram, scalar, vector, time, absent, sorted, Thrown}
  BY <1>14
<1>16. Fits(value)
  BY <1>5, <1>6, <1>10, <1>11, <1>12, <1>13, <1>15, ThrownFits DEF range, quantiles
<1> QED BY <1>16 DEF value

\* An expression whose operands fit, and whose requests are answered with rows, fits.
LEMMA ValueOfFits ==
    ASSUME NEW expr, NEW value, NEW data, NEW times,
           \A operand \in Operands(expr) : Fits(value[operand]),
           expr.kind = "call" => IsSequence(expr.args),
           \A selector \in Operands(expr) \cup {expr} :
              selector.kind = "selector" => IsRows(data[RequestOf(selector, times)])
    PROVE  Fits(ValueOf(expr, value, data, times))
<1> DEFINE v == ValueOf(expr, value, data, times)
<1>1. CASE expr.kind = "call"
  <2> DEFINE exprs == expr.args
             args == [i \in DOMAIN exprs |-> value[exprs[i]]]
  <2>1. v = EvalCall(expr.func, exprs, args, data, times)
    BY <1>1 DEF ValueOf
  <2>2. \A i \in DOMAIN exprs : exprs[i] \in Operands(expr)
    BY <1>1 DEF Operands, Members
  <2>3. IsSequence(exprs)
    BY <1>1
  <2>4. \A i \in DOMAIN args : Fits(args[i])
    BY <2>2
  <2>5. \A i \in DOMAIN exprs : IsBareRange(exprs[i]) => IsRows(data[RequestOf(exprs[i], times)])
    BY <2>2 DEF IsBareRange
  <2>6. DOMAIN args = 1..Len(exprs) /\ args = [i \in 1..Len(exprs) |-> args[i]] /\ Len(exprs) \in Nat
    BY <2>3 DEF IsSequence
  <2> HIDE DEF args, exprs, v
  <2>7. args \in Seq(Members(args))
    BY <2>6, ListIs
  <2>8. IsSequence(args) /\ Len(args) = Len(exprs)
    BY <2>6, <2>7 DEF IsSequence
  <2>9. Fits(v)
    BY <2>1, <2>3, <2>4, <2>5, <2>8, EvalCallFits
  <2> QED BY <2>9 DEF v
<1>2. CASE expr.kind = "agg"
  <2>1. v = EvalAggregation(expr, value[expr.expr], value[expr.param], times)
    BY <1>2 DEF ValueOf
  <2>2. Fits(value[expr.expr])
    BY <1>2 DEF Operands
  <2> HIDE DEF v
  <2> QED BY <2>1, <2>2, EvalAggregationFits DEF v
<1>3. CASE expr.kind = "binary"
  <2>1. v = EvalBinary(expr, value[expr.lhs], value[expr.rhs])
    BY <1>3 DEF ValueOf
  <2>2. Fits(value[expr.lhs]) /\ Fits(value[expr.rhs])
    BY <1>3 DEF Operands
  <2> HIDE DEF v
  <2> QED BY <2>1, <2>2, EvalBinaryFits DEF v
<1>4. CASE expr.kind = "unary"
  <2>1. v = EvalUnary(expr.op, value[expr.expr])
    BY <1>4 DEF ValueOf
  <2>2. Fits(value[expr.expr])
    BY <1>4 DEF Operands
  <2> HIDE DEF v
  <2> QED BY <2>1, <2>2, EvalUnaryFits DEF v
<1>5. CASE expr.kind = "selector"
  <2>1. v = Thrown \/ v = EvalInstantSelector(expr, data[RequestOf(expr, times)], times)
    BY <1>5 DEF ValueOf
  <2>2. IsRows(data[RequestOf(expr, times)])
    BY <1>5
  <2> HIDE DEF v
  <2> QED BY <2>1, <2>2, SelectorFits, ThrownFits DEF v
<1>6. CASE expr.kind \notin {"call", "agg", "binary", "unary", "selector"}
  <2>1. v = Thrown \/ v = [kind |-> "string"] \/ \E values : v = Scalar(values)
    BY <1>6 DEF ValueOf
  <2>2. Fits([kind |-> "string"])
    BY DEF Fits
  <2> HIDE DEF v
  <2> QED BY <2>1, <2>2, ScalarFits, ThrownFits DEF v
<1> QED BY <1>1, <1>2, <1>3, <1>4, <1>5, <1>6

-----------------------------------------------------------------------------
(***************************************************************************)
(* The values of the parts of a question, by induction on the size of the  *)
(* expression: Values is a recursive function over a finite tree, so it    *)
(* exists, and each part has the value ValueOf makes of its operands'.     *)
(***************************************************************************)

\* The recursive function inside Values.
ValuesFcn(root, data, times) ==
    CHOOSE f : f = [e \in PartsOf(root) |-> ValueOf(e, f, data, times)]

\* Values is that function.
LEMMA ValuesDef == \A root, data, times : Values(root, data, times) = ValuesFcn(root, data, times)
  BY Zenon DEF Values, ValuesFcn

\* The value of an expression needs those of its operands only.
LEMMA OperandsSuffice ==
    ASSUME NEW expr, NEW f, NEW g, NEW data, NEW times,
           \A operand \in Operands(expr) : f[operand] = g[operand]
    PROVE  ValueOf(expr, f, data, times) = ValueOf(expr, g, data, times)
<1>1. CASE expr.kind = "call"
  <2> DEFINE args(h) == [i \in DOMAIN expr.args |-> h[expr.args[i]]]
  <2>1. \A i \in DOMAIN expr.args : expr.args[i] \in Operands(expr)
    BY <1>1 DEF Operands, Members
  <2>2. args(f) = args(g)
    BY <2>1
  <2>3. /\ ValueOf(expr, f, data, times) = EvalCall(expr.func, expr.args, args(f), data, times)
        /\ ValueOf(expr, g, data, times) = EvalCall(expr.func, expr.args, args(g), data, times)
    BY <1>1 DEF ValueOf
  <2> HIDE DEF args
  <2> QED BY <2>2, <2>3
<1>2. CASE expr.kind = "agg"
  <2>1. f[expr.expr] = g[expr.expr] /\ f[expr.param] = g[expr.param]
    BY <1>2 DEF Operands
  <2> QED BY <1>2, <2>1 DEF ValueOf
<1>3. CASE expr.kind = "binary"
  <2>1. f[expr.lhs] = g[expr.lhs] /\ f[expr.rhs] = g[expr.rhs]
    BY <1>3 DEF Operands
  <2> QED BY <1>3, <2>1 DEF ValueOf
<1>4. CASE expr.kind = "unary"
  <2>1. f[expr.expr] = g[expr.expr]
    BY <1>4 DEF Operands
  <2> QED BY <1>4, <2>1 DEF ValueOf
<1>5. CASE expr.kind \notin {"call", "agg", "binary", "unary"}
  BY <1>5 DEF ValueOf
<1> QED BY <1>1, <1>2, <1>3, <1>4, <1>5

\* How large an expression is.
Size(expr) == Cardinality(PartsOf(expr))

\* Operands are smaller than what they are operands of.
LEMMA Smaller ==
    ASSUME NEW q \in Questions, q.expr # Wrong, NEW e \in PartsOf(q.expr)
    PROVE  /\ Size(e) \in Nat /\ Size(e) # 0
           /\ \A operand \in Operands(e) : operand \in PartsOf(q.expr) /\ Size(operand) < Size(e)
<1>1. e \in PartsOf(e) /\ IsFiniteSet(PartsOf(e))
  BY ExpressionTrees
<1>2. Size(e) \in Nat /\ Size(e) # 0
  BY <1>1, FS_CardinalityType, FS_EmptySet DEF Size
<1>3. ASSUME NEW operand \in Operands(e)
      PROVE  operand \in PartsOf(q.expr) /\ Size(operand) < Size(e)
  <2>1. operand \in PartsOf(q.expr) /\ PartsOf(operand) \subseteq PartsOf(e) \ {e}
    BY <1>3, ExpressionTrees
  <2>2. PartsOf(operand) \in SUBSET PartsOf(e) /\ PartsOf(operand) # PartsOf(e)
    BY <1>1, <2>1
  <2>3. Cardinality(PartsOf(operand)) \in Nat
    BY <1>1, <2>2, FS_Subset, FS_CardinalityType
  <2>4. /\ Cardinality(PartsOf(operand)) <= Cardinality(PartsOf(e))
        /\ Cardinality(PartsOf(operand)) # Cardinality(PartsOf(e))
    BY <1>1, <2>2, FS_Subset
  <2>5. Size(operand) < Size(e)
    BY <1>2, <2>3, <2>4 DEF Size
  <2> QED BY <2>1, <2>5
<1> QED BY <1>2, <1>3

\* The sizes of the parts of a question have a bound.
LEMMA SizesBounded ==
    ASSUME NEW q \in Questions, q.expr # Wrong
    PROVE  \E n \in Nat : \A e \in PartsOf(q.expr) : Size(e) <= n
<1> DEFINE P == PartsOf(q.expr)
           T == {Size(e) : e \in P}
           f == [e \in P |-> Size(e)]
<1>1. q.expr \in P
  BY ExpressionTrees
<1>2. IsFiniteSet(P)
  BY <1>1, ExpressionTrees
<1>3. \A e \in P : Size(e) \in Nat
  BY Smaller
<1>4. T \in SUBSET Nat /\ T # {}
  BY <1>1, <1>3
<1>5. f \in Surjection(P, T)
  BY DEF Surjection
<1>6. IsFiniteSet(T)
  BY <1>2, <1>5, FS_Surjection
<1>7. PICK n \in T : \A m \in T : n >= m
  BY <1>4, <1>6, FiniteHasGreatest
<1>8. n \in Nat
  BY <1>4
<1>9. \A e \in P : Size(e) \in T /\ Size(e) \in Nat
  BY <1>3
<1> QED BY <1>7, <1>8, <1>9

\* Values gives each part its value, by induction on the size.
LEMMA ValuesAre ==
    ASSUME NEW q \in Questions, q.expr # Wrong, NEW data, NEW times, NEW e \in PartsOf(q.expr)
    PROVE  Values(q.expr, data, times)[e] = ValueOf(e, Values(q.expr, data, times), data, times)
<1> DEFINE P == PartsOf(q.expr)
           Step(g, d) == ValueOf(d, g, data, times)
           Lev(n) == {d \in P : Size(d) <= n}
           T == {n \in Nat : \E g : g = [d \in Lev(n) |-> Step(g, d)]}
<1>0. \A d \in P : Size(d) \in Nat /\ Size(d) # 0
  BY Smaller
<1>1. 0 \in T
  <2> DEFINE g == [d \in Lev(0) |-> d]
  <2>1. Lev(0) = {}
    BY <1>0
  <2>2. g = [d \in Lev(0) |-> Step(g, d)]
    BY <2>1
  <2>3. \E k : k = [d \in Lev(0) |-> Step(k, d)]
    <3> HIDE DEF g, Lev, Step
    <3> QED BY <2>2, Zenon
  <2> HIDE DEF Lev, Step
  <2> QED BY <2>3
<1>2. ASSUME NEW n \in T PROVE n + 1 \in T
  <2>1. PICK g : g = [d \in Lev(n) |-> Step(g, d)]
    <3> HIDE DEF Lev, Step
    <3> QED OBVIOUS
  <2> DEFINE h == [d \in Lev(n + 1) |-> Step(g, d)]
  <2>2. ASSUME NEW d \in Lev(n + 1) PROVE Step(h, d) = Step(g, d)
    <3>1. ASSUME NEW operand \in Operands(d) PROVE h[operand] = g[operand]
      <4>1. operand \in P /\ Size(operand) < Size(d)
        BY Smaller
      <4>2. operand \in Lev(n) /\ operand \in Lev(n + 1)
        BY <1>0, <4>1
      <4>3. h[operand] = Step(g, operand) /\ g[operand] = Step(g, operand)
        <5> HIDE DEF Lev, Step
        <5> QED BY ONLY <2>1, <4>2
      <4> QED BY <4>3
    <3> HIDE DEF h
    <3> QED BY <3>1, OperandsSuffice
  <2>3. h = [d \in Lev(n + 1) |-> Step(h, d)]
    <3> HIDE DEF Lev, Step
    <3> QED BY <2>2
  <2>4. \E k : k = [d \in Lev(n + 1) |-> Step(k, d)]
    <3> HIDE DEF h
    <3> QED BY <2>3, Zenon
  <2>5. n + 1 \in Nat
    OBVIOUS
  <2> HIDE DEF Lev
  <2> QED BY <2>4, <2>5, Zenon
<1>3. T = Nat
  <2>1. T \in SUBSET Nat
    OBVIOUS
  <2> HIDE DEF T
  <2> QED BY <1>1, <1>2, <2>1, NaturalInduction, Zenon
<1>4. PICK N \in Nat : \A d \in P : Size(d) <= N
  BY SizesBounded
<1>5. PICK g : g = [d \in Lev(N) |-> Step(g, d)]
  <2>1. N \in T
    BY <1>3
  <2> HIDE DEF Lev, Step
  <2> QED BY <2>1
<1>6. Lev(N) = P
  BY <1>4
<1>7. g = [d \in P |-> Step(g, d)]
  BY <1>5, <1>6
<1> DEFINE f == ValuesFcn(q.expr, data, times)
<1>8. f = [d \in P |-> ValueOf(d, f, data, times)]
  BY <1>7, Zenon DEF ValuesFcn
<1> HIDE DEF f, Lev, T, Step
<1>9. f[e] = ValueOf(e, f, data, times)
  BY <1>8
<1>10. f = Values(q.expr, data, times)
  BY ValuesDef DEF f
<1> QED BY <1>9, <1>10

\* Every value of a question fits, by the least part whose value does not.
LEMMA ValuesFit ==
    ASSUME NEW q \in Questions, q.expr # Wrong, NEW data, NEW times,
           \A selector \in Members(SelectorsOf(q.expr)) : IsRows(data[RequestOf(selector, times)]),
           NEW e \in PartsOf(q.expr)
    PROVE  Fits(Values(q.expr, data, times)[e])
<1> DEFINE P == PartsOf(q.expr)
           f == Values(q.expr, data, times)
           T == {Size(d) : d \in {c \in P : ~Fits(f[c])}}
<1>1. SUFFICES ASSUME T # {} PROVE FALSE
  <2>1. e \in P
    OBVIOUS
  <2>2. Fits(f[e]) => Fits(Values(q.expr, data, times)[e])
    OBVIOUS
  <2> HIDE DEF f, P
  <2>3. ~Fits(f[e]) => Size(e) \in T
    BY <2>1
  <2>4. ~Fits(f[e]) => T # {}
    BY <2>3
  <2> HIDE DEF T
  <2> QED BY <2>2, <2>4, Zenon
<1>2. \A d \in P : Size(d) \in Nat
  BY Smaller
<1>3. T \in SUBSET Nat
  BY <1>2
<1>4. PICK n \in T : \A m \in T : n <= m
  <2> HIDE DEF T
  <2> QED BY <1>1, <1>3, LeastNatural
<1>5. PICK d \in P : ~Fits(f[d]) /\ n = Size(d)
  OBVIOUS
<1>6. ASSUME NEW operand \in Operands(d) PROVE operand \in P /\ Fits(f[operand])
  <2>1. operand \in P /\ Size(operand) < Size(d)
    BY Smaller
  <2>2. Size(operand) \notin T
    BY <1>2, <1>4, <1>5, <2>1
  <2> HIDE DEF f
  <2> QED BY <2>1, <2>2
<1>7. d.kind = "call" => IsSequence(d.args)
  BY ExpressionTrees
<1>8. \A selector \in Operands(d) \cup {d} :
         selector.kind = "selector" => IsRows(data[RequestOf(selector, times)])
  <2>1. \A selector \in P : selector.kind = "selector" => selector \in Members(SelectorsOf(q.expr))
    BY ExpressionTrees
  <2> QED BY <1>6, <2>1
<1>9. f[d] = ValueOf(d, f, data, times)
  BY ValuesAre
<1>10. Fits(ValueOf(d, f, data, times))
  <2> HIDE DEF f
  <2> QED BY <1>6, <1>7, <1>8, ValueOfFits
<1> HIDE DEF f
<1> QED BY <1>5, <1>9, <1>10

\* What the store answers are rows.
LEMMA FetchIsRows == \A store, request : IsRows(Fetch(store, request))
<1> TAKE store, request
<1> DEFINE K == {s \in MatchSeries(request.matchers) : ReadTimes(store, s, request) # {}}
<1>1. DOMAIN Series = 1..Len(Series) /\ Len(Series) \in Nat
  BY StoredSeries DEF IsSequence
<1>2. K \subseteq 1..Len(Series)
  BY <1>1 DEF MatchSeries
<1>3. DOMAIN Fetch(store, request) = DOMAIN InOrder(K)
  BY DEF Fetch
<1> HIDE DEF K
<1>4. Cardinality(K) \in Nat /\ DOMAIN InOrder(K) = 1..Cardinality(K)
  BY <1>1, <1>2, SomeIndexes DEF InOrder
<1> QED BY <1>3, <1>4 DEF IsRows

\* Whatever a question asks, its and, unless and or work sample by sample.
THEOREM SetOperatorsAlwaysWorkBySample == Spec => []SetOperatorsWorkBySample
<1>1. ASSUME IInv PROVE SetOperatorsWorkBySample
  <2> DEFINE e == Expression
             value == Values(Expression, fetched, Steps)
  <2>1. SUFFICES ASSUME HasFetched, e.kind = "binary", e.op \in SetOperators,
                        value[e].kind = "vector"
                 PROVE  Cells(value[e].series)
                          = BySample(e, Cells(value[e.lhs].series), Cells(value[e.rhs].series))
    BY DEF SetOperatorsWorkBySample
  <2>2. asked \in Answered
    BY <1>1, <2>1 DEF HasFetched, Answered, IInv, TypesFit
  <2>3. asked \in Questions /\ asked.expr # Wrong
    BY <2>2 DEF Answered, Refused
  <2>4. ASSUME NEW selector \in Members(SelectorsOf(e))
        PROVE  IsRows(fetched[RequestOf(selector, Steps)])
    <3>1. RequestOf(selector, Steps) \in DOMAIN fetched
      BY <2>1, <2>2, <2>4, RequestsAre DEF HasFetched, Expression, Steps
    <3>2. fetched[RequestOf(selector, Steps)] = Fetch(asOf, RequestOf(selector, Steps))
      BY <1>1, <3>1 DEF IInv, ReadFromOne
    <3> QED BY <3>2, FetchIsRows
  <2>5. e \in PartsOf(e) /\ e.lhs \in PartsOf(e) /\ e.rhs \in PartsOf(e)
    <3>1. e \in PartsOf(e)
      BY <2>3, ExpressionTrees DEF Expression
    <3>2. e.lhs \in Operands(e) /\ e.rhs \in Operands(e)
      BY <2>1 DEF Operands
    <3> QED BY <2>3, <3>1, <3>2, ExpressionTrees DEF Expression
  <2>6. Fits(value[e.lhs]) /\ Fits(value[e.rhs])
    <3> HIDE DEF value
    <3> QED BY <2>3, <2>4, <2>5, ValuesFit DEF Expression, value
  <2>7. value[e] = EvalBinary(e, value[e.lhs], value[e.rhs])
    <3>1. value[e] = ValueOf(e, value, fetched, Steps)
      BY <2>3, <2>5, ValuesAre DEF Expression
    <3> HIDE DEF value
    <3> QED BY <2>1, <3>1 DEF ValueOf
  <2> HIDE DEF value
  <2> DEFINE lhs == value[e.lhs]
             rhs == value[e.rhs]
  <2> HIDE DEF e
  <2>8. lhs.kind = "vector" /\ rhs.kind = "vector" /\ value[e] = EvalSetOp(e, lhs.series, rhs.series)
    <3>1. Thrown.kind # "vector" /\ value[e] # Thrown
      BY <2>1 DEF Thrown
    <3> HIDE DEF lhs, rhs
    <3>2. value[e] = EvalBinary(e, lhs, rhs)
      BY <2>7 DEF lhs, rhs
    <3>3. e.op \in SetOperators
      BY <2>1
    <3> QED BY <3>1, <3>2, <3>3 DEF EvalBinary
  <2> DEFINE R == Members(lhs.series) \cup Members(rhs.series)
  <2>9. lhs.series \in Seq(Members(lhs.series)) /\ rhs.series \in Seq(Members(rhs.series))
    BY <2>6, <2>8 DEF Fits
  <2>10. lhs.series \in Seq(R) /\ rhs.series \in Seq(R)
    <3> HIDE DEF lhs, rhs
    <3> QED BY <2>9
  <2>11. e.op \in {"and", "unless", "or"}
    BY <2>1 DEF SetOperators
  <2> HIDE DEF R, lhs, rhs
  <2>12. Cells(EvalSetOp(e, lhs.series, rhs.series).series)
           = BySample(e, Cells(lhs.series), Cells(rhs.series))
    BY <2>10, <2>11, SetOperatorsBySample
  <2> QED BY <2>8, <2>12 DEF lhs, rhs
<1> QED BY <1>1, PrefetchInvariant, PTL
================================================================================
