-------------------------------- MODULE Prefetch --------------------------------
(***************************************************************************)
(* What the selectors of a question get to see: prefetch and the selectors *)
(* of the evaluator (promql/engine.ts) over the two reads of one store     *)
(* (storage/store.ts).  The data of all selectors of a question is         *)
(* requested from the store's operation queue, the queue answers the       *)
(* requests between the writes of others, and the answer is evaluated over *)
(* what came back.                                                         *)
(*                                                                         *)
(* What a question means and what is made of its data are parameters: the  *)
(* parser gives the expressions, SelectorsOf collects the selectors of one *)
(* and AnswerOf evaluates it.  Query supplies them.                        *)
(*                                                                         *)
(* Times are counted in parts of a millisecond.  Samples are taken and     *)
(* durations written in whole milliseconds; a question may start, end and  *)
(* step in between, for a panel's step of 64.1 s (panels/config.ts), a     *)
(* note's (time/context.ts) and the arguments of the debug API reach the   *)
(* engine as they are.                                                     *)
(***************************************************************************)
EXTENDS PromqlAst, Ranks, Sequences

CONSTANTS
  Series,             \* the label sets of the stored series, in the order of the cache
  Recorded,           \* the samples at the start: per series, time |-> value
  Arrivals,           \* samples other callers may ingest, [series, t, v]
  Asked,              \* the questions, their texts parsed: [kind, expr, start, end, step]
  SelectorsOf(_),     \* collectSelectors: the selectors of an expression
  AnswerOf(_, _),     \* what a question is answered over its data
  Millisecond,        \* the parts of a millisecond
  Lookback,           \* EngineOptions.lookbackMs
  MaxSteps            \* EngineOptions.maxSteps

IsSequence(s) == DOMAIN s = 1..Len(s) /\ Len(s) \in Nat
Members(s) == {s[i] : i \in DOMAIN s}

Questions == Members(Asked)

IsWhole(time) == time % Millisecond = 0

ASSUME TimesHaveParts == Millisecond \in Nat \ {0}

(* Labels are unique in the series table. *)
ASSUME StoredSeries ==
  /\ IsSequence(Series)
  /\ \A r, s \in DOMAIN Series : Series[r] = Series[s] => r = s

SampleTimes == {t \in Nat : IsWhole(t)}

ASSUME StoredSamples ==
  /\ Recorded = [s \in DOMAIN Series |-> Recorded[s]]
  /\ \A s \in DOMAIN Series : DOMAIN Recorded[s] \subseteq SampleTimes /\ IsFiniteSet(DOMAIN Recorded[s])
  /\ \A a \in Arrivals : a.series \in DOMAIN Series /\ a.t \in SampleTimes

(* The lookback is DEFAULT_LOOKBACK_MS wherever an engine is made. *)
ASSUME Options ==
  /\ Lookback \in Nat /\ Lookback >= Millisecond /\ IsWhole(Lookback)
  /\ MaxSteps \in Nat \ {0}

(* Whoever asks may ask between milliseconds. *)
ASSUME AskedQuestions ==
  \A q \in Questions :
    LET selectors == SelectorsOf(q.expr)
    IN /\ q.kind \in {"instant", "range"}
       /\ q.start \in Int /\ q.end \in Int /\ q.step \in Int
       /\ q.expr # Wrong =>
            /\ IsSequence(selectors)
            /\ \A i \in DOMAIN selectors :
                 selectors[i].range \in Nat \cup {NoRange} /\ selectors[i].offset \in Int

VARIABLES
  samples,     \* the samples of the store
  queue,       \* the operations queued at the store
  arrived,     \* the ingests begun so far
  asked,       \* the question being answered, once its text is parsed, or NotAsked
  fetched,     \* SelectorData: what the store answered, per request
  answer,      \* the answer, or NoAnswer
  asOf         \* ghost: the samples when the first request was answered

vars == <<samples, queue, arrived, asked, fetched, answer, asOf>>

NotAsked == [kind |-> "none"]

(* a Map with one entry set *)
Put(map, key, value) == [k \in DOMAIN map \cup {key} |-> IF k = key THEN value ELSE map[k]]

(* the distinct keys, in the order they come up *)
Distinct(keys) ==
  ElementsAt(keys, {i \in DOMAIN keys : \A j \in 1..i - 1 : keys[j] # keys[i]})

-----------------------------------------------------------------------------
(* The store's two reads.  A matcher holds the set of values its text      *)
(* stands for, one value for "=" and "!=".  A request is [matchers, start, *)
(* end, step], step 0 for select() and the step for selectAtSteps().       *)

Matches(labels, m) ==
  LET value == IF m.name \in DOMAIN labels THEN labels[m.name] ELSE ""
  IN IF m.op \in {"=", "=~"} THEN value \in m.values ELSE value \notin m.values

MatchSeries(matchers) == {s \in DOMAIN Series : \A m \in matchers : Matches(Series[s], m)}

PointsOf(store, s, times) ==
  LET rising == InOrder(times)
  IN [i \in DOMAIN rising |-> [t |-> rising[i], v |-> store[s][rising[i]]]]

(* Math.floor, Math.ceil and Math.max(1, ...) of milliseconds *)
Floored(time) == time - (time % Millisecond)
Raised(time) == time + ((-time) % Millisecond)
OneAtLeast(time) == IF time < Millisecond THEN Millisecond ELSE time

TimesWithin(store, s, low, high) ==
  {t \in DOMAIN store[s] : Floored(low) <= t /\ t <= Raised(high)}

(* Mutant of FirstEval: a sample on the grid counts for the next step *)
FirstEvalAfter(t, start, step) ==
  IF t <= start THEN start ELSE start + ((t - start) \div step + 1) * step

(* the first step of the grid at or after a sample: all three are whole    *)
(* milliseconds, of which one part less rounds up as one less would        *)
FirstEval(t, start, step) ==
  IF t <= start THEN start ELSE start + ((t - start + step - 1) \div step) * step

(* selectAtStepsLocked: the samples that are the latest of some step *)
SelectedAtSteps(store, s, request) ==
  LET start == Floored(request.start)
      end == Raised(request.end)
      step == OneAtLeast(Floored(request.step))
      lookback == OneAtLeast(Floored(Lookback))
      raw == {t \in DOMAIN store[s] : start - lookback <= t /\ t <= end}
      IsLastBefore(t, time) == \A u \in raw : u > t => time < u
  IN {t \in raw : LET first == FirstEval(t, start, step)
                  IN first <= end /\ IsLastBefore(t, first) /\ first < t + lookback}

ReadTimes(store, s, request) ==
  IF request.step = 0 THEN TimesWithin(store, s, request.start, request.end)
  ELSE SelectedAtSteps(store, s, request)

(* one row per series that has samples *)
Fetch(store, request) ==
  LET found == InOrder({s \in MatchSeries(request.matchers) : ReadTimes(store, s, request) # {}})
  IN [i \in DOMAIN found |->
        [labels |-> Series[found[i]],
         points |-> PointsOf(store, found[i], ReadTimes(store, found[i], request))]]

-----------------------------------------------------------------------------
(* Questions.  An instant question has the one step of its start.          *)

Answer(type, rows) == [type |-> type, rows |-> rows]
NoAnswer == Answer("none", <<>>)
ErrorAnswer == Answer("error", <<>>)

IsInstant(q) == q.kind = "instant"

StepCount(q) == (q.end - q.start) \div q.step + 1

TimesOf(q) ==
  IF IsInstant(q) THEN <<q.start>>
  ELSE [n \in 1..StepCount(q) |-> q.start + (n - 1) * q.step]

Refused(q) ==
  IF q.expr = Wrong THEN TRUE
  ELSE IF IsInstant(q) THEN FALSE
  ELSE IF IsBareRange(q.expr) \/ q.step <= 0 THEN TRUE
  ELSE q.end < q.start \/ StepCount(q) > MaxSteps

(* selectorFetchKey and the bounds prefetch computes for it *)
RequestOf(selector, times) ==
  LET start == times[1] - selector.offset
      end == times[Len(times)] - selector.offset
  IN IF selector.range = NoRange
     THEN [matchers |-> selector.matchers, start |-> start, end |-> end,
           step |-> IF Len(times) > 1 THEN OneAtLeast(times[2] - times[1]) ELSE Millisecond]
     ELSE [matchers |-> selector.matchers, start |-> start - selector.range, end |-> end, step |-> 0]

(* prefetch: one request per distinct key *)
Requests(q) ==
  LET selectors == SelectorsOf(q.expr)
  IN Distinct([i \in DOMAIN selectors |-> RequestOf(selectors[i], TimesOf(q))])

-----------------------------------------------------------------------------
(* Selectors *)

(* Mutant of Advance: one point per step instead of all up to the bound *)
AdvanceByOne(points, from, bound) ==
  IF from < Len(points) /\ points[from + 1].t <= bound THEN from + 1 ELSE from

(* how far a pointer into the points moves on for the next bound *)
Advance(points, from, bound) ==
  from + Cardinality({i \in from + 1..Len(points) : points[i].t <= bound})

Pointers(points, bounds) ==
  LET pointer[n \in 0..Len(bounds)] ==
        IF n = 0 THEN 0 ELSE Advance(points, pointer[n - 1], bounds[n])
  IN [n \in DOMAIN bounds |-> pointer[n]]

(* per step, the latest sample no older than the lookback *)
LatestOf(selector, points, times) ==
  LET targets == [n \in DOMAIN times |-> times[n] - selector.offset]
      idx == Pointers(points, targets)
  IN [n \in DOMAIN times |->
        IF idx[n] > 0 /\ points[idx[n]].t > targets[n] - Lookback THEN points[idx[n]].v ELSE NaN]

WindowEnd(selector, time) == time - selector.offset
WindowStart(selector, time) == WindowEnd(selector, time) - selector.range

(* per step, the samples in (t - offset - range, t - offset] *)
WindowsOf(selector, points, times) ==
  LET hi == Pointers(points, [n \in DOMAIN times |-> WindowEnd(selector, times[n])])
      lo == Pointers(points, [n \in DOMAIN times |-> WindowStart(selector, times[n])])
  IN [n \in DOMAIN times |-> SubSeq(points, lo[n] + 1, hi[n])]

-----------------------------------------------------------------------------
(* The store's queue serves one operation at a time, in order *)

(* Mutant of Enqueue: the newest operations are served first *)
EnqueueFirst(ops) == ops \o queue

Enqueue(ops) == queue \o ops

Init ==
  /\ samples = Recorded
  /\ queue = <<>> /\ arrived = {}
  /\ asked = NotAsked /\ fetched = <<>> /\ answer = NoAnswer
  /\ asOf = Recorded

(* an ingest of another caller, at any moment *)
Ingest(arrival) ==
  /\ arrival \notin arrived
  /\ arrived' = arrived \cup {arrival}
  /\ queue' = Enqueue(<<[op |-> "ingest", arrival |-> arrival]>>)
  /\ UNCHANGED <<samples, asked, fetched, answer, asOf>>

(* all requests of a question reach the queue in one turn *)
Ask(q) ==
  /\ asked = NotAsked
  /\ asked' = q
  /\ IF ~Refused(q)
     THEN LET requests == Requests(q)
          IN /\ queue' = Enqueue([i \in DOMAIN requests |-> [op |-> "fetch", request |-> requests[i]]])
             /\ answer' = NoAnswer
     ELSE queue' = queue /\ answer' = ErrorAnswer
  /\ fetched' = <<>>
  /\ UNCHANGED <<samples, arrived, asOf>>

ServeIngest ==
  /\ queue # <<>> /\ Head(queue).op = "ingest"
  /\ LET a == Head(queue).arrival
     IN samples' = [samples EXCEPT ![a.series] = Put(@, a.t, a.v)]
  /\ queue' = Tail(queue)
  /\ UNCHANGED <<arrived, asked, fetched, answer, asOf>>

ServeFetch ==
  /\ queue # <<>> /\ Head(queue).op = "fetch"
  /\ LET request == Head(queue).request
     IN fetched' = Put(fetched, request, Fetch(samples, request))
  /\ asOf' = IF DOMAIN fetched = {} THEN samples ELSE asOf
  /\ queue' = Tail(queue)
  /\ UNCHANGED <<samples, arrived, asked, answer>>

HasFetched ==
  /\ asked # NotAsked /\ ~Refused(asked)
  /\ DOMAIN fetched = Members(Requests(asked))

Evaluate ==
  /\ answer = NoAnswer /\ HasFetched
  /\ answer' = AnswerOf(asked, fetched)
  /\ UNCHANGED <<samples, queue, arrived, asked, fetched, asOf>>

Deliver ==
  /\ answer # NoAnswer
  /\ asked' = NotAsked /\ fetched' = <<>> /\ answer' = NoAnswer
  /\ asOf' = Recorded
  /\ UNCHANGED <<samples, queue, arrived>>

Next ==
  \/ \E arrival \in Arrivals : Ingest(arrival)
  \/ \E q \in Questions : Ask(q)
  \/ ServeIngest
  \/ ServeFetch
  \/ Evaluate
  \/ Deliver

Spec == Init /\ [][Next]_vars

-----------------------------------------------------------------------------
(* Properties *)

Expression == asked.expr
Steps == TimesOf(asked)

(* All selectors of a question read one state of the store: the requests   *)
(* of prefetch reach the queue in one turn, so no write of another caller  *)
(* comes between them and an expression such as x - x never mixes the      *)
(* samples before an ingest with those after it.                           *)
OneMoment == HasFetched => \A request \in DOMAIN fetched : fetched[request] = Fetch(asOf, request)

SamplesBetween(store, s, after, until) == {u \in DOMAIN store[s] : after < u /\ u <= until}

Newest(K) == CHOOSE k \in K : \A j \in K : j <= k

Latest(store, s, time) ==
  LET seen == SamplesBetween(store, s, time - Lookback, time)
  IN IF seen = {} THEN NaN ELSE store[s][Newest(seen)]

PointsFor(data, labels) ==
  LET rows == {i \in DOMAIN data : data[i].labels = labels}
  IN IF rows = {} THEN <<>> ELSE data[CHOOSE i \in rows : TRUE].points

(* what a selector sees of a series, in data read from a store *)
SeesItsSamples(selector, s, times, data, store) ==
  LET points == PointsFor(data, Series[s])
  IN \A n \in DOMAIN times :
       IF selector.range = NoRange
       THEN LatestOf(selector, points, times)[n] = Latest(store, s, times[n] - selector.offset)
       ELSE WindowsOf(selector, points, times)[n]
              = PointsOf(store, s, SamplesBetween(store, s, WindowStart(selector, times[n]),
                                                            WindowEnd(selector, times[n])))

SelectorSees(selector) ==
  \A s \in MatchSeries(selector.matchers) :
    SeesItsSamples(selector, s, Steps, fetched[RequestOf(selector, Steps)], asOf)

(* steps a whole number of milliseconds apart, wherever they start *)
WholeSteps(q) == IsInstant(q) \/ IsWhole(q.step)

(* Thinning the samples to the steps in SQL and walking them with pointers *)
(* in the evaluator loses nothing: a range selector sees at every step     *)
(* exactly the samples of its half-open window, and an instant selector    *)
(* the newest sample of the lookback, or none when there is none, if the   *)
(* steps are whole milliseconds apart.                                     *)
SelectorsSeeTheirSamples ==
  HasFetched =>
    \A selector \in Members(SelectorsOf(Expression)) :
      (selector.range # NoRange \/ WholeSteps(asked)) => SelectorSees(selector)

(* The step-aware read preserves offsets and last-sample semantics         *)
(* (ARCHITECTURE.md): an instant selector sees the newest sample of the    *)
(* lookback whatever the step is.  The store rounds the step down and the  *)
(* evaluator does not, so their steps drift apart.                         *)
LastSampleIsKept ==
  HasFetched =>
    \A selector \in Members(SelectorsOf(Expression)) :
      selector.range = NoRange => SelectorSees(selector)

=================================================================================
