-------------------------- MODULE MetricsStoreProofs ---------------------------
(***************************************************************************)
(* Proofs about MetricsStore, for every set of series, timestamps, batches *)
(* and cutoffs, every bucket and span, and every number of calls.          *)
(***************************************************************************)
EXTENDS MetricsStore, Sums

(***************************************************************************)
(* The inductive invariant, in three parts.  The queue's part says what    *)
(* may run when.  The tables' part says what a rollback or a crash goes    *)
(* back to, and what the cache is worth just before the store is open.     *)
(* The counts' part has, besides what the counts promise, what a store     *)
(* that does not know its count yet may rely on when it starts to.         *)
(***************************************************************************)
\* init runs while opening, nothing runs while closed, and what runs is a call.
QueueOK ==
    /\ status \in {"closed", "opening", "open", "closing"}
    /\ queue \in Seq(Calls)
    /\ pc \in {"idle", "create", "write", "rollback", "clear", "load",
               "init", "count", "started"}
    /\ calls \in 0..MaxCalls
    /\ status = "opening" <=> pc \in {"init", "count", "started"}
    /\ status = "closed" => pc = "idle"
    /\ pc \in {"create", "rollback", "clear", "load"} => queue # <<>>

Agrees(samples, table) ==
    \A r \in samples : r.key \in DOMAIN table /\ table[r.key] = r.id

\* The transaction of an ingest has only added series to the tables at BEGIN.
TransactionOK ==
    IF pc \in {"create", "rollback"}
    THEN /\ saved = Tables(saved.series, hot, cold, stats)
         /\ saved.series \in SeriesTables
         /\ Agrees(hot \cup cold, saved.series)
    ELSE saved = Null

TablesOK ==
    /\ series \in SeriesTables /\ cache \in SeriesTables
    /\ hot \subseteq SampleSet /\ cold \subseteq SampleSet
    /\ {recovered, unloaded, overdrawn} \subseteq BOOLEAN
    /\ TransactionOK
    /\ SamplesKeepTheirSeries
    /\ CacheFollowsTable
    /\ pc \in {"count", "started"} => cache = series

Stats == [count : Nat \cup {Null}, started : BOOLEAN, oldest : Times \cup {Null},
          newest : Times \cup {Null}, rollup : [Buckets -> Nat]]
Places == (1..MaxId) \X Times
OfBucket(live, b) == {p \in live : BucketStart(p[2]) = b}
Zero(rollup) == \A b \in Buckets : rollup[b] = 0
Exact(rollup, live, b) == rollup[b] = Cardinality(OfBucket(live, b))

\* What the counts st are worth for the samples live, with what retention (up to
\* del) and damage (in the buckets of drop) have done to them.  A store without a
\* count has empty rollups.  Untouched by retention and damage the counts are
\* exact, whatever was overdrawn before the rollups started; the bounds leave no
\* sample out.
CountsGood(live, st, del, drop, over) ==
    /\ st.started => st.count # Null
    /\ st.count = Null => Zero(st.rollup)
    /\ st.started =>
          /\ ~over => st.count = RollupSum(st, Buckets)
          /\ \A b \in Buckets :
                b >= del /\ b \notin drop /\ ~over => Exact(st.rollup, live, b)
    /\ st.started /\ del = 0 /\ drop = {} =>
          /\ st.count = RollupSum(st, Buckets)
          /\ \A b \in Buckets : Exact(st.rollup, live, b)
    /\ st.count # Null =>
          \A p \in live : /\ st.oldest # Null /\ st.oldest <= p[2]
                          /\ st.newest # Null /\ p[2] <= st.newest

CountsOK ==
    /\ stats \in Stats
    /\ deletedTo \in Nat /\ dropped \subseteq Buckets
    /\ CountsGood(Live(hot, cold), stats, deletedTo, dropped, overdrawn)
    /\ pc = "started" => Live(hot, cold) = {} /\ stats.count = 0 /\ Zero(stats.rollup)

IInv == QueueOK /\ TablesOK /\ CountsOK

--------------------------------------------------------------------------------
(* Buckets of time.                                                        *)

\* A timestamp is in the bucket that starts at most a bucket's length before it.
LEMMA BucketStartBounds ==
    \A t \in Nat : BucketStart(t) \in Nat /\ BucketStart(t) <= t /\ t < BucketStart(t) + Bucket
<1>1. TAKE t \in Nat
<1>2. t \div Bucket \in Nat /\ (t \div Bucket) * Bucket <= t /\ t < (t \div Bucket) * Bucket + Bucket
  BY StoreAssumption
<1> QED BY <1>2, StoreAssumption DEF BucketStart

\* Two bucket starts are a bucket apart, or the same.
LEMMA BucketStartsApart ==
    \A t, u \in Nat : BucketStart(t) < BucketStart(u) => BucketStart(t) + Bucket <= BucketStart(u)
<1>1. \A q, r \in Nat : q * Bucket < r * Bucket => q * Bucket + Bucket <= r * Bucket
  BY StoreAssumption
<1>2. \A t \in Nat : t \div Bucket \in Nat
  BY StoreAssumption
<1> QED BY <1>1, <1>2 DEF BucketStart

\* An aligned cutoff starts a span, so it starts a bucket.
LEMMA AlignedStartsBucket ==
    \A t \in Nat : Aligned(t) \in Nat /\ BucketStart(Aligned(t)) = Aligned(t)
<1>1. PICK k \in Nat : Span = k * Bucket
  BY StoreAssumption
<1>2. \A q \in Nat : (q * Bucket) \div Bucket = q
  BY StoreAssumption
<1>3. \A q \in Nat : q * (k * Bucket) = (q * k) * Bucket /\ q * k \in Nat /\ q * (k * Bucket) \in Nat
  BY StoreAssumption
<1>4. \A q \in Nat : ((q * (k * Bucket)) \div Bucket) * Bucket = q * (k * Bucket)
  BY <1>2, <1>3
<1>5. \A t \in Nat : t \div Span \in Nat
  BY StoreAssumption
<1> QED BY <1>1, <1>3, <1>4, <1>5 DEF BucketStart, Aligned

\* There are finitely many buckets, and places for samples.
LEMMA FinitelyMany ==
    /\ Buckets \in SUBSET Nat /\ IsFiniteSet(Buckets)
    /\ IsFiniteSet(Places)
    /\ \A p \in Places : p[2] \in Times /\ p[2] \in Nat /\ BucketStart(p[2]) \in Buckets
<1>1. Buckets \in SUBSET Nat
  BY StoreAssumption, BucketStartBounds DEF Buckets
<1>2. IsFiniteSet(Buckets)
  <2> DEFINE f == [t \in Times |-> BucketStart(t)]
  <2>1. f \in Surjection(Times, Buckets)
    BY DEF Surjection, Buckets
  <2> QED BY <2>1, FS_Surjection, StoreAssumption
<1>3. IsFiniteSet(Places)
  <2>1. IsFiniteSet(1..MaxId)
    BY StoreAssumption, FS_Interval
  <2> QED BY <2>1, StoreAssumption, FS_Product DEF Places
<1>4. \A p \in Places : p[2] \in Times /\ p[2] \in Nat /\ BucketStart(p[2]) \in Buckets
  BY StoreAssumption DEF Places, Buckets
<1> QED BY <1>1, <1>2, <1>3, <1>4

\* The sum the statistics take is the sum of module Sums.
LEMMA RollupSumIsSum == \A st, B : RollupSum(st, B) = SumOver(st.rollup, B)
  BY DEF RollupSum, SumOver

\* The samples are those of the buckets together.
LEMMA CountByBucket ==
    ASSUME NEW P \in SUBSET Places, NEW B \in SUBSET Buckets, NEW f \in [Buckets -> Nat],
           \A p \in P : BucketStart(p[2]) \in B,
           \A b \in B : Exact(f, P, b)
    PROVE  Cardinality(P) = SumOver(f, B)
<1> DEFINE c == [p \in P |-> BucketStart(p[2])]
           g == [b \in B |-> Cardinality({p \in P : c[p] = b})]
<1>1. IsFiniteSet(P) /\ IsFiniteSet(B)
  BY FinitelyMany, FS_Subset
<1>2. c \in [P -> B]
  OBVIOUS
<1>3. Cardinality(P) = SumOver(g, B)
  <2> HIDE DEF c
  <2> QED BY <1>1, <1>2, CountByParts
<1>4. ASSUME NEW b \in B PROVE f[b] \in Nat /\ g[b] = f[b]
  <2>1. {p \in P : c[p] = b} = OfBucket(P, b)
    BY DEF OfBucket
  <2> QED BY <2>1 DEF Exact
<1>5. SumOver(f, B) = SumOver(g, B)
  <2> HIDE DEF g
  <2> QED BY <1>1, <1>4, SumSame
<1> QED BY <1>3, <1>5

\* The parts of a set of samples are finite.
LEMMA PartsFinite ==
    ASSUME NEW P \in SUBSET Places
    PROVE  /\ IsFiniteSet(P) /\ Cardinality(P) \in Nat
           /\ \A b : IsFiniteSet(OfBucket(P, b)) /\ Cardinality(OfBucket(P, b)) \in Nat
<1>1. \A Q \in SUBSET Places : IsFiniteSet(Q) /\ Cardinality(Q) \in Nat
  BY FinitelyMany, FS_Subset, FS_CardinalityType
<1>2. \A b : OfBucket(P, b) \in SUBSET Places
  BY DEF OfBucket
<1> QED BY <1>1, <1>2

--------------------------------------------------------------------------------
(* The bounds and the counts after each statement that changes them.       *)

\* Older and Newer are bounds of the new timestamps and of the old bound.
LEMMA OlderIsOlder ==
    ASSUME NEW S \in SUBSET Times, S # {}, NEW x \in Times \cup {Null}
    PROVE  /\ Older(x, S) \in Times
           /\ \A y \in S : Older(x, S) <= y
           /\ x # Null => Older(x, S) <= x
<1> DEFINE T == S \cup ({x} \ {Null})
<1>1. T \in SUBSET Times /\ T \in SUBSET Nat /\ T # {}
  BY StoreAssumption
<1>2. Min(T) \in T /\ \A y \in T : Min(T) <= y
  <2> HIDE DEF T
  <2> QED BY <1>1, MinIsLeast
<1> QED BY <1>1, <1>2 DEF Older

\* The same for the newest timestamp.
LEMMA NewerIsNewer ==
    ASSUME NEW S \in SUBSET Times, S # {}, NEW x \in Times \cup {Null}
    PROVE  /\ Newer(x, S) \in Times
           /\ \A y \in S : y <= Newer(x, S)
           /\ x # Null => x <= Newer(x, S)
<1> DEFINE T == S \cup ({x} \ {Null})
<1>1. T \in SUBSET Times /\ T \in SUBSET Nat /\ T # {}
  BY StoreAssumption
<1>2. IsFiniteSet(T)
  BY <1>1, StoreAssumption, FS_Subset
<1>3. Max(T) \in T /\ \A y \in T : y <= Max(T)
  <2> HIDE DEF T
  <2> QED BY <1>1, <1>2, MaxIsGreatest
<1> QED BY <1>1, <1>3 DEF Newer

\* Subtracting from a known count, and the bounds that are left.
LEMMA UncountedFacts ==
    ASSUME NEW st \in Stats, NEW n \in Nat, NEW left \in SUBSET Places
    PROVE  LET u == Uncounted(st, n, left)
           IN  /\ u \in Stats /\ u.started = st.started /\ u.rollup = st.rollup
               /\ n = 0 \/ st.count = Null => u = st
               /\ st.count # Null => u.count = PositiveDifference(st.count, n)
               /\ st.count # Null /\ n # 0 =>
                     \A p \in left : /\ u.oldest # Null /\ u.oldest <= p[2]
                                     /\ u.newest # Null /\ p[2] <= u.newest
<1> DEFINE u == Uncounted(st, n, left)
           T == {p[2] : p \in left}
<1>1. /\ st = [count |-> st.count, started |-> st.started, oldest |-> st.oldest,
               newest |-> st.newest, rollup |-> st.rollup]
      /\ st.count \in Nat \cup {Null} /\ st.started \in BOOLEAN
      /\ st.oldest \in Times \cup {Null} /\ st.newest \in Times \cup {Null}
      /\ st.rollup \in [Buckets -> Nat]
  BY DEF Stats
<1>2. CASE n = 0 \/ st.count = Null
  <2>1. u = st
    BY <1>2 DEF Uncounted
  <2>2. n = 0 /\ st.count # Null => PositiveDifference(st.count, n) = st.count
    BY <1>1 DEF PositiveDifference
  <2> QED BY <1>2, <2>1, <2>2
<1>3. CASE ~ (n = 0 \/ st.count = Null)
  <2>1. u = [count |-> PositiveDifference(st.count, n), started |-> st.started,
             oldest |-> IF left = {} THEN Null ELSE Min(T),
             newest |-> IF left = {} THEN Null ELSE Max(T), rollup |-> st.rollup]
    <3> HIDE DEF T
    <3> QED BY <1>1, <1>3 DEF Uncounted, T
  <2>2. PositiveDifference(st.count, n) \in Nat
    BY <1>1, <1>3 DEF PositiveDifference
  <2>3. CASE left = {}
    BY <1>1, <1>3, <2>1, <2>2, <2>3 DEF Stats
  <2>4. CASE left # {}
    <3>1. T \in SUBSET Times /\ T # {} /\ \A p \in left : p[2] \in T
      BY <2>4, FinitelyMany
    <3>2. T \in SUBSET Nat /\ IsFiniteSet(T)
      BY <3>1, StoreAssumption, FS_Subset
    <3> HIDE DEF T
    <3>3. Min(T) \in T /\ \A y \in T : Min(T) <= y
      BY <3>1, <3>2, MinIsLeast
    <3>4. Max(T) \in T /\ \A y \in T : y <= Max(T)
      BY <3>1, <3>2, MaxIsGreatest
    <3>5. Min(T) \in Times /\ Max(T) \in Times /\ Min(T) # Null /\ Max(T) # Null
      BY <3>1, <3>3, <3>4, StoreAssumption
    <3>6. u = [count |-> PositiveDifference(st.count, n), started |-> st.started,
               oldest |-> Min(T), newest |-> Max(T), rollup |-> st.rollup]
      BY <2>1, <2>4
    <3>7. u \in Stats
      BY <1>1, <2>2, <3>5, <3>6 DEF Stats
    <3>8. \A p \in left : u.oldest <= p[2] /\ p[2] <= u.newest
      BY <3>1, <3>3, <3>4, <3>6
    <3> QED BY <1>3, <3>5, <3>6, <3>7, <3>8
  <2> QED BY <2>3, <2>4
<1> QED BY <1>2, <1>3

\* The parts of CountsGood by name.
StartedKnown(st) == (st.started => st.count # Null) /\ (st.count = Null => Zero(st.rollup))
SumsUp(st, over) == st.started /\ ~over => st.count = RollupSum(st, Buckets)
ExactAhead(live, st, del, drop, over) ==
    st.started => \A b \in Buckets :
        b >= del /\ b \notin drop /\ ~over => Exact(st.rollup, live, b)
AllExact(live, st) ==
    st.count = RollupSum(st, Buckets) /\ \A b \in Buckets : Exact(st.rollup, live, b)
Bounded(live, st) ==
    st.count # Null =>
        \A p \in live : /\ st.oldest # Null /\ st.oldest <= p[2]
                        /\ st.newest # Null /\ p[2] <= st.newest

\* The counts are good when each of their parts holds.
LEMMA CountsGoodParts ==
    ASSUME NEW live, NEW st, NEW del, NEW drop, NEW over
    PROVE  CountsGood(live, st, del, drop, over) <=>
              /\ StartedKnown(st) /\ SumsUp(st, over)
              /\ ExactAhead(live, st, del, drop, over)
              /\ st.started /\ del = 0 /\ drop = {} => AllExact(live, st)
              /\ Bounded(live, st)
  BY DEF CountsGood, StartedKnown, SumsUp, ExactAhead, AllExact, Bounded

\* Samples that leave the buckets that are given up only: the counts stay as good.
LEMMA FewerSamples ==
    ASSUME NEW live \in SUBSET Places, NEW st \in Stats, NEW del \in Nat, NEW drop,
           NEW over \in BOOLEAN, CountsGood(live, st, del, drop, over),
           NEW live2 \in SUBSET live, NEW del2 \in Nat, del <= del2,
           NEW drop2, drop \subseteq drop2,
           \A p \in live \ live2 : BucketStart(p[2]) \in drop2 \/ BucketStart(p[2]) < del2
    PROVE  CountsGood(live2, st, del2, drop2, over)
<1>0. /\ StartedKnown(st) /\ SumsUp(st, over) /\ ExactAhead(live, st, del, drop, over)
      /\ st.started /\ del = 0 /\ drop = {} => AllExact(live, st)
      /\ Bounded(live, st)
  BY CountsGoodParts
<1>1. ASSUME NEW b \in Buckets, b >= del2, b \notin drop2
      PROVE  OfBucket(live2, b) = OfBucket(live, b)
  <2>1. ASSUME NEW p \in live, BucketStart(p[2]) = b PROVE p \in live2
    BY <1>1, <2>1, FinitelyMany
  <2> QED BY <2>1 DEF OfBucket
<1>2. ExactAhead(live2, st, del2, drop2, over)
  <2> SUFFICES ASSUME st.started, NEW b \in Buckets, b >= del2, b \notin drop2, ~over
               PROVE  Exact(st.rollup, live2, b)
    BY DEF ExactAhead
  <2>1. b >= del /\ b \notin drop
    BY FinitelyMany
  <2>2. Exact(st.rollup, live, b)
    BY <1>0, <2>1 DEF ExactAhead
  <2> QED BY <1>1, <2>2 DEF Exact
<1>3. ASSUME st.started, del2 = 0, drop2 = {} PROVE AllExact(live2, st)
  <2>1. del = 0 /\ drop = {}
    BY <1>3
  <2>2. \A b \in Buckets : OfBucket(live2, b) = OfBucket(live, b)
    BY <1>1, <1>3, FinitelyMany
  <2> QED BY <1>0, <1>3, <2>1, <2>2 DEF AllExact, Exact
<1>4. Bounded(live2, st)
  BY <1>0 DEF Bounded
<1> QED BY <1>0, <1>2, <1>3, <1>4, CountsGoodParts

\* The samples an ingest adds are counted, and the counts stay as good.
LEMMA CountedGood ==
    ASSUME NEW live \in SUBSET Places, NEW st \in Stats, NEW del \in Nat, NEW drop,
           NEW over \in BOOLEAN, CountsGood(live, st, del, drop, over),
           NEW added \in SUBSET Places, added \cap live = {}
    PROVE  /\ Counted(st, added) \in Stats
           /\ CountsGood(live \cup added, Counted(st, added), del, drop, over)
<1>0. /\ StartedKnown(st) /\ SumsUp(st, over) /\ ExactAhead(live, st, del, drop, over)
      /\ st.started /\ del = 0 /\ drop = {} => AllExact(live, st)
      /\ Bounded(live, st)
  BY CountsGoodParts
<1>1. CASE added = {}
  <2>1. Counted(st, added) = st /\ live \cup added = live
    BY <1>1 DEF Counted
  <2> QED BY <2>1
<1>2. CASE st.count = Null
  <2>1. Counted(st, added) = st
    BY <1>2 DEF Counted
  <2>2. ~st.started
    BY <1>0, <1>2 DEF StartedKnown
  <2>3. CountsGood(live \cup added, st, del, drop, over)
    BY <1>0, <1>2, <2>2, CountsGoodParts DEF SumsUp, ExactAhead, Bounded
  <2> QED BY <2>1, <2>3
<1>3. CASE added # {} /\ st.count # Null
  <2> DEFINE T == {p[2] : p \in added}
             k == [b \in Buckets |-> Cardinality(OfBucket(added, b))]
             roll == [b \in Buckets |-> st.rollup[b] + Cardinality(OfBucket(added, b))]
             all == live \cup added
             ns == Counted(st, added)
  <2>1. /\ st = [count |-> st.count, started |-> st.started, oldest |-> st.oldest,
                 newest |-> st.newest, rollup |-> st.rollup]
        /\ st.count \in Nat /\ st.started \in BOOLEAN
        /\ st.oldest \in Times \cup {Null} /\ st.newest \in Times \cup {Null}
        /\ st.rollup \in [Buckets -> Nat]
    BY <1>3 DEF Stats
  <2>2. ns = [count |-> st.count + Cardinality(added), started |-> st.started,
              oldest |-> Older(st.oldest, T), newest |-> Newer(st.newest, T), rollup |-> roll]
    <3>1. \A b : {p \in added : BucketStart(p[2]) = b} = OfBucket(added, b)
      BY DEF OfBucket
    <3>2. roll = [b \in Buckets |->
                    st.rollup[b] + Cardinality({p \in added : BucketStart(p[2]) = b})]
      BY <3>1
    <3> HIDE DEF T, roll
    <3> QED BY <1>3, <2>1, <3>2 DEF Counted, T
  <2>3. Cardinality(added) \in Nat /\ k \in [Buckets -> Nat] /\ roll \in [Buckets -> Nat]
    BY <2>1, PartsFinite
  <2>4. T \in SUBSET Times /\ T # {} /\ \A p \in added : p[2] \in T
    BY <1>3, FinitelyMany
  <2>5. /\ Older(st.oldest, T) \in Times /\ \A y \in T : Older(st.oldest, T) <= y
        /\ st.oldest # Null => Older(st.oldest, T) <= st.oldest
    <3> HIDE DEF T
    <3> QED BY <2>1, <2>4, OlderIsOlder
  <2>6. /\ Newer(st.newest, T) \in Times /\ \A y \in T : y <= Newer(st.newest, T)
        /\ st.newest # Null => st.newest <= Newer(st.newest, T)
    <3> HIDE DEF T
    <3> QED BY <2>1, <2>4, NewerIsNewer
  <2>7. SumOver(roll, Buckets) = SumOver(st.rollup, Buckets) + Cardinality(added)
    <3>1. SumOver(k, Buckets) = Cardinality(added)
      <4>1. \A p \in added : BucketStart(p[2]) \in Buckets
        BY FinitelyMany
      <4>2. \A b \in Buckets : Exact(k, added, b)
        BY DEF Exact
      <4> HIDE DEF k
      <4> QED BY <2>3, <4>1, <4>2, CountByBucket
    <3>2. \A b \in Buckets : st.rollup[b] \in Nat /\ k[b] \in Nat /\ roll[b] = st.rollup[b] + k[b]
      BY <2>1, <2>3
    <3>3. SumOver(roll, Buckets) = SumOver(st.rollup, Buckets) + SumOver(k, Buckets)
      <4> HIDE DEF k, roll
      <4> QED BY <3>2, FinitelyMany, SumPlus
    <3> QED BY <3>1, <3>3
  <2>8. ASSUME NEW b \in Buckets, Exact(st.rollup, live, b) PROVE Exact(roll, all, b)
    <3>1. OfBucket(all, b) = OfBucket(live, b) \cup OfBucket(added, b)
      BY DEF OfBucket
    <3>2. OfBucket(live, b) \cap OfBucket(added, b) = {}
      BY DEF OfBucket
    <3> DEFINE A == OfBucket(live, b)
               B == OfBucket(added, b)
    <3>3. IsFiniteSet(A) /\ IsFiniteSet(B) /\ Cardinality(A) \in Nat /\ Cardinality(B) \in Nat
      BY PartsFinite
    <3>4. roll[b] = st.rollup[b] + Cardinality(B)
      OBVIOUS
    <3>5. st.rollup[b] = Cardinality(A)
      BY <2>8 DEF Exact
    <3> HIDE DEF A, B, roll
    <3>6. Cardinality(A \cup B) = Cardinality(A) + Cardinality(B) - Cardinality(A \cap B)
      BY <3>3, FS_Union
    <3>7. Cardinality(A \cap B) = 0
      BY <3>2, FS_EmptySet DEF A, B
    <3>8. roll[b] = Cardinality(A \cup B)
      BY <3>3, <3>4, <3>5, <3>6, <3>7
    <3> QED BY <3>1, <3>8 DEF Exact, A, B
  <2> HIDE DEF T, k, roll, all, ns
  <2>9. ns \in Stats /\ ns.count # Null
    BY <2>1, <2>2, <2>3, <2>5, <2>6, StoreAssumption DEF Stats
  <2>10. st.count = SumOver(st.rollup, Buckets) => ns.count = SumOver(ns.rollup, Buckets)
    BY <2>2, <2>7
  <2>11. StartedKnown(ns) /\ SumsUp(ns, over)
    BY <1>0, <2>2, <2>9, <2>10, RollupSumIsSum DEF StartedKnown, SumsUp
  <2>12. ExactAhead(all, ns, del, drop, over)
    BY <1>0, <2>2, <2>8 DEF ExactAhead
  <2>13. ns.started /\ del = 0 /\ drop = {} => AllExact(all, ns)
    BY <1>0, <2>2, <2>8, <2>10, RollupSumIsSum DEF AllExact
  <2>14. Bounded(all, ns)
    <3>1. ns.oldest # Null /\ ns.newest # Null /\ ns.oldest \in Nat /\ ns.newest \in Nat
      BY <2>2, <2>5, <2>6, StoreAssumption
    <3>2. ASSUME NEW p \in live PROVE ns.oldest <= p[2] /\ p[2] <= ns.newest
      <4>1. /\ st.oldest # Null /\ st.oldest <= p[2]
            /\ st.newest # Null /\ p[2] <= st.newest
        BY <1>0, <1>3 DEF Bounded
      <4>2. st.oldest \in Nat /\ st.newest \in Nat /\ p[2] \in Nat
        BY <2>1, <4>1, FinitelyMany, StoreAssumption
      <4> QED BY <2>2, <2>5, <2>6, <3>1, <4>1, <4>2
    <3>3. ASSUME NEW p \in added PROVE ns.oldest <= p[2] /\ p[2] <= ns.newest
      BY <2>2, <2>4, <2>5, <2>6
    <3> QED BY <3>1, <3>2, <3>3 DEF Bounded, all
  <2> QED BY <2>9, <2>11, <2>12, <2>13, <2>14, CountsGoodParts DEF all, ns
<1> QED BY <1>1, <1>2, <1>3

\* The sum of the rollups when those of the buckets below a bound are set to 0.
LEMMA SumAboveBound ==
    ASSUME NEW f \in [Buckets -> Nat], NEW g \in [Buckets -> Nat], NEW c \in Nat,
           \A b \in Buckets : g[b] = IF b < c THEN 0 ELSE f[b]
    PROVE  /\ SumOver(f, {b \in Buckets : b < c}) \in Nat /\ SumOver(g, Buckets) \in Nat
           /\ SumOver(f, Buckets) = SumOver(f, {b \in Buckets : b < c}) + SumOver(g, Buckets)
<1> DEFINE low == {b \in Buckets : b < c}
           high == Buckets \ low
<1>1. IsFiniteSet(low) /\ IsFiniteSet(high) /\ low \in SUBSET Buckets
  BY FinitelyMany, FS_Subset
<1>2. SumOver(f, Buckets) = SumOver(f, low) + SumOver(f, high)
  BY <1>1, FinitelyMany, SumSplit
<1>3. SumOver(g, Buckets) = SumOver(g, low) + SumOver(g, high)
  BY <1>1, FinitelyMany, SumSplit
<1>4. SumOver(g, low) = 0
  <2>1. \A b \in low : g[b] = 0
    OBVIOUS
  <2> HIDE DEF low
  <2> QED BY <1>1, <2>1, SumZero
<1>5. SumOver(f, high) = SumOver(g, high)
  <2>1. \A b \in high : f[b] \in Nat /\ g[b] = f[b]
    BY FinitelyMany
  <2> HIDE DEF high
  <2> QED BY <1>1, <2>1, SumSame
<1>6. SumOver(f, low) \in Nat
  BY <1>1, SumType
<1>7. SumOver(g, Buckets) \in Nat
  BY FinitelyMany, SumType
<1>8. SumOver(g, high) \in Nat
  BY <1>1, SumType
<1> QED BY <1>2, <1>3, <1>4, <1>5, <1>6, <1>7, <1>8

\* What SettleCounts makes of the counts st when it subtracts n and clears up to c.
Subtracted(st, n, live) == IF st.started THEN Uncounted(st, n, live) ELSE st
ClearedBelow(st, c) ==
    [st EXCEPT !.rollup = [b \in Buckets |-> IF b < c THEN 0 ELSE @[b]]]

\* The subtraction touches neither the rollups nor whether they have started.
LEMMA SubtractedFacts ==
    ASSUME NEW st \in Stats, NEW n \in Nat, NEW live \in SUBSET Places, StartedKnown(st)
    PROVE  LET u == Subtracted(st, n, live)
           IN  /\ u \in Stats /\ u.started = st.started /\ u.rollup = st.rollup
               /\ n = 0 \/ ~st.started => u = st
               /\ st.started => u.count = PositiveDifference(st.count, n) /\ u.count \in Nat
               /\ st.count = Null <=> u.count = Null
               /\ st.started /\ n # 0 => Bounded(live, u)
<1>1. /\ st.count \in Nat \cup {Null} /\ st.started \in BOOLEAN
  BY DEF Stats
<1>2. CASE st.started
  <2>1. Subtracted(st, n, live) = Uncounted(st, n, live)
    BY <1>2 DEF Subtracted
  <2>2. st.count # Null /\ st.count \in Nat
    BY <1>1, <1>2 DEF StartedKnown
  <2>3. PositiveDifference(st.count, n) \in Nat
    BY <2>2 DEF PositiveDifference
  <2> HIDE DEF Uncounted
  <2>4. /\ Uncounted(st, n, live) \in Stats
        /\ Uncounted(st, n, live).started = st.started
        /\ Uncounted(st, n, live).rollup = st.rollup
        /\ n = 0 => Uncounted(st, n, live) = st
        /\ Uncounted(st, n, live).count = PositiveDifference(st.count, n)
    BY <2>2, UncountedFacts
  <2>5. n # 0 => Bounded(live, Uncounted(st, n, live))
    BY <2>2, UncountedFacts DEF Bounded
  <2> QED BY <1>2, <2>1, <2>2, <2>3, <2>4, <2>5, StoreAssumption
<1>3. CASE ~st.started
  BY <1>3 DEF Subtracted
<1> QED BY <1>1, <1>2, <1>3

\* Clearing changes the rollups below the cutoff and nothing else.
LEMMA ClearedFacts ==
    ASSUME NEW st \in Stats, NEW c \in Nat
    PROVE  LET u == ClearedBelow(st, c)
           IN  /\ u \in Stats /\ u.count = st.count /\ u.started = st.started
               /\ u.oldest = st.oldest /\ u.newest = st.newest
               /\ u.rollup \in [Buckets -> Nat]
               /\ \A b \in Buckets : u.rollup[b] = IF b < c THEN 0 ELSE st.rollup[b]
<1> DEFINE roll == [b \in Buckets |-> IF b < c THEN 0 ELSE st.rollup[b]]
<1>1. /\ st = [count |-> st.count, started |-> st.started, oldest |-> st.oldest,
               newest |-> st.newest, rollup |-> st.rollup]
      /\ st.count \in Nat \cup {Null} /\ st.started \in BOOLEAN
      /\ st.oldest \in Times \cup {Null} /\ st.newest \in Times \cup {Null}
      /\ st.rollup \in [Buckets -> Nat]
  BY DEF Stats
<1>2. roll \in [Buckets -> Nat]
  BY <1>1
<1>3. ClearedBelow(st, c) = [count |-> st.count, started |-> st.started, oldest |-> st.oldest,
                             newest |-> st.newest, rollup |-> roll]
  BY <1>1 DEF ClearedBelow
<1>4. \A b \in Buckets : roll[b] = IF b < c THEN 0 ELSE st.rollup[b]
  OBVIOUS
<1> HIDE DEF roll
<1> QED BY <1>1, <1>2, <1>3, <1>4 DEF Stats

\* Settling the counts after a deletion up to an aligned cutoff.
LEMMA SettledGood ==
    ASSUME NEW live \in SUBSET Places, NEW st \in Stats, NEW del \in Nat, NEW drop,
           NEW over \in BOOLEAN, CountsGood(live, st, del, drop, over),
           NEW c \in Nat, NEW del2 \in Nat, del <= del2, c <= del2,
           NEW n, n = SumOver(st.rollup, {b \in Buckets : b < c})
    PROVE  LET ns == ClearedBelow(Subtracted(st, n, live), c)
           IN  ns \in Stats /\ CountsGood(live, ns, del2, drop, over)
<1> DEFINE mid == Subtracted(st, n, live)
           ns == ClearedBelow(mid, c)
<1>0. /\ StartedKnown(st) /\ SumsUp(st, over) /\ ExactAhead(live, st, del, drop, over)
      /\ st.started /\ del = 0 /\ drop = {} => AllExact(live, st)
      /\ Bounded(live, st)
  BY CountsGoodParts
<1>1. /\ st.rollup \in [Buckets -> Nat] /\ st.started \in BOOLEAN
      /\ st.count \in Nat \cup {Null}
  BY DEF Stats
<1>2. n \in Nat
  <2>1. IsFiniteSet({b \in Buckets : b < c})
    BY FinitelyMany, FS_Subset
  <2> QED BY <1>1, <2>1, SumType
<1>3. /\ mid \in Stats /\ mid.started = st.started /\ mid.rollup = st.rollup
      /\ n = 0 \/ ~st.started => mid = st
      /\ st.started => mid.count = PositiveDifference(st.count, n) /\ mid.count \in Nat
      /\ st.count = Null <=> mid.count = Null
      /\ st.started /\ n # 0 => Bounded(live, mid)
  BY <1>0, <1>2, SubtractedFacts
<1> HIDE DEF mid
<1>4. /\ ns \in Stats /\ ns.count = mid.count /\ ns.started = st.started
      /\ ns.oldest = mid.oldest /\ ns.newest = mid.newest
      /\ ns.rollup \in [Buckets -> Nat]
      /\ \A b \in Buckets : ns.rollup[b] = IF b < c THEN 0 ELSE st.rollup[b]
  <2>1. /\ ns \in Stats /\ ns.count = mid.count /\ ns.started = mid.started
        /\ ns.oldest = mid.oldest /\ ns.newest = mid.newest
        /\ ns.rollup \in [Buckets -> Nat]
        /\ \A b \in Buckets : ns.rollup[b] = IF b < c THEN 0 ELSE mid.rollup[b]
    BY <1>3, ClearedFacts
  <2> HIDE DEF ns
  <2> QED BY <1>3, <2>1
<1> HIDE DEF ns
<1>5. /\ SumOver(ns.rollup, Buckets) \in Nat
      /\ SumOver(st.rollup, Buckets) = n + SumOver(ns.rollup, Buckets)
  BY <1>1, <1>4, SumAboveBound
<1>6. StartedKnown(ns)
  <2>1. ASSUME st.count = Null PROVE Zero(ns.rollup)
    BY <1>0, <1>4, <2>1 DEF StartedKnown, Zero
  <2> QED BY <1>0, <1>3, <1>4, <2>1 DEF StartedKnown
<1>7. ASSUME st.started, st.count = SumOver(st.rollup, Buckets)
      PROVE  ns.count = SumOver(ns.rollup, Buckets)
  BY <1>2, <1>3, <1>4, <1>5, <1>7 DEF PositiveDifference
<1>8. SumsUp(ns, over)
  BY <1>0, <1>4, <1>7, RollupSumIsSum DEF SumsUp
<1>9. ExactAhead(live, ns, del2, drop, over)
  <2> SUFFICES ASSUME st.started, NEW b \in Buckets, b >= del2, b \notin drop, ~over
               PROVE  Exact(ns.rollup, live, b)
    BY <1>4 DEF ExactAhead
  <2>1. b >= del /\ ~(b < c)
    BY FinitelyMany
  <2>2. Exact(st.rollup, live, b)
    BY <1>0, <2>1 DEF ExactAhead
  <2> QED BY <1>4, <2>1, <2>2 DEF Exact
<1>10. ASSUME st.started, del2 = 0, drop = {} PROVE AllExact(live, ns)
  <2>1. AllExact(live, st) /\ c = 0
    BY <1>0, <1>10
  <2>2. \A b \in Buckets : ns.rollup[b] = st.rollup[b]
    BY <1>4, <2>1, FinitelyMany
  <2>3. ns.count = SumOver(ns.rollup, Buckets)
    BY <1>7, <1>10, <2>1, RollupSumIsSum DEF AllExact
  <2> QED BY <2>1, <2>2, <2>3, RollupSumIsSum DEF AllExact, Exact
<1>11. Bounded(live, ns)
  <2>1. Bounded(live, mid)
    BY <1>0, <1>3
  <2> QED BY <1>4, <2>1 DEF Bounded
<1>12. CountsGood(live, ns, del2, drop, over)
  BY <1>4, <1>6, <1>8, <1>9, <1>10, <1>11, CountsGoodParts
<1> QED BY <1>4, <1>12 DEF ns, mid

\* What TrimBefore makes of the rollups: part is the part of the cutoff's own bucket.
RolledBelow(st, c, part) ==
    [st EXCEPT !.rollup = [b \in Buckets |->
        IF b < BucketStart(c) THEN 0
        ELSE IF b = BucketStart(c) THEN PositiveDifference(@[b], Cardinality(part))
             ELSE @[b]]]

\* Only the rollups up to the cutoff's bucket change.
LEMMA RolledFacts ==
    ASSUME NEW st \in Stats, NEW c \in Nat, NEW part \in SUBSET Places,
           NEW u, u = RolledBelow(st, c, part)
    PROVE  /\ u \in Stats /\ u.count = st.count /\ u.started = st.started
           /\ u.oldest = st.oldest /\ u.newest = st.newest
           /\ u.rollup \in [Buckets -> Nat]
           /\ \A b \in Buckets : u.rollup[b] =
                 IF b < BucketStart(c) THEN 0
                 ELSE IF b = BucketStart(c)
                      THEN PositiveDifference(st.rollup[b], Cardinality(part))
                      ELSE st.rollup[b]
<1> DEFINE roll == [b \in Buckets |->
                IF b < BucketStart(c) THEN 0
                ELSE IF b = BucketStart(c) THEN PositiveDifference(st.rollup[b], Cardinality(part))
                     ELSE st.rollup[b]]
<1>1. /\ st = [count |-> st.count, started |-> st.started, oldest |-> st.oldest,
               newest |-> st.newest, rollup |-> st.rollup]
      /\ st.count \in Nat \cup {Null} /\ st.started \in BOOLEAN
      /\ st.oldest \in Times \cup {Null} /\ st.newest \in Times \cup {Null}
      /\ st.rollup \in [Buckets -> Nat]
  BY DEF Stats
<1>2. roll \in [Buckets -> Nat]
  <2>1. Cardinality(part) \in Nat
    BY PartsFinite
  <2> QED BY <1>1, <2>1 DEF PositiveDifference
<1>3. u = [count |-> st.count, started |-> st.started,
                        oldest |-> st.oldest, newest |-> st.newest, rollup |-> roll]
  BY <1>1 DEF RolledBelow
<1>4. \A b \in Buckets : roll[b] =
          IF b < BucketStart(c) THEN 0
          ELSE IF b = BucketStart(c) THEN PositiveDifference(st.rollup[b], Cardinality(part))
               ELSE st.rollup[b]
  OBVIOUS
<1> HIDE DEF roll
<1> QED BY <1>1, <1>2, <1>3, <1>4 DEF Stats

\* Where the samples of the buckets around a cutoff are.
LEMMA BucketsAroundCutoff ==
    ASSUME NEW c \in Nat, NEW p \in Places
    PROVE  /\ BucketStart(p[2]) < BucketStart(c) => p[2] < c
           /\ BucketStart(p[2]) > BucketStart(c) => p[2] >= c
           /\ BucketStart(c) <= p[2] /\ p[2] < c => BucketStart(p[2]) = BucketStart(c)
           /\ BucketStart(p[2]) = BucketStart(c) => BucketStart(c) <= p[2]
<1> DEFINE t == p[2]
<1>1. t \in Nat
  BY FinitelyMany
<1> HIDE DEF t
<1>2. /\ BucketStart(t) \in Nat /\ BucketStart(t) <= t /\ t < BucketStart(t) + Bucket
      /\ BucketStart(c) \in Nat /\ BucketStart(c) <= c /\ c < BucketStart(c) + Bucket
  BY <1>1, BucketStartBounds
<1>3. /\ BucketStart(t) < BucketStart(c) => BucketStart(t) + Bucket <= BucketStart(c)
      /\ BucketStart(c) < BucketStart(t) => BucketStart(c) + Bucket <= BucketStart(t)
  BY <1>1, BucketStartsApart
<1>4. /\ BucketStart(t) < BucketStart(c) => t < c
      /\ BucketStart(t) > BucketStart(c) => t >= c
      /\ BucketStart(c) <= t /\ t < c => BucketStart(t) = BucketStart(c)
      /\ BucketStart(t) = BucketStart(c) => BucketStart(c) <= t
  BY <1>1, <1>2, <1>3, StoreAssumption
<1> QED BY <1>4 DEF t

\* The rollups f with the bucket s lowered by k and those before it cleared are g.
RollsTo(f, g, s, k) ==
    \A b \in Buckets : g[b] = IF b < s THEN 0
                              ELSE IF b = s THEN PositiveDifference(f[b], k) ELSE f[b]

\* The sum of the rollups falls by what retention subtracts from the count, or by less.
LEMMA RolledSum ==
    ASSUME NEW f \in [Buckets -> Nat], NEW g \in [Buckets -> Nat], NEW s \in Nat, NEW k \in Nat,
           s \notin Buckets => k = 0, RollsTo(f, g, s, k),
           NEW n, n = SumOver(f, {b \in Buckets : b < s}) + k
    PROVE  /\ n \in Nat /\ SumOver(f, Buckets) \in Nat /\ SumOver(g, Buckets) \in Nat
           /\ SumOver(f, Buckets) <= n + SumOver(g, Buckets)
           /\ (s \in Buckets => k <= f[s]) => SumOver(f, Buckets) = n + SumOver(g, Buckets)
<1> DEFINE h == [b \in Buckets |-> IF b < s THEN 0 ELSE f[b]]
           low == SumOver(f, {b \in Buckets : b < s})
           rest == Buckets \ {s}
<1>0. \A b \in Buckets : g[b] = IF b < s THEN 0
                                  ELSE IF b = s THEN PositiveDifference(f[b], k) ELSE f[b]
  BY DEF RollsTo
<1>1. h \in [Buckets -> Nat] /\ \A b \in Buckets : h[b] = IF b < s THEN 0 ELSE f[b]
  OBVIOUS
<1> HIDE DEF h
<1>2. low \in Nat /\ SumOver(h, Buckets) \in Nat /\ SumOver(f, Buckets) = low + SumOver(h, Buckets)
  BY <1>1, SumAboveBound
<1> HIDE DEF low
<1>3. SumOver(g, Buckets) \in Nat
  BY FinitelyMany, SumType
<1>4. CASE s \in Buckets
  <2>1. IsFiniteSet(rest)
    BY FinitelyMany, FS_RemoveElement
  <2>2. SumOver(g, Buckets) = g[s] + SumOver(g, rest)
    BY <1>4, FinitelyMany, SumRemove
  <2>3. SumOver(h, Buckets) = h[s] + SumOver(h, rest)
    BY <1>1, <1>4, FinitelyMany, SumRemove
  <2>4. \A b \in rest : g[b] \in Nat /\ h[b] = g[b]
    BY <1>0, <1>1
  <2> HIDE DEF rest
  <2>5. SumOver(g, rest) = SumOver(h, rest)
    BY <2>1, <2>4, SumSame
  <2>6. SumOver(g, rest) \in Nat
    BY <2>1, <2>4, SumType
  <2>7. f[s] \in Nat /\ h[s] = f[s] /\ g[s] = PositiveDifference(f[s], k)
    BY <1>0, <1>1, <1>4
  <2>8. f[s] <= k + g[s] /\ (k <= f[s] => f[s] = k + g[s])
    BY <2>7 DEF PositiveDifference
  <2>9. g[s] \in Nat
    BY <1>4
  <2> QED BY <1>2, <1>3, <1>4, <2>2, <2>3, <2>5, <2>6, <2>7, <2>8, <2>9 DEF low
<1>5. CASE s \notin Buckets
  <2>1. k = 0
    BY <1>5
  <2>2. \A b \in Buckets : g[b] \in Nat /\ h[b] = g[b]
    BY <1>0, <1>1, <1>5
  <2>3. SumOver(g, Buckets) = SumOver(h, Buckets)
    BY <2>2, FinitelyMany, SumSame
  <2> QED BY <1>2, <1>3, <2>1, <2>3 DEF low
<1> QED BY <1>4, <1>5

\* The samples of a cutoff's bucket that a deletion up to it takes, and those it leaves.
PartBelow(live, c) == {p \in live : BucketStart(c) <= p[2] /\ p[2] < c}
LeftFrom(live, c) == {p \in live : p[2] >= c}

\* What collectRetentionCounts counts of them.
RetentionCount(st, c, part) ==
    SumOver(st.rollup, {b \in Buckets : b < BucketStart(c)}) + Cardinality(part)

\* What is overdrawn after a deletion that counted n for the rollups it cleared.
OverdrawnBy(over2, over, n, st, rolled) ==
    over \/ n > SumOver(st.rollup, Buckets) - SumOver(rolled.rollup, Buckets) => over2

\* A bucket that was exact is exact after the samples below a cutoff are gone.
LEMMA RolledExact ==
    ASSUME NEW live \in SUBSET Places, NEW c \in Nat, NEW b \in Buckets,
           NEW r \in Nat, r = Cardinality(OfBucket(live, b)),
           NEW part, part = PartBelow(live, c), NEW left, left = LeftFrom(live, c)
    PROVE  /\ b = BucketStart(c) => Cardinality(part) <= r
           /\ Cardinality(OfBucket(left, b)) =
                 IF b < BucketStart(c) THEN 0
                 ELSE IF b = BucketStart(c) THEN PositiveDifference(r, Cardinality(part)) ELSE r
<1>0. b \in Nat /\ BucketStart(c) \in Nat /\ left \in SUBSET Places /\ part \in SUBSET Places
  BY FinitelyMany, BucketStartBounds DEF PartBelow, LeftFrom
<1>1. CASE b < BucketStart(c)
  <2>1. \A p \in left : ~(BucketStart(p[2]) = b)
    <3>1. TAKE p \in left
    <3>2. p \in Places /\ p[2] \in Nat /\ ~(p[2] < c)
      BY <1>0, FinitelyMany DEF LeftFrom
    <3> QED BY <1>1, <3>2, BucketsAroundCutoff
  <2>2. OfBucket(left, b) = {}
    BY <2>1 DEF OfBucket
  <2>3. Cardinality(OfBucket(left, b)) = 0 /\ b # BucketStart(c)
    BY <1>0, <1>1, <2>2, FS_EmptySet
  <2> HIDE DEF OfBucket
  <2> QED BY <1>1, <2>3, Zenon
<1>2. CASE b = BucketStart(c)
  <2> DEFINE A == OfBucket(left, b)
  <2>1. OfBucket(live, b) = part \cup A
    <3>1. ASSUME NEW p \in OfBucket(live, b) PROVE p \in part \cup A
      <4>1. p \in live /\ p \in Places /\ BucketStart(p[2]) = b /\ p[2] \in Nat
        BY <3>1, FinitelyMany DEF OfBucket
      <4>2. BucketStart(c) <= p[2]
        BY <1>2, <4>1, BucketsAroundCutoff
      <4> QED BY <4>1, <4>2 DEF OfBucket, PartBelow, LeftFrom
    <3>2. ASSUME NEW p \in part PROVE p \in OfBucket(live, b)
      <4>1. p \in live /\ p \in Places /\ BucketStart(c) <= p[2] /\ p[2] < c
        BY DEF PartBelow
      <4> QED BY <1>2, <4>1, BucketsAroundCutoff DEF OfBucket
    <3>3. A \subseteq OfBucket(live, b)
      BY DEF OfBucket, LeftFrom
    <3> QED BY <3>1, <3>2, <3>3
  <2>2. part \cap A = {}
    <3>1. ASSUME NEW p \in part, p \in A PROVE FALSE
      BY <3>1, FinitelyMany DEF OfBucket, PartBelow, LeftFrom
    <3> QED BY <3>1
  <2>3. /\ IsFiniteSet(part) /\ Cardinality(part) \in Nat
        /\ IsFiniteSet(A) /\ Cardinality(A) \in Nat
    BY <1>0, PartsFinite
  <2> HIDE DEF A
  <2>4. Cardinality(part \cup A) = Cardinality(part) + Cardinality(A) - Cardinality(part \cap A)
    BY <2>3, FS_Union
  <2>5. Cardinality(part \cap A) = 0
    BY <2>2, FS_EmptySet
  <2>6. r = Cardinality(part) + Cardinality(A)
    BY <2>1, <2>3, <2>4, <2>5
  <2>7. PositiveDifference(r, Cardinality(part)) = Cardinality(A) /\ Cardinality(part) <= r
    BY <2>3, <2>6 DEF PositiveDifference
  <2> QED BY <1>0, <1>2, <2>7 DEF A
<1>3. CASE b > BucketStart(c)
  <2>1. \A p \in live : BucketStart(p[2]) = b => p \in left
    <3>1. TAKE p \in live
    <3> QED BY <1>3, BucketsAroundCutoff DEF LeftFrom
  <2>2. OfBucket(left, b) = OfBucket(live, b)
    BY <2>1 DEF OfBucket, LeftFrom
  <2> QED BY <1>0, <1>3, <2>2
<1> QED BY <1>0, <1>1, <1>2, <1>3

\* The rollups and their sum after a deletion.
LEMMA TrimmedSum ==
    ASSUME NEW st \in Stats, NEW c \in Nat, NEW part \in SUBSET Places,
           \A p \in part : BucketStart(c) <= p[2] /\ p[2] < c,
           NEW rolled, rolled = RolledBelow(st, c, part), NEW n, n = RetentionCount(st, c, part)
    PROVE  /\ n \in Nat /\ SumOver(st.rollup, Buckets) \in Nat
           /\ SumOver(rolled.rollup, Buckets) \in Nat
           /\ SumOver(st.rollup, Buckets) <= n + SumOver(rolled.rollup, Buckets)
           /\ (BucketStart(c) \in Buckets => Cardinality(part) <= st.rollup[BucketStart(c)]) =>
                 SumOver(st.rollup, Buckets) = n + SumOver(rolled.rollup, Buckets)
<1> DEFINE f == st.rollup
           g == rolled.rollup
           s == BucketStart(c)
           k == Cardinality(part)
<1>1. s \in Nat /\ k \in Nat /\ n = SumOver(f, {b \in Buckets : b < s}) + k
  BY PartsFinite, BucketStartBounds DEF RetentionCount
<1>2. s \notin Buckets => k = 0
  <2>1. ASSUME NEW p \in part PROVE s \in Buckets
    BY BucketsAroundCutoff, FinitelyMany
  <2>2. s \notin Buckets => part = {}
    BY <2>1
  <2> QED BY <2>2, FS_EmptySet
<1>3. f \in [Buckets -> Nat] /\ g \in [Buckets -> Nat]
  BY RolledFacts DEF Stats
<1>4. RollsTo(f, g, s, k)
  BY RolledFacts DEF RollsTo
<1> HIDE DEF f, g, s, k
<1>5. /\ n \in Nat /\ SumOver(f, Buckets) \in Nat /\ SumOver(g, Buckets) \in Nat
      /\ SumOver(f, Buckets) <= n + SumOver(g, Buckets)
      /\ (s \in Buckets => k <= f[s]) => SumOver(f, Buckets) = n + SumOver(g, Buckets)
  BY <1>1, <1>2, <1>3, <1>4, RolledSum
<1> QED BY <1>5 DEF f, g, s, k

\* deleteBefore keeps the counts good; where it found less in the cutoff's bucket
\* than there was to subtract, they are overdrawn.
LEMMA TrimmedGood ==
    ASSUME NEW live \in SUBSET Places, NEW st \in Stats, NEW del \in Nat, NEW drop,
           NEW over, CountsGood(live, st, del, drop, over), NEW c \in Nat,
           NEW part, part = PartBelow(live, c), NEW left, left = LeftFrom(live, c),
           NEW n, n = RetentionCount(st, c, part),
           NEW rolled, rolled = RolledBelow(st, c, part),
           NEW over2
    PROVE  st.started /\ OverdrawnBy(over2, over, n, st, rolled) => /\ Uncounted(rolled, n, left) \in Stats
                         /\ CountsGood(left, Uncounted(rolled, n, left), del, drop, over2)
<1> DEFINE u == Uncounted(rolled, n, left)
           s == BucketStart(c)
           k == Cardinality(part)
<1>1. st.rollup \in [Buckets -> Nat]
  BY DEF Stats
<1>2. /\ part \in SUBSET Places /\ left \in SUBSET Places /\ left \subseteq live
      /\ k \in Nat /\ s \in Nat
  <2>1. part \in SUBSET Places /\ left \in SUBSET Places /\ left \subseteq live
    BY DEF PartBelow, LeftFrom
  <2> QED BY <2>1, PartsFinite, BucketStartBounds
<1>3. /\ rolled \in Stats /\ rolled.count = st.count /\ rolled.started = st.started
      /\ rolled.oldest = st.oldest /\ rolled.newest = st.newest
      /\ rolled.rollup \in [Buckets -> Nat]
      /\ \A b \in Buckets : rolled.rollup[b] =
            IF b < BucketStart(c) THEN 0
            ELSE IF b = BucketStart(c)
                 THEN PositiveDifference(st.rollup[b], Cardinality(part))
                 ELSE st.rollup[b]
  <2>1. part \in SUBSET Places
    BY <1>2
  <2> HIDE DEF u, s, k
  <2> QED BY <2>1, RolledFacts
<1>4. /\ n \in Nat /\ SumOver(st.rollup, Buckets) \in Nat
      /\ SumOver(rolled.rollup, Buckets) \in Nat
      /\ SumOver(st.rollup, Buckets) <= n + SumOver(rolled.rollup, Buckets)
      /\ (BucketStart(c) \in Buckets => Cardinality(part) <= st.rollup[BucketStart(c)]) =>
            SumOver(st.rollup, Buckets) = n + SumOver(rolled.rollup, Buckets)
  <2>1. part \in SUBSET Places /\ \A p \in part : BucketStart(c) <= p[2] /\ p[2] < c
    BY <1>2 DEF PartBelow
  <2> HIDE DEF u, s, k
  <2> QED BY <2>1, TrimmedSum
<1> HIDE DEF k, s
<1>5. (s \in Buckets => k <= st.rollup[s]) =>
          SumOver(st.rollup, Buckets) = n + SumOver(rolled.rollup, Buckets)
  BY <1>4 DEF s, k
<1>6. SUFFICES ASSUME st.started, OverdrawnBy(over2, over, n, st, rolled)
      PROVE  u \in Stats /\ CountsGood(left, u, del, drop, over2)
  OBVIOUS
<1>7. /\ StartedKnown(st) /\ SumsUp(st, over) /\ ExactAhead(live, st, del, drop, over)
      /\ st.started /\ del = 0 /\ drop = {} => AllExact(live, st)
      /\ Bounded(live, st)
  BY CountsGoodParts
<1>8. st.count \in Nat
  BY <1>7, <1>6 DEF Stats, StartedKnown
<1>9. /\ u \in Stats /\ u.started = rolled.started /\ u.rollup = rolled.rollup
      /\ u.count = PositiveDifference(st.count, n) /\ u.count \in Nat
      /\ n = 0 => u = rolled
      /\ n # 0 => Bounded(left, u)
  <2>1. rolled.count # Null /\ rolled.count \in Nat
    BY <1>8, <1>3, StoreAssumption
  <2>2. PositiveDifference(st.count, n) \in Nat
    BY <1>8, <1>4 DEF PositiveDifference
  <2>3. /\ u \in Stats /\ u.started = rolled.started /\ u.rollup = rolled.rollup
        /\ u.count = PositiveDifference(rolled.count, n)
        /\ n = 0 => u = rolled
    BY <1>2, <1>3, <1>4, <2>1, UncountedFacts
  <2>4. n # 0 => Bounded(left, u)
    BY <1>2, <1>3, <1>4, <2>1, UncountedFacts DEF Bounded
  <2> HIDE DEF u
  <2> QED BY <1>3, <2>2, <2>3, <2>4
<1> HIDE DEF u
<1>10. ASSUME st.count = SumOver(st.rollup, Buckets),
             SumOver(st.rollup, Buckets) = n + SumOver(rolled.rollup, Buckets)
      PROVE  u.count = SumOver(u.rollup, Buckets)
  BY <1>8, <1>4, <1>9, <1>10 DEF PositiveDifference
<1>11. ASSUME NEW b \in Buckets, Exact(st.rollup, live, b)
      PROVE  Exact(u.rollup, left, b) /\ (b = s => k <= st.rollup[b])
  <2> DEFINE r == st.rollup[b]
  <2>1. r \in Nat /\ r = Cardinality(OfBucket(live, b))
    BY <1>1, <1>11 DEF Exact
  <2>2. u.rollup[b] = IF b < s THEN 0 ELSE IF b = s THEN PositiveDifference(r, k) ELSE r
    BY <1>3, <1>9 DEF s, k
  <2> HIDE DEF r
  <2>3. /\ b = s => k <= r
        /\ Cardinality(OfBucket(left, b)) =
              IF b < s THEN 0 ELSE IF b = s THEN PositiveDifference(r, k) ELSE r
    BY <2>1, RolledExact DEF s, k
  <2> QED BY <2>2, <2>3 DEF Exact, r
<1>12. StartedKnown(u)
  BY <1>9, <1>6, StoreAssumption DEF StartedKnown
<1>13. SumsUp(u, over2)
  <2> SUFFICES ASSUME ~over2 PROVE u.count = SumOver(u.rollup, Buckets)
    BY RollupSumIsSum DEF SumsUp
  <2>1. st.count = SumOver(st.rollup, Buckets)
    BY <1>6, <1>7, RollupSumIsSum DEF SumsUp, OverdrawnBy
  <2>2. ~(n > SumOver(st.rollup, Buckets) - SumOver(rolled.rollup, Buckets))
    BY <1>6 DEF OverdrawnBy
  <2>3. SumOver(st.rollup, Buckets) = n + SumOver(rolled.rollup, Buckets)
    BY <1>4, <2>2
  <2> QED BY <1>10, <2>1, <2>3
<1>14. ExactAhead(left, u, del, drop, over2)
  <2> SUFFICES ASSUME NEW b \in Buckets, b >= del, b \notin drop, ~over2
               PROVE  Exact(u.rollup, left, b)
    BY DEF ExactAhead
  <2>1. Exact(st.rollup, live, b)
    BY <1>6, <1>7 DEF ExactAhead, OverdrawnBy
  <2> QED BY <1>11, <2>1
<1>15. ASSUME del = 0, drop = {} PROVE AllExact(left, u)
  <2>1. st.count = SumOver(st.rollup, Buckets) /\ \A b \in Buckets : Exact(st.rollup, live, b)
    BY <1>7, <1>6, <1>15, RollupSumIsSum DEF AllExact
  <2>2. s \in Buckets => k <= st.rollup[s]
    BY <1>11, <2>1
  <2>3. u.count = SumOver(u.rollup, Buckets)
    BY <1>5, <1>10, <2>1, <2>2
  <2> QED BY <1>11, <2>1, <2>3, RollupSumIsSum DEF AllExact
<1>16. Bounded(left, u)
  <2>1. Bounded(left, rolled)
    BY <1>7, <1>6, <1>2, <1>3 DEF Bounded
  <2> QED BY <1>9, <2>1
<1>17. CountsGood(left, u, del, drop, over2)
  BY <1>12, <1>13, <1>14, <1>15, <1>16, CountsGoodParts
<1> QED BY <1>9, <1>17 DEF u

--------------------------------------------------------------------------------
(* The tables.                                                             *)

\* A table gives ids to some of the series.
LEMMA TableIs ==
    \A f : f \in SeriesTables <=> DOMAIN f \in SUBSET Keys /\ f \in [DOMAIN f -> 1..MaxId]
  BY DEF SeriesTables

\* An empty table is a table.
LEMMA EmptyTable == [k \in {} |-> 1] \in SeriesTables
  BY TableIs

\* The greater of two numbers.
LEMMA MaxOfTwo == \A a, b \in Nat : Max({a, b}) \in Nat /\ a <= Max({a, b}) /\ b <= Max({a, b})
<1>1. TAKE a, b \in Nat
<1>2. IsFiniteSet({a, b})
  <2>1. IsFiniteSet({a} \cup {b})
    BY FS_Singleton, FS_AddElement
  <2>2. {a} \cup {b} = {a, b}
    OBVIOUS
  <2> QED BY <2>1, <2>2
<1>3. Max({a, b}) \in {a, b} /\ \A y \in {a, b} : y <= Max({a, b})
  BY <1>2, MaxIsGreatest
<1> QED BY <1>3

\* The id of a new series is above those of the table.
LEMMA NextIdIsNew ==
    ASSUME series \in SeriesTables
    PROVE  NextId \in Nat \ {0} /\ \A k \in DOMAIN series : series[k] < NextId
<1> DEFINE T == {0} \cup {series[k] : k \in DOMAIN series}
<1>1. \A k \in DOMAIN series : series[k] \in 1..MaxId
  BY TableIs
<1>2. T \in SUBSET Nat /\ T # {} /\ \A x \in T : x <= MaxId
  BY <1>1, StoreAssumption
<1> HIDE DEF T
<1>3. IsFiniteSet(T)
  BY <1>2, StoreAssumption, FS_BoundedSetOfNaturals
<1>4. Max(T) \in T /\ \A y \in T : y <= Max(T)
  BY <1>2, <1>3, MaxIsGreatest
<1>5. NextId = 1 + Max(T)
  BY DEF NextId, T
<1>6. \A k \in DOMAIN series : series[k] \in T /\ series[k] \in Nat
  BY <1>1 DEF T
<1>7. Max(T) \in Nat
  BY <1>2, <1>4
<1> HIDE DEF NextId
<1> QED BY <1>4, <1>5, <1>6, <1>7

\* Where the samples of the table are.
LEMMA LiveIsPlaces ==
    ASSUME NEW h \in SUBSET SampleSet, NEW c \in SUBSET SampleSet
    PROVE  Live(h, c) \in SUBSET Places
  BY DEF Live, At, SampleSet, Places

\* The call that runs.
LEMMA HeadIsCall ==
    ASSUME queue \in Seq(Calls), queue # <<>>
    PROVE  /\ Head(queue) \in Calls /\ Tail(queue) \in Seq(Calls)
           /\ Head(queue).rows \subseteq Keys \X Times
           /\ Head(queue).cutoff \in Nat
<1>1. Head(queue) \in Calls /\ Tail(queue) \in Seq(Calls)
  OBVIOUS
<1>2. \A c \in Calls : c.rows \in Batches \cup {{}} /\ c.cutoff \in Cutoffs \cup {0}
  BY DEF Calls
<1>3. \A c \in Calls : c.rows \subseteq Keys \X Times /\ c.cutoff \in Nat
  <2>1. \A B \in Batches \cup {{}} : B \subseteq Keys \X Times
    BY StoreAssumption, Zenon
  <2>2. \A n \in Cutoffs \cup {0} : n \in Nat
    BY StoreAssumption
  <2> QED BY <1>2, <2>1, <2>2, Zenon
<1> QED BY <1>1, <1>3

--------------------------------------------------------------------------------
(* The queue's part of the invariant.                                      *)

\* Every step keeps the queue's part.
LEMMA QueueNext ==
    ASSUME QueueOK, [Next]_vars
    PROVE  QueueOK'
<1>1. ASSUME Ends, queue # <<>>, UNCHANGED calls, status' = status, status \in {"open", "closing"}
      PROVE  QueueOK'
  BY <1>1, HeadIsCall DEF Ends, QueueOK
<1>2. ASSUME NEW there \in {"create", "rollback", "clear", "load"}, Goes(there), queue # <<>>,
             UNCHANGED calls, status' = status, status \in {"open", "closing"}
      PROVE  QueueOK'
  BY <1>2 DEF Goes, QueueOK
<1>3. \A kinds : Running(kinds) => queue # <<>> /\ status \in {"open", "closing"}
  BY DEF Running
<1>4. pc \in {"create", "rollback", "clear", "load"} =>
          queue # <<>> /\ status \in {"open", "closing"}
  BY DEF QueueOK
<1>5. CASE StoreStep
  <2>1. CASE IngestBegins
    BY <1>1, <1>2, <1>3, <2>1 DEF IngestBegins, Here
  <2>2. CASE CreateSeries
    BY <1>2, <1>4, <2>2 DEF CreateSeries, Here
  <2>3. CASE WriteRows
    BY <1>1, <1>4, <2>3 DEF WriteRows, Here
  <2>4. CASE IngestFails
    BY <1>2, <1>4, <2>4 DEF IngestFails, Here
  <2>5. CASE IngestRollsBack
    BY <1>2, <1>4, <2>5 DEF IngestRollsBack, Here
  <2>6. CASE ClearCache
    BY <1>2, <1>4, <2>6 DEF ClearCache, Here
  <2>7. CASE LoadCache
    BY <1>1, <1>4, <2>7 DEF LoadCache, Here
  <2>8. CASE CompactBatch
    BY <1>1, <1>3, <2>8 DEF CompactBatch, Here
  <2>9. CASE ExpireBatch
    BY <1>1, <1>3, <2>9 DEF ExpireBatch, Here
  <2>10. CASE SettleCounts
    BY <1>1, <1>3, <2>10 DEF SettleCounts, Here
  <2>11. CASE PruneSeries
    BY <1>2, <1>3, <2>11 DEF PruneSeries, Here
  <2>12. CASE TrimBefore
    BY <1>2, <1>3, <2>12 DEF TrimBefore, Here
  <2>13. CASE FailsWhole
    BY <1>1, <1>3, <2>13 DEF FailsWhole, Here
  <2>14. CASE Read
    BY <1>1, <1>3, <2>14 DEF Read, Here
  <2>15. CASE CloseEnds
    BY <2>15 DEF CloseEnds, QueueOK
  <2> QED BY <1>5, <2>1, <2>2, <2>3, <2>4, <2>5, <2>6, <2>7, <2>8, <2>9, <2>10, <2>11,
             <2>12, <2>13, <2>14, <2>15 DEF StoreStep
<1>6. CASE Enqueue
  <2>1. PICK c \in Calls : queue' = Append(queue, c)
    BY <1>6 DEF Enqueue
  <2>2. queue' \in Seq(Calls) /\ queue' # <<>>
    BY <2>1 DEF QueueOK
  <2>3. calls' \in 0..MaxCalls
    BY <1>6, StoreAssumption DEF Enqueue, QueueOK
  <2> QED BY <1>6, <2>2, <2>3 DEF Enqueue, QueueOK
<1>7. CASE Close
  BY <1>7 DEF Close, QueueOK
<1>8. CASE Crash
  BY <1>8 DEF Crash, QueueOK
<1>9. CASE Open
  BY <1>9 DEF Open, QueueOK
<1>10. CASE InitLoads
  BY <1>10 DEF InitLoads, QueueOK
<1>11. CASE InitCounts
  BY <1>11 DEF InitCounts, QueueOK
<1>12. CASE InitStartsRollups
  BY <1>12 DEF InitStartsRollups, QueueOK
<1>13. CASE InitFails
  BY <1>13 DEF InitFails, QueueOK
<1>14. CASE UNCHANGED vars
  BY <1>14 DEF vars, QueueOK
<1> QED BY <1>5, <1>6, <1>7, <1>8, <1>9, <1>10, <1>11, <1>12, <1>13, <1>14 DEF Next

--------------------------------------------------------------------------------
(* The tables' part of the invariant.                                      *)

\* What the cache is worth, by the state it is looked at in.
CacheGood(c, table, isOpen, at, short) ==
    isOpen /\ at # "clear" => Extends(c, table) /\ (~short /\ at # "load" => c = table)

\* CacheFollowsTable looks at these five things only,
LEMMA CacheFollowsIs ==
    CacheFollowsTable <=> CacheGood(cache, series, IsOpen, pc, unloaded)
  BY DEF CacheFollowsTable, CacheGood, LabelNames, Extends

\* in the next state too.
LEMMA CacheFollowsNextIs ==
    CacheFollowsTable' <=> CacheGood(cache', series', IsOpen', pc', unloaded')
  BY DEF CacheFollowsTable, CacheGood, LabelNames, Extends

\* A step that leaves the tables and the cache alone, in no transaction or the same one.
LEMMA TablesSame ==
    ASSUME TablesOK, UNCHANGED <<series, hot, cold, stats, cache, saved, unloaded, overdrawn>>,
           recovered' \in BOOLEAN,
           pc \in {"create", "rollback"} <=> pc' \in {"create", "rollback"},
           IsOpen' /\ pc' # "clear" => IsOpen /\ pc # "clear" /\ (pc = "load" => pc' = "load"),
           pc' \in {"count", "started"} => cache = series
    PROVE  TablesOK'
<1>1. TransactionOK'
  BY DEF TablesOK, TransactionOK, Agrees
<1>2. CacheFollowsTable'
  BY DEF TablesOK, CacheFollowsTable, LabelNames, Extends
<1> QED BY <1>1, <1>2 DEF TablesOK, SamplesKeepTheirSeries

\* A step outside a transaction: each part by itself.
LEMMA TablesOutside ==
    ASSUME TablesOK, series' \in SeriesTables, cache' \in SeriesTables,
           hot' \subseteq SampleSet, cold' \subseteq SampleSet,
           {recovered', unloaded', overdrawn'} \subseteq BOOLEAN,
           pc' \notin {"create", "rollback"}, saved' = Null,
           Agrees(hot' \cup cold', series'), CacheFollowsTable',
           pc' \in {"count", "started"} => cache' = series'
    PROVE  TablesOK'
  BY DEF TablesOK, TransactionOK, SamplesKeepTheirSeries, Agrees

\* Prune keeps the series that have samples, with their ids.
LEMMA PruneAgrees ==
    ASSUME series \in SeriesTables, NEW h, NEW c, Agrees(h \cup c, series)
    PROVE  WithSamples(h, c) \in SeriesTables /\ Agrees(h \cup c, WithSamples(h, c))
<1> DEFINE used == {k \in DOMAIN series : \E r \in h \cup c : r.id = series[k]}
           w == [k \in used |-> series[k]]
<1>1. WithSamples(h, c) = w
  BY DEF WithSamples
<1>2. DOMAIN w \in SUBSET Keys /\ w \in [DOMAIN w -> 1..MaxId]
  BY TableIs
<1>3. w \in SeriesTables
  BY <1>2, TableIs
<1>4. ASSUME NEW r \in h \cup c PROVE r.key \in DOMAIN w /\ w[r.key] = r.id
  BY DEF Agrees
<1> HIDE DEF w
<1> QED BY <1>1, <1>3, <1>4 DEF Agrees

\* The tables' part holds at the start.
LEMMA TablesStart == Init => TablesOK
<1> SUFFICES ASSUME Init PROVE TablesOK
  OBVIOUS
<1>1. series \in SeriesTables /\ cache \in SeriesTables
  <2>1. CASE series = [k \in {} |-> 1]
    BY <2>1, EmptyTable DEF Init
  <2>2. CASE \E k \in Keys : series = [x \in {k} |-> 1]
    <3>1. PICK k \in Keys : series = [x \in {k} |-> 1]
      BY <2>2
    <3>2. 1 \in 1..MaxId
      BY StoreAssumption
    <3>3. DOMAIN series \in SUBSET Keys /\ series \in [DOMAIN series -> 1..MaxId]
      BY <3>1, <3>2
    <3> QED BY <3>3, TableIs, EmptyTable DEF Init
  <2> QED BY <2>1, <2>2 DEF Init
<1>2. hot \subseteq SampleSet /\ Agrees(hot, series)
  <2>1. CASE hot = {}
    BY <2>1 DEF Agrees
  <2>2. CASE \E k \in Keys, t \in Times :
                 series = [x \in {k} |-> 1] /\ hot = {[id |-> 1, ts |-> t, key |-> k]}
    <3>1. PICK k \in Keys, t \in Times :
                 series = [x \in {k} |-> 1] /\ hot = {[id |-> 1, ts |-> t, key |-> k]}
      BY <2>2
    <3>2. 1 \in 1..MaxId
      BY StoreAssumption
    <3>3. [id |-> 1, ts |-> t, key |-> k] \in SampleSet
      BY <3>2 DEF SampleSet
    <3> QED BY <3>1, <3>3 DEF Agrees
  <2> QED BY <2>1, <2>2 DEF Init
<1>3. cold \subseteq SampleSet /\ Agrees(hot \cup cold, series)
  BY <1>2 DEF Init, Agrees
<1>4. CacheFollowsTable
  BY DEF Init, CacheFollowsTable, IsOpen
<1> QED BY <1>1, <1>2, <1>3, <1>4
     DEF TablesOK, Init, TransactionOK, SamplesKeepTheirSeries, Agrees

\* A row of the batch is filed under the id of its series.
LEMMA BatchAgrees ==
    ASSUME QueueOK, TablesOK, pc = "create", Missing = {}
    PROVE  LET batch == {[id |-> cache[r[1]], ts |-> r[2], key |-> r[1]] : r \in Head(queue).rows}
           IN  batch \subseteq SampleSet /\ Agrees(batch, series)
<1> DEFINE sample(r) == [id |-> cache[r[1]], ts |-> r[2], key |-> r[1]]
<1>1. IsOpen
  BY DEF QueueOK, IsOpen
<1>2. Extends(cache, series)
  BY <1>1 DEF TablesOK, CacheFollowsTable
<1>3. queue # <<>> /\ queue \in Seq(Calls)
  BY DEF QueueOK
<1>4. ASSUME NEW r \in Head(queue).rows
      PROVE  sample(r) \in SampleSet /\ r[1] \in DOMAIN series /\ series[r[1]] = cache[r[1]]
  <2>1. r \in Keys \X Times
    BY <1>3, HeadIsCall
  <2>2. r[1] \in DOMAIN cache
    BY DEF Missing
  <2>3. cache[r[1]] \in 1..MaxId
    BY <2>2, TableIs DEF TablesOK
  <2>4. r[1] \in DOMAIN series /\ series[r[1]] = cache[r[1]]
    BY <1>2, <2>2 DEF Extends
  <2> QED BY <2>1, <2>3, <2>4 DEF SampleSet
<1> QED BY <1>4 DEF Agrees

\* Every step keeps the tables' part: one step per action.
LEMMA TablesNext ==
    ASSUME QueueOK, TablesOK, [Next]_vars
    PROVE  TablesOK'
<1>1. /\ series \in SeriesTables /\ cache \in SeriesTables
      /\ hot \subseteq SampleSet /\ cold \subseteq SampleSet
      /\ recovered \in BOOLEAN /\ unloaded \in BOOLEAN /\ overdrawn \in BOOLEAN
      /\ Agrees(hot \cup cold, series)
  BY DEF TablesOK, SamplesKeepTheirSeries, Agrees
<1>2. pc \notin {"create", "rollback"} => saved = Null
  BY DEF TablesOK, TransactionOK
<1>3. pc \in {"create", "rollback"} =>
          /\ saved.hot = hot /\ saved.cold = cold /\ saved.stats = stats
          /\ saved.series \in SeriesTables /\ Agrees(hot \cup cold, saved.series)
  <2> SUFFICES ASSUME pc \in {"create", "rollback"}
               PROVE  /\ saved.hot = hot /\ saved.cold = cold /\ saved.stats = stats
                      /\ saved.series \in SeriesTables /\ Agrees(hot \cup cold, saved.series)
    OBVIOUS
  <2>1. saved = [series |-> saved.series, hot |-> hot, cold |-> cold, stats |-> stats]
    BY DEF TablesOK, TransactionOK, Tables
  <2> QED BY <2>1 DEF TablesOK, TransactionOK
<1>4. \A kinds : Running(kinds) => IsOpen /\ pc = "idle"
  BY DEF Running, IsOpen
<1>5. pc \in {"create", "rollback", "clear", "load"} => IsOpen
  BY DEF QueueOK, IsOpen
<1>6. Here => status' = status /\ recovered' = recovered /\ (IsOpen' <=> IsOpen)
  BY DEF Here, IsOpen
<1>7. CacheGood(cache, series, IsOpen, pc, unloaded)
  BY CacheFollowsIs DEF TablesOK
<1>8. CASE IngestBegins
  <2>1. pc = "idle" /\ Here /\ UNCHANGED <<tables, cache, history>>
    BY <1>4, <1>8 DEF IngestBegins
  <2>2. CASE Head(queue).rows = {} /\ Ends /\ UNCHANGED saved
    BY <1>1, <1>6, <2>1, <2>2, TablesSame DEF tables, history, Ends
  <2>3. CASE saved' = Tables(series, hot, cold, stats) /\ Goes("create")
    <3>1. TransactionOK'
      BY <1>1, <2>1, <2>3 DEF Goes, TransactionOK, Tables, tables, Agrees
    <3>2. CacheFollowsTable'
      BY <1>6, <1>7, <2>1, <2>3, CacheFollowsNextIs DEF CacheGood, Goes, tables, history
    <3> QED BY <1>1, <1>6, <2>1, <2>3, <3>1, <3>2
            DEF TablesOK, SamplesKeepTheirSeries, Agrees, tables, history, Goes
  <2> QED BY <1>8, <2>2, <2>3 DEF IngestBegins
<1>9. CASE CreateSeries
  <2>1. PICK k \in Missing :
            /\ k \notin DOMAIN series /\ NextId <= MaxId
            /\ series' = [x \in DOMAIN series \cup {k} |-> IF x = k THEN NextId ELSE series[x]]
            /\ cache' = [x \in DOMAIN cache \cup {k} |-> IF x = k THEN NextId ELSE cache[x]]
    BY <1>9 DEF CreateSeries
  <2>2. k \in Keys /\ k \notin DOMAIN cache
    <3>1. Head(queue).rows \subseteq Keys \X Times
      BY <1>9, HeadIsCall DEF QueueOK, CreateSeries
    <3> QED BY <3>1 DEF Missing
  <2>3. NextId \in 1..MaxId
    BY <1>1, <2>1, NextIdIsNew, StoreAssumption
  <2>4. DOMAIN series \in SUBSET Keys /\ series \in [DOMAIN series -> 1..MaxId]
    BY <1>1, TableIs
  <2>5. DOMAIN cache \in SUBSET Keys /\ cache \in [DOMAIN cache -> 1..MaxId]
    BY <1>1, TableIs
  <2> HIDE DEF NextId, Missing
  <2>6. DOMAIN series' \in SUBSET Keys /\ series' \in [DOMAIN series' -> 1..MaxId]
    BY <2>1, <2>2, <2>3, <2>4
  <2>7. DOMAIN cache' \in SUBSET Keys /\ cache' \in [DOMAIN cache' -> 1..MaxId]
    BY <2>1, <2>2, <2>3, <2>5
  <2>8. series' \in SeriesTables /\ cache' \in SeriesTables
    BY <2>6, <2>7, TableIs
  <2>9. UNCHANGED <<hot, cold, stats, saved, history>> /\ Here /\ pc = "create" /\ pc' = "create"
    BY <1>9 DEF CreateSeries, Goes
  <2>10. Agrees((hot \cup cold)', series')
    BY <1>1, <2>1, <2>9 DEF Agrees
  <2>11. CacheFollowsTable'
    <3>1. Extends(cache, series) /\ (~unloaded => cache = series)
      BY <1>5, <1>7, <2>9 DEF CacheGood
    <3>2. Extends(cache', series')
      BY <2>1, <3>1 DEF Extends
    <3>3. ~unloaded => cache' = series'
      BY <2>1, <3>1
    <3> QED BY <2>9, <3>2, <3>3, CacheFollowsNextIs DEF CacheGood, history
  <2>12. TransactionOK'
    BY <2>9 DEF TablesOK, TransactionOK, Agrees
  <2> QED BY <1>1, <1>6, <2>8, <2>9, <2>10, <2>11, <2>12
          DEF TablesOK, SamplesKeepTheirSeries, Agrees, history

<1>10. CASE WriteRows
  <2> DEFINE batch == {[id |-> cache[r[1]], ts |-> r[2], key |-> r[1]] : r \in Head(queue).rows}
  <2>1. pc = "create" /\ Missing = {} /\ Here /\ saved' = Null /\ Ends
        /\ UNCHANGED <<series, cold, cache, history>>
    BY <1>10 DEF WriteRows
  <2>2. batch \subseteq SampleSet /\ Agrees(batch, series)
    BY <2>1, BatchAgrees
  <2>3. hot' \subseteq hot \cup batch
    BY <1>10 DEF WriteRows
  <2> HIDE DEF batch
  <2>4. Agrees(hot' \cup cold', series')
    BY <1>1, <2>1, <2>2, <2>3 DEF Agrees
  <2>5. CacheFollowsTable'
    BY <1>6, <1>7, <2>1, CacheFollowsNextIs DEF CacheGood, Ends, history
  <2> QED BY <1>1, <1>6, <2>1, <2>2, <2>3, <2>4, <2>5, TablesOutside DEF Ends, history
<1>11. CASE IngestFails
  <2>1. /\ pc = "create" /\ pc' = "rollback" /\ Here
        /\ UNCHANGED <<tables, saved, cache, history>>
    BY <1>11 DEF IngestFails, Goes
  <2> QED BY <1>1, <1>6, <2>1, TablesSame DEF tables, history
<1>12. CASE IngestRollsBack
  <2>1. /\ pc = "rollback" /\ pc' = "clear" /\ Here /\ UNCHANGED <<cache, history>>
        /\ saved' = Null /\ series' = saved.series /\ hot' = saved.hot /\ cold' = saved.cold
    BY <1>12 DEF IngestRollsBack, Goes
  <2>2. Agrees(hot' \cup cold', series') /\ hot' = hot /\ cold' = cold
        /\ series' \in SeriesTables
    BY <1>3, <2>1
  <2>3. CacheFollowsTable'
    BY <2>1, CacheFollowsNextIs DEF CacheGood
  <2> QED BY <1>1, <1>6, <2>1, <2>2, <2>3, TablesOutside DEF history
<1>13. CASE ClearCache
  <2>1. /\ pc = "clear" /\ pc' = "load" /\ Here /\ UNCHANGED <<tables, saved, history>>
        /\ cache' = [k \in {} |-> 1]
    BY <1>13 DEF ClearCache, Goes
  <2>2. CacheFollowsTable'
    BY <2>1, CacheFollowsNextIs DEF CacheGood, Extends
  <2> QED BY <1>1, <1>2, <1>6, <2>1, <2>2, EmptyTable, TablesOutside DEF history, tables
<1>14. CASE LoadCache
  <2>1. /\ pc = "load" /\ pc' = "idle" /\ Here
        /\ UNCHANGED <<tables, saved, overdrawn, deletedTo, dropped>>
    BY <1>14 DEF LoadCache, Ends
  <2>2. PICK K \in SUBSET DOMAIN series :
            cache' = [k \in K |-> series[k]] /\ unloaded' = (K # DOMAIN series)
    BY <1>14 DEF LoadCache
  <2>3. DOMAIN series \in SUBSET Keys /\ series \in [DOMAIN series -> 1..MaxId]
    BY <1>1, TableIs
  <2>4. cache' \in SeriesTables
    <3>1. DOMAIN cache' \in SUBSET Keys /\ cache' \in [DOMAIN cache' -> 1..MaxId]
      BY <2>2, <2>3
    <3> QED BY <3>1, TableIs
  <2>5. Extends(cache', series)
    BY <2>2 DEF Extends
  <2>6. ~unloaded' => cache' = series
    BY <2>2, <2>3
  <2>7. CacheFollowsTable'
    BY <2>1, <2>5, <2>6, CacheFollowsNextIs DEF CacheGood, tables
  <2>8. unloaded' \in BOOLEAN
    BY <2>2
  <2> QED BY <1>1, <1>2, <1>6, <2>1, <2>4, <2>7, <2>8, TablesOutside DEF tables
<1>15. CASE CompactBatch
  <2>1. /\ pc = "idle" /\ pc' = "idle" /\ Here
        /\ UNCHANGED <<series, stats, saved, cache, unloaded, overdrawn, deletedTo>>
    BY <1>4, <1>15 DEF CompactBatch, Ends
  <2>2. hot' \subseteq hot /\ cold' \subseteq hot \cup cold
    BY <1>15 DEF CompactBatch
  <2>3. Agrees(hot' \cup cold', series')
    BY <1>1, <2>1, <2>2 DEF Agrees
  <2>4. CacheFollowsTable'
    BY <1>6, <1>7, <2>1, CacheFollowsNextIs DEF CacheGood
  <2> QED BY <1>1, <1>2, <1>6, <2>1, <2>2, <2>3, <2>4, TablesOutside
<1>16. CASE ExpireBatch
  <2>1. /\ pc = "idle" /\ pc' = "idle" /\ Here
        /\ UNCHANGED <<series, stats, saved, cache, unloaded, overdrawn, dropped>>
    BY <1>4, <1>16 DEF ExpireBatch, Ends
  <2>2. hot' \subseteq hot /\ cold' \subseteq cold
    BY <1>16 DEF ExpireBatch
  <2>3. Agrees(hot' \cup cold', series')
    BY <1>1, <2>1, <2>2 DEF Agrees
  <2>4. CacheFollowsTable'
    BY <1>6, <1>7, <2>1, CacheFollowsNextIs DEF CacheGood
  <2> QED BY <1>1, <1>2, <1>6, <2>1, <2>2, <2>3, <2>4, TablesOutside
<1>17. CASE SettleCounts
  <2>1. /\ pc = "idle" /\ pc' = "idle" /\ Here
        /\ UNCHANGED <<series, hot, cold, saved, cache, unloaded, overdrawn, dropped>>
    BY <1>4, <1>17 DEF SettleCounts, Ends
  <2>2. CacheFollowsTable'
    BY <1>6, <1>7, <2>1, CacheFollowsNextIs DEF CacheGood
  <2>3. Agrees(hot' \cup cold', series')
    BY <1>1, <2>1
  <2> QED BY <1>1, <1>2, <1>6, <2>1, <2>2, <2>3, TablesOutside
<1>18. CASE PruneSeries
  <2>1. /\ pc = "idle" /\ pc' = "clear" /\ Here
        /\ UNCHANGED <<hot, cold, stats, saved, cache, history>>
        /\ series' = WithSamples(hot, cold)
    BY <1>4, <1>18 DEF PruneSeries, Goes
  <2>2. series' \in SeriesTables /\ Agrees(hot' \cup cold', series')
    BY <1>1, <2>1, PruneAgrees
  <2>3. CacheFollowsTable'
    BY <2>1, CacheFollowsNextIs DEF CacheGood
  <2> QED BY <1>1, <1>2, <1>6, <2>1, <2>2, <2>3, TablesOutside DEF history
<1>19. CASE TrimBefore
  <2> DEFINE h == {r \in hot : r.ts >= Head(queue).cutoff}
             c == {r \in cold : r.ts >= Head(queue).cutoff}
  <2>1. /\ pc = "idle" /\ pc' = "clear" /\ Here
        /\ UNCHANGED <<saved, cache, unloaded, deletedTo, dropped>>
        /\ hot' = h /\ cold' = c /\ series' = WithSamples(h, c)
    BY <1>4, <1>19 DEF TrimBefore, Goes
  <2>2. overdrawn' \in BOOLEAN
    BY <1>1, <1>19, Zenon DEF TrimBefore
  <2>3. h \subseteq hot /\ c \subseteq cold
    OBVIOUS
  <2> HIDE DEF h, c
  <2>4. Agrees(h \cup c, series)
    BY <1>1, <2>3 DEF Agrees
  <2>5. series' \in SeriesTables /\ Agrees(hot' \cup cold', series')
    BY <1>1, <2>1, <2>4, PruneAgrees
  <2>6. CacheFollowsTable'
    BY <2>1, CacheFollowsNextIs DEF CacheGood
  <2>7. hot' \subseteq SampleSet /\ cold' \subseteq SampleSet
    BY <1>1, <2>1, <2>3
  <2> QED BY <1>1, <1>2, <1>6, <2>1, <2>2, <2>5, <2>6, <2>7, TablesOutside
<1>20. CASE FailsWhole
  <2>1. /\ pc = "idle" /\ pc' = "idle" /\ Here
        /\ UNCHANGED <<tables, saved, cache, history>>
    BY <1>4, <1>20 DEF FailsWhole, Ends
  <2> QED BY <1>1, <1>6, <2>1, TablesSame DEF tables, history
<1>21. CASE Read
  <2>1. /\ pc = "idle" /\ pc' = "idle" /\ Here
        /\ UNCHANGED <<tables, saved, cache, history>>
    BY <1>4, <1>21 DEF Read, Ends
  <2> QED BY <1>1, <1>6, <2>1, TablesSame DEF tables, history
<1>22. CASE CloseEnds
  <2>1. /\ pc = "idle" /\ pc' = "idle" /\ status' = "closed"
        /\ UNCHANGED <<tables, saved, recovered, history>> /\ cache' = [k \in {} |-> 1]
    BY <1>22 DEF CloseEnds
  <2>2. CacheFollowsTable'
    BY <2>1 DEF CacheFollowsTable, IsOpen
  <2> QED BY <1>1, <1>2, <2>1, <2>2, EmptyTable, TablesOutside DEF tables, history
<1>23. CASE Enqueue \/ Close
  <2>1. /\ pc' = pc /\ (IsOpen' <=> IsOpen)
        /\ UNCHANGED <<tables, saved, cache, recovered, history>>
    BY <1>23 DEF Enqueue, Close, IsOpen
  <2>2. pc \in {"count", "started"} => cache = series
    BY DEF TablesOK
  <2> QED BY <1>1, <2>1, <2>2, TablesSame DEF tables, history
<1>24. CASE Crash
  <2>1. /\ pc' = "idle" /\ status' = "closed" /\ saved' = Null
        /\ UNCHANGED <<recovered, history>> /\ cache' = [k \in {} |-> 1]
    BY <1>24 DEF Crash
  <2>2. /\ series' \in SeriesTables /\ hot' = hot /\ cold' = cold
        /\ Agrees(hot' \cup cold', series')
    <3>1. CASE saved = Null
      BY <1>1, <1>24, <3>1 DEF Crash, tables
    <3>2. CASE saved # Null
      <4>1. series' = saved.series /\ hot' = saved.hot /\ cold' = saved.cold
        BY <1>24, <3>2 DEF Crash
      <4> QED BY <1>2, <1>3, <3>2, <4>1
    <3> QED BY <3>1, <3>2
  <2>3. CacheFollowsTable'
    BY <2>1 DEF CacheFollowsTable, IsOpen
  <2> QED BY <1>1, <2>1, <2>2, <2>3, EmptyTable, TablesOutside DEF history
<1>25. CASE Open
  <2>1. /\ pc = "idle" /\ pc' = "init" /\ status' = "opening" /\ recovered' = FALSE
        /\ UNCHANGED <<tables, saved, cache, history>>
    BY <1>25 DEF Open, QueueOK
  <2> QED BY <2>1, TablesSame DEF tables, history, IsOpen
<1>26. CASE InitLoads
  <2>1. /\ pc = "init" /\ pc' = "count" /\ status' = status /\ cache' = series
        /\ unloaded' = FALSE /\ UNCHANGED <<tables, saved, recovered, overdrawn>>
    BY <1>26 DEF InitLoads
  <2>2. CacheFollowsTable'
    BY <2>1 DEF CacheFollowsTable, IsOpen, QueueOK
  <2> QED BY <1>1, <1>2, <2>1, <2>2, TablesOutside DEF tables
<1>27. CASE InitCounts
  <2>1. /\ pc = "count" /\ pc' \in {"idle", "started"} /\ cache = series
        /\ UNCHANGED <<series, hot, cold, saved, cache, recovered, history>>
    BY <1>27 DEF InitCounts, TablesOK
  <2>2. CacheFollowsTable'
    BY <2>1, CacheFollowsNextIs DEF CacheGood, Extends
  <2>3. Agrees(hot' \cup cold', series')
    BY <1>1, <2>1
  <2> QED BY <1>1, <1>2, <2>1, <2>2, <2>3, TablesOutside DEF history
<1>28. CASE InitStartsRollups
  <2>1. /\ pc = "started" /\ pc' = "idle" /\ cache = series
        /\ UNCHANGED <<series, hot, cold, saved, cache, recovered, history>>
    BY <1>28 DEF InitStartsRollups, TablesOK
  <2>2. CacheFollowsTable'
    BY <2>1, CacheFollowsNextIs DEF CacheGood, Extends
  <2>3. Agrees(hot' \cup cold', series')
    BY <1>1, <2>1
  <2> QED BY <1>1, <1>2, <2>1, <2>2, <2>3, TablesOutside DEF history
<1>29. CASE InitFails
  <2>1. /\ pc \in {"init", "count", "started"} /\ pc' \in {"idle", "init"}
        /\ cache' = [k \in {} |-> 1] /\ UNCHANGED <<saved, unloaded>>
        /\ status' \in {"closed", "opening"}
    BY <1>29 DEF InitFails, QueueOK
  <2>2. /\ series' \in SeriesTables /\ hot' \subseteq SampleSet /\ cold' \subseteq SampleSet
        /\ Agrees(hot' \cup cold', series')
    BY <1>1, <1>29, EmptyTable DEF InitFails, tables, Agrees
  <2>3. recovered' \in BOOLEAN /\ overdrawn' \in BOOLEAN
    BY <1>1, <1>29 DEF InitFails
  <2>4. CacheFollowsTable'
    BY <2>1 DEF CacheFollowsTable, IsOpen
  <2> QED BY <1>1, <1>2, <2>1, <2>2, <2>3, <2>4, EmptyTable, TablesOutside
<1>30. CASE UNCHANGED vars
  <2>1. UNCHANGED <<tables, saved, cache, recovered, history, pc>> /\ (IsOpen' <=> IsOpen)
    BY <1>30 DEF vars, IsOpen
  <2>2. pc \in {"count", "started"} => cache = series
    BY DEF TablesOK
  <2> QED BY <1>1, <2>1, <2>2, TablesSame DEF tables, history
<1> QED BY <1>8, <1>9, <1>10, <1>11, <1>12, <1>13, <1>14, <1>15, <1>16, <1>17, <1>18, <1>19,
           <1>20, <1>21, <1>22, <1>23, <1>24, <1>25, <1>26, <1>27, <1>28, <1>29, <1>30
        DEF Next, StoreStep

--------------------------------------------------------------------------------
(* The counts' part of the invariant.                                      *)

\* A step that leaves samples and counts alone.
LEMMA CountsSame ==
    ASSUME CountsOK, UNCHANGED <<hot, cold, stats, deletedTo, dropped, overdrawn>>,
           pc' = "started" => pc = "started"
    PROVE  CountsOK'
  BY Zenon DEF CountsOK

\* A step after which the rollups are not about to start.
LEMMA CountsAfter ==
    ASSUME stats' \in Stats, deletedTo' \in Nat, dropped' \subseteq Buckets, pc' # "started",
           CountsGood(Live(hot', cold'), stats', deletedTo', dropped', overdrawn')
    PROVE  CountsOK'
  BY Zenon DEF CountsOK

\* A new store knows no counts.
LEMMA NoStatsGood ==
    ASSUME NEW live, NEW del, NEW drop, NEW over
    PROVE  NoStats \in Stats /\ CountsGood(live, NoStats, del, drop, over)
<1>1. NoStats \in Stats
  BY DEF NoStats, Stats
<1>2. NoStats.count = Null /\ NoStats.started = FALSE /\ Zero(NoStats.rollup)
  BY DEF NoStats, Zero
<1> QED BY <1>1, <1>2 DEF CountsGood

\* The rollups that start on no samples.
LEMMA StartGood ==
    ASSUME NEW st \in Stats, st.count = 0, Zero(st.rollup), NEW del, NEW drop, NEW over
    PROVE  CountsGood({}, st, del, drop, over)
<1>1. RollupSum(st, Buckets) = 0
  BY FinitelyMany, SumZero, RollupSumIsSum DEF Zero
<1>2. \A b \in Buckets : Exact(st.rollup, {}, b)
  <2>1. \A b : OfBucket({}, b) = {}
    BY DEF OfBucket
  <2> QED BY <2>1, FS_EmptySet DEF Exact, Zero
<1>3. st.count # Null
  BY StoreAssumption
<1> QED BY <1>1, <1>2, <1>3 DEF CountsGood

PlacesOf(S) == {At(r) : r \in S}

\* The samples after a batch are those before it and those it added.
LEMMA BatchAdds ==
    ASSUME NEW h, NEW c, NEW h2, NEW written, NEW added,
           written \subseteq h2, h2 \subseteq h \cup written,
           PlacesOf(h) \subseteq PlacesOf(h2),
           added \subseteq PlacesOf(written), PlacesOf(written) \subseteq Live(h, c) \cup added
    PROVE  Live(h2, c) = Live(h, c) \cup added
<1>1. \A S : Live(S, c) = PlacesOf(S) \cup PlacesOf(c)
  BY DEF Live, PlacesOf
<1>2. PlacesOf(h2) \subseteq PlacesOf(h) \cup PlacesOf(written)
  BY DEF PlacesOf
<1>3. PlacesOf(written) \subseteq PlacesOf(h2)
  BY DEF PlacesOf
<1> QED BY <1>1, <1>2, <1>3

\* Every step keeps the counts' part: one step per action that touches samples or counts.
LEMMA CountsNext ==
    ASSUME QueueOK, TablesOK, CountsOK, [Next]_vars
    PROVE  CountsOK'
<1> DEFINE live == Live(hot, cold)
<1>1. /\ hot \in SUBSET SampleSet /\ cold \in SUBSET SampleSet /\ overdrawn \in BOOLEAN
      /\ live \in SUBSET Places
  BY LiveIsPlaces DEF TablesOK
<1>2. /\ stats \in Stats /\ deletedTo \in Nat /\ dropped \subseteq Buckets
      /\ CountsGood(live, stats, deletedTo, dropped, overdrawn)
  BY DEF CountsOK
<1>3. \A kinds : Running(kinds) =>
          pc = "idle" /\ queue \in Seq(Calls) /\ queue # <<>> /\ Head(queue).cutoff \in Nat
  BY HeadIsCall DEF Running, QueueOK
<1>4. CASE WriteRows
  <2> DEFINE batch == {[id |-> cache[r[1]], ts |-> r[2], key |-> r[1]] : r \in Head(queue).rows}
             added == {At(r) : r \in batch} \ live
             written == IF Head(queue).call = "ingest" THEN batch
                        ELSE {r \in batch : At(r) \in added}
  <2>1. /\ hot' = {r \in hot : At(r) \notin {At(w) : w \in written}} \cup written
        /\ stats' = Counted(stats, added) /\ pc' = "idle"
        /\ UNCHANGED <<cold, deletedTo, dropped, overdrawn>>
    BY <1>4 DEF WriteRows, Ends, history
  <2>2. batch \subseteq SampleSet
    BY <1>4, BatchAgrees DEF WriteRows
  <2>3. written = batch \/ written = {r \in batch : At(r) \in added}
    OBVIOUS
  <2>4. added \in SUBSET Places /\ added \cap live = {}
    <3> HIDE DEF batch
    <3> QED BY <2>2 DEF At, SampleSet, Places
  <2>5. /\ written \subseteq hot' /\ hot' \subseteq hot \cup written
        /\ PlacesOf(hot) \subseteq PlacesOf(hot')
        /\ added \subseteq PlacesOf(written) /\ PlacesOf(written) \subseteq live \cup added
    <3> HIDE DEF batch, written
    <3>1. written \subseteq hot' /\ hot' \subseteq hot \cup written
      BY <2>1
    <3>2. ASSUME NEW r \in hot, r \notin hot' PROVE At(r) \in PlacesOf(hot')
      <4>1. PICK w \in written : At(r) = At(w)
        BY <2>1, <3>2
      <4> QED BY <3>1, <4>1 DEF PlacesOf
    <3>3. PlacesOf(hot) \subseteq PlacesOf(hot')
      BY <3>2 DEF PlacesOf
    <3>4. added \subseteq PlacesOf(written) /\ PlacesOf(written) \subseteq live \cup added
      BY <2>3 DEF PlacesOf
    <3> QED BY <3>1, <3>3, <3>4
  <2> HIDE DEF batch, written, added
  <2>6. Live(hot', cold) = live \cup added
    BY <2>5, BatchAdds
  <2> HIDE DEF live
  <2>7. /\ Counted(stats, added) \in Stats
        /\ CountsGood(live \cup added, Counted(stats, added), deletedTo, dropped, overdrawn)
    BY <1>1, <1>2, <2>4, CountedGood
  <2>8. CountsGood(Live(hot', cold'), stats', deletedTo', dropped', overdrawn')
    BY <2>1, <2>6, <2>7
  <2> QED BY <1>2, <2>1, <2>7, <2>8, CountsAfter
<1>5. CASE CompactBatch
  <2>1. PICK moved \in SUBSET {r \in hot : r.ts < Head(queue).cutoff} :
        \E lost \in {{}} \cup {{r \in cold : r.id = d.id /\ r.ts \div Span = d.ts \div Span}
                              : d \in {x \in cold : \E m \in moved : m.id = x.id}} :
          /\ hot' = hot \ moved
          /\ cold' = {r \in cold \ lost : At(r) \notin {At(m) : m \in moved}} \cup moved
          /\ dropped' = dropped \cup {BucketStart(r.ts) : r \in lost}
    BY <1>5 DEF CompactBatch
  <2>2. PICK lost \in SUBSET cold :
          /\ hot' = hot \ moved
          /\ cold' = {r \in cold \ lost : At(r) \notin {At(m) : m \in moved}} \cup moved
          /\ dropped' = dropped \cup {BucketStart(r.ts) : r \in lost}
    BY <2>1
  <2>3. pc' = "idle" /\ UNCHANGED <<stats, overdrawn, deletedTo>>
    BY <1>5 DEF CompactBatch, Ends
  <2>4. dropped' \subseteq Buckets
    BY <1>1, <1>2, <2>2 DEF SampleSet, Buckets
  <2>5. Live(hot', cold') \subseteq live
    BY <2>2 DEF Live
  <2>6. ASSUME NEW p \in live \ Live(hot', cold') PROVE BucketStart(p[2]) \in dropped'
    <3>1. PICK r \in hot \cup cold : p = At(r)
      BY DEF Live
    <3>2. r \notin hot' /\ r \notin cold'
      BY <3>1 DEF Live
    <3>3. r \in lost
      <4>1. SUFFICES ASSUME r \notin lost PROVE FALSE
        OBVIOUS
      <4>2. r \notin moved /\ r \in cold
        BY <2>2, <3>2
      <4>3. PICK m \in moved : At(m) = At(r)
        BY <2>2, <3>2, <4>1, <4>2
      <4>4. m \in cold'
        BY <2>2
      <4> QED BY <3>1, <4>3, <4>4 DEF Live
    <3>4. p[2] = r.ts
      BY <3>1 DEF At
    <3> QED BY <2>2, <3>3, <3>4
  <2> HIDE DEF live
  <2>7. CountsGood(Live(hot', cold'), stats, deletedTo, dropped', overdrawn)
    <3>1. dropped \subseteq dropped'
      BY <2>2
    <3> QED BY <1>1, <1>2, <2>5, <2>6, <3>1, FewerSamples
  <2>8. CountsGood(Live(hot', cold'), stats', deletedTo', dropped', overdrawn')
    BY <2>3, <2>7
  <2> QED BY <1>2, <2>3, <2>4, <2>8, CountsAfter
<1>6. CASE ExpireBatch
  <2> DEFINE cutoff == Aligned(Head(queue).cutoff)
  <2>1. PICK gone \in SUBSET {r \in hot \cup cold : r.ts < cutoff} :
            hot' = hot \ gone /\ cold' = cold \ gone
    BY <1>6 DEF ExpireBatch
  <2>2. /\ pc' = "idle" /\ UNCHANGED <<stats, overdrawn, dropped>>
        /\ deletedTo' = Max({deletedTo, cutoff})
    BY <1>6 DEF ExpireBatch, Ends
  <2>3. cutoff \in Nat
    BY <1>3, <1>6, AlignedStartsBucket DEF ExpireBatch
  <2> HIDE DEF cutoff
  <2>4. deletedTo' \in Nat /\ deletedTo <= deletedTo' /\ cutoff <= deletedTo'
    BY <1>2, <2>2, <2>3, MaxOfTwo
  <2>5. Live(hot', cold') \subseteq live
    BY <2>1 DEF Live
  <2>6. ASSUME NEW p \in live \ Live(hot', cold') PROVE BucketStart(p[2]) < deletedTo'
    <3>1. PICK r \in hot \cup cold : p = At(r)
      BY DEF Live
    <3>2. r \in gone
      BY <2>1, <3>1 DEF Live
    <3>3. p[2] = r.ts /\ p[2] < cutoff
      BY <2>1, <3>1, <3>2 DEF At
    <3>4. p[2] \in Nat
      BY <1>1, FinitelyMany
    <3>5. BucketStart(p[2]) \in Nat /\ BucketStart(p[2]) <= p[2]
      BY <3>4, BucketStartBounds
    <3> QED BY <2>3, <2>4, <3>3, <3>4, <3>5
  <2> HIDE DEF live
  <2>7. CountsGood(Live(hot', cold'), stats, deletedTo', dropped, overdrawn)
    BY <1>1, <1>2, <2>4, <2>5, <2>6, FewerSamples
  <2>8. CountsGood(Live(hot', cold'), stats', deletedTo', dropped', overdrawn')
    BY <2>2, <2>7
  <2> QED BY <1>2, <2>2, <2>4, <2>8, CountsAfter

<1>7. CASE SettleCounts
  <2> DEFINE cutoff == Aligned(Head(queue).cutoff)
             n == SumOver(stats.rollup, {b \in Buckets : b < cutoff})
             settled == ClearedBelow(Subtracted(stats, RetentionRows(cutoff), live), cutoff)
  <2>1. cutoff \in Nat /\ BucketStart(cutoff) = cutoff
    BY <1>3, <1>7, AlignedStartsBucket DEF SettleCounts
  <2>2. /\ pc' = "idle" /\ UNCHANGED <<hot, cold, overdrawn, dropped>>
        /\ deletedTo' = Max({deletedTo, cutoff})
        /\ stats' = settled
    BY <1>7 DEF SettleCounts, Ends, ClearedBelow, Subtracted
  <2> HIDE DEF cutoff
  <2>3. RetentionRows(cutoff) = n
    <3>1. ASSUME NEW p \in live PROVE ~(cutoff <= p[2] /\ p[2] < cutoff)
      BY <1>1, <2>1, FinitelyMany
    <3>2. PartialRows(cutoff) = {}
      BY <2>1, <3>1 DEF PartialRows
    <3>3. n \in Nat
      <4>1. IsFiniteSet({b \in Buckets : b < cutoff})
        BY FinitelyMany, FS_Subset
      <4> QED BY <1>2, <4>1, SumType DEF Stats
    <3>4. RetentionRows(cutoff) = n + 0
      BY <2>1, <3>2, RollupSumIsSum, FS_EmptySet DEF RetentionRows
    <3> HIDE DEF n
    <3> QED BY <3>3, <3>4
  <2>4. deletedTo' \in Nat /\ deletedTo <= deletedTo' /\ cutoff <= deletedTo'
    BY <1>2, <2>1, <2>2, MaxOfTwo
  <2>5. live = Live(hot', cold')
    BY <2>2
  <2>6. stats' = ClearedBelow(Subtracted(stats, n, live), cutoff)
    BY <2>2, <2>3
  <2>7. n = SumOver(stats.rollup, {b \in Buckets : b < cutoff})
    OBVIOUS
  <2> HIDE DEF live, n, settled
  <2>8. stats' \in Stats /\ CountsGood(live, stats', deletedTo', dropped, overdrawn)
    BY <1>1, <1>2, <2>1, <2>4, <2>6, <2>7, SettledGood
  <2>9. CountsGood(Live(hot', cold'), stats', deletedTo', dropped', overdrawn')
    BY <2>2, <2>5, <2>8
  <2> QED BY <1>2, <2>2, <2>4, <2>8, <2>9, CountsAfter
<1>8. CASE TrimBefore
  <2> DEFINE cutoff == Head(queue).cutoff
             part == PartBelow(live, cutoff)
             left == LeftFrom(live, cutoff)
             n == RetentionCount(stats, cutoff, part)
             rolled == RolledBelow(stats, cutoff, part)
  <2>1. cutoff \in Nat
    BY <1>3, <1>8 DEF TrimBefore
  <2>2. PartialRows(cutoff) = part
    BY DEF PartialRows, PartBelow
  <2>3. RetentionRows(cutoff) = n
    BY <2>2, RollupSumIsSum DEF RetentionRows, RetentionCount
  <2>4. /\ hot' = {r \in hot : r.ts >= cutoff} /\ cold' = {r \in cold : r.ts >= cutoff}
        /\ pc' = "clear" /\ UNCHANGED <<deletedTo, dropped>>
        /\ stats' = IF stats.started THEN Uncounted(rolled, n, Live(hot', cold')) ELSE stats
        /\ overdrawn' = (overdrawn \/ n > RollupSum(stats, Buckets) - RollupSum(rolled, Buckets))
    BY <1>8, <2>2, <2>3 DEF TrimBefore, Goes, RolledBelow
  <2>5. Live(hot', cold') = left
    <3>1. \A r : At(r)[2] = r.ts
      BY DEF At
    <3>2. ASSUME NEW p \in Live(hot', cold') PROVE p \in left
      <4>1. PICK r \in hot' \cup cold' : p = At(r)
        BY DEF Live
      <4>2. r \in hot \cup cold /\ r.ts >= cutoff
        BY <2>4, <4>1
      <4> QED BY <3>1, <4>1, <4>2 DEF Live, LeftFrom
    <3>3. ASSUME NEW p \in left PROVE p \in Live(hot', cold')
      <4>1. PICK r \in hot \cup cold : p = At(r)
        BY DEF Live, LeftFrom
      <4>2. r.ts >= cutoff
        BY <3>1, <4>1 DEF LeftFrom
      <4> QED BY <2>4, <4>1, <4>2 DEF Live
    <3> QED BY <3>2, <3>3
  <2>6. OverdrawnBy(overdrawn', overdrawn, n, stats, rolled)
    BY <2>4, RollupSumIsSum DEF OverdrawnBy
  <2>7. CASE stats.started
    <3> HIDE DEF live, cutoff, part, left, n, rolled
    <3>1. /\ part = PartBelow(live, cutoff) /\ left = LeftFrom(live, cutoff)
          /\ n = RetentionCount(stats, cutoff, part) /\ rolled = RolledBelow(stats, cutoff, part)
      BY DEF part, left, n, rolled
    <3>2. /\ Uncounted(rolled, n, left) \in Stats
          /\ CountsGood(left, Uncounted(rolled, n, left), deletedTo, dropped, overdrawn')
      BY <1>1, <1>2, <2>1, <2>6, <2>7, <3>1, TrimmedGood
    <3>3. /\ stats' \in Stats
          /\ CountsGood(Live(hot', cold'), stats', deletedTo', dropped', overdrawn')
      BY <2>4, <2>5, <2>7, <3>2
    <3> QED BY <1>2, <2>4, <3>3, CountsAfter
  <2>8. CASE ~stats.started
    <3>1. left \subseteq live /\ stats' = stats
      BY <2>4, <2>8 DEF LeftFrom
    <3> HIDE DEF left, live
    <3>2. CountsGood(left, stats, deletedTo, dropped, overdrawn')
      BY <1>2, <2>8, <3>1 DEF CountsGood
    <3>3. /\ stats' \in Stats
          /\ CountsGood(Live(hot', cold'), stats', deletedTo', dropped', overdrawn')
      BY <1>2, <2>4, <2>5, <3>1, <3>2
    <3> QED BY <1>2, <2>4, <3>3, CountsAfter
  <2> QED BY <2>7, <2>8
<1>9. CASE InitCounts
  <2>1. CASE stats' = stats /\ pc' = "idle"
    BY <1>9, <2>1, CountsSame DEF InitCounts, history
  <2>2. CASE ~(stats.count # Null \/ Live(hot, cold) # {})
    <3>1. /\ stats' = [stats EXCEPT !.count = 0] /\ pc' = "started"
          /\ UNCHANGED <<hot, cold, deletedTo, dropped, overdrawn>>
      BY <1>9, <2>2 DEF InitCounts, history
    <3>2. stats' \in Stats /\ stats'.count = 0 /\ stats'.rollup = stats.rollup
      BY <1>2, <3>1 DEF Stats
    <3>3. Zero(stats.rollup) /\ live = {}
      BY <1>2, <2>2 DEF CountsGood
    <3>4. CountsGood({}, stats', deletedTo', dropped', overdrawn')
      BY <3>2, <3>3, StartGood
    <3>5. Live(hot', cold') = {}
      BY <3>1, <3>3
    <3> QED BY <1>2, <3>1, <3>2, <3>3, <3>4, <3>5, Zenon DEF CountsOK
  <2> QED BY <1>9, <2>1, <2>2 DEF InitCounts
<1>10. CASE InitStartsRollups
  <2>1. /\ stats' = [stats EXCEPT !.started = TRUE] /\ pc = "started" /\ pc' = "idle"
        /\ UNCHANGED <<hot, cold, deletedTo, dropped, overdrawn>>
    BY <1>10 DEF InitStartsRollups, history
  <2>2. stats' \in Stats /\ stats'.count = stats.count /\ stats'.rollup = stats.rollup
    BY <1>2, <2>1 DEF Stats
  <2>3. live = {} /\ stats.count = 0 /\ Zero(stats.rollup)
    BY <2>1 DEF CountsOK
  <2>4. CountsGood({}, stats', deletedTo', dropped', overdrawn')
    BY <2>2, <2>3, StartGood
  <2>5. Live(hot', cold') = {}
    BY <2>1, <2>3
  <2> QED BY <1>2, <2>1, <2>2, <2>4, <2>5, CountsAfter
<1>11. CASE InitFails
  <2>1. CASE UNCHANGED <<tables, recovered, overdrawn, deletedTo, dropped>> /\ pc' = "idle"
    BY <2>1, CountsSame DEF tables
  <2>2. CASE pc' = "init" /\ stats' = NoStats /\ deletedTo' = 0 /\ dropped' = {}
    <3>1. stats' \in Stats /\ CountsGood(Live(hot', cold'), stats', deletedTo', dropped', overdrawn')
      BY <2>2, NoStatsGood
    <3> QED BY <2>2, <3>1, CountsAfter
  <2> QED BY <1>11, <2>1, <2>2 DEF InitFails
<1>12. CASE IngestRollsBack
  <2>1. UNCHANGED <<hot, cold, stats, deletedTo, dropped, overdrawn>> /\ pc' = "clear"
    BY <1>12 DEF IngestRollsBack, TablesOK, TransactionOK, Tables, Goes, history
  <2> QED BY <2>1, CountsSame
<1>13. CASE Crash
  <2>1. CASE saved = Null
    BY <1>13, <2>1, CountsSame DEF Crash, tables, history
  <2>2. CASE saved # Null
    <3>1. saved = Tables(saved.series, hot, cold, stats)
      BY <2>2 DEF TablesOK, TransactionOK
    <3>2. UNCHANGED <<hot, cold, stats, deletedTo, dropped, overdrawn>> /\ pc' = "idle"
      BY <1>13, <2>2, <3>1 DEF Crash, Tables, history
    <3> QED BY <3>2, CountsSame
  <2> QED BY <2>1, <2>2
<1>14. CASE \/ IngestBegins \/ CreateSeries \/ IngestFails \/ ClearCache \/ LoadCache
            \/ PruneSeries \/ FailsWhole \/ Read
  <2>1. UNCHANGED <<hot, cold, stats, deletedTo, dropped, overdrawn>>
    BY <1>14 DEF IngestBegins, CreateSeries, IngestFails, ClearCache, LoadCache, PruneSeries,
                 FailsWhole, Read, tables, history
  <2>2. pc' # "started"
    BY <1>3, <1>14 DEF IngestBegins, CreateSeries, IngestFails, ClearCache, LoadCache, PruneSeries,
                 FailsWhole, Read, Ends, Goes
  <2> QED BY <2>1, <2>2, CountsSame
<1>15. CASE Enqueue \/ Close \/ CloseEnds \/ UNCHANGED vars
  <2>1. UNCHANGED <<hot, cold, stats, deletedTo, dropped, overdrawn, pc>>
    BY <1>15 DEF Enqueue, Close, CloseEnds, vars, tables, history
  <2> QED BY <2>1, CountsSame
<1>16. CASE Open \/ InitLoads
  <2>1. UNCHANGED <<hot, cold, stats, deletedTo, dropped, overdrawn>> /\ pc' # "started"
    BY <1>16 DEF Open, InitLoads, tables, history
  <2> QED BY <2>1, CountsSame
<1> QED BY <1>4, <1>5, <1>6, <1>7, <1>8, <1>9, <1>10, <1>11, <1>12, <1>13, <1>14, <1>15, <1>16
        DEF Next, StoreStep

--------------------------------------------------------------------------------
(* The theorems.                                                           *)

\* The three parts together are an inductive invariant of the specification.
THEOREM InvariantHolds == Spec => []IInv
<1>1. Init => IInv
  <2> SUFFICES ASSUME Init PROVE QueueOK /\ CountsOK
    BY TablesStart DEF IInv
  <2>1. QueueOK
    BY StoreAssumption DEF Init, QueueOK
  <2>2. stats = NoStats /\ deletedTo = 0 /\ dropped = {} /\ pc = "idle"
    BY DEF Init
  <2>3. stats \in Stats /\ CountsGood(Live(hot, cold), stats, deletedTo, dropped, overdrawn)
    BY <2>2, NoStatsGood
  <2>4. CountsOK
    BY <2>2, <2>3 DEF CountsOK
  <2> QED BY <2>1, <2>4
<1>2. IInv /\ [Next]_vars => IInv'
  BY QueueNext, TablesNext, CountsNext DEF IInv
<1> QED BY <1>1, <1>2, PTL DEF Spec

\* Every variable keeps its type, for any series, timestamps and calls.
THEOREM TypesHold == Spec => []TypeOK
<1>1. IInv => TypeOK
  BY DEF IInv, QueueOK, TablesOK, CountsOK, TransactionOK, Stats, TypeOK
<1> QED BY <1>1, InvariantHolds, PTL

\* No sample is ever filed under the id of another series: an id is given again only
\* when no sample has it, and the cache that ids are taken from is never behind the table.
THEOREM SamplesStayWithTheirSeries == Spec => []SamplesKeepTheirSeries
<1>1. IInv => SamplesKeepTheirSeries
  BY DEF IInv, TablesOK
<1> QED BY <1>1, InvariantHolds, PTL

\* The cache of series is the table of series wherever the code relies on it, across
\* rollbacks, prunes, reloads that fail, wipes and crashes.
THEOREM CacheIsTheTable == Spec => []CacheFollowsTable
<1>1. IInv => CacheFollowsTable
  BY DEF IInv, TablesOK
<1> QED BY <1>1, InvariantHolds, PTL

\* The sample count is the sum of the rollups and a rollup is the number of samples of its
\* minute, save where retention or damage has been, after any calls in any order.
THEOREM CountsAreOfSamples == Spec => []CountsFollowSamples
<1>1. ASSUME IInv PROVE CountsFollowSamples
  <2>1. CountsGood(Live(hot, cold), stats, deletedTo, dropped, overdrawn)
    BY <1>1 DEF IInv, CountsOK
  <2>2. \A b : SamplesIn(b) = OfBucket(Live(hot, cold), b)
    BY DEF SamplesIn, OfBucket
  <2> QED BY <2>1, <2>2 DEF CountsGood, Exact, CountsFollowSamples
<1> QED BY <1>1, InvariantHolds, PTL

\* What the invariant makes of the statistics in a store that is open and at rest.
LEMMA StatisticsFit == ASSUME IInv PROVE StatisticsAgree
<1> DEFINE live == Live(hot, cold)
<1>1. SUFFICES ASSUME IsOpen, pc = "idle" PROVE StatisticsAgree
  BY DEF StatisticsAgree
<1>2. live \in SUBSET Places
  BY <1>1, LiveIsPlaces DEF IInv, TablesOK
<1>3. CountsGood(live, stats, deletedTo, dropped, overdrawn) /\ stats \in Stats
  BY <1>1 DEF IInv, CountsOK
<1>4. ~unloaded => QuickStats.seriesCount = FullStats.seriesCount
  <2>1. ~unloaded => cache = series
    BY <1>1 DEF IInv, TablesOK, CacheFollowsTable
  <2> QED BY <2>1 DEF QuickStats, FullStats
<1>5. /\ QuickStats.sampleCount = stats.count
      /\ QuickStats.oldest = stats.oldest /\ QuickStats.newest = stats.newest
      /\ stats.started => QuickStats.samplesLastHour =
                              RollupSum(stats, {b \in Buckets : b >= BucketStart(HourAgo)})
      /\ FullStats.sampleCount = Cardinality(live)
      /\ FullStats.samplesLastHour = Cardinality({p \in live : p[2] >= HourAgo})
      /\ live # {} => /\ FullStats.oldest = Min({p[2] : p \in live})
                      /\ FullStats.newest = Max({p[2] : p \in live})
  BY DEF QuickStats, FullStats
<1> HIDE DEF live
<1>6. ASSUME stats.count # Null, Cardinality(live) > 0
      PROVE  /\ stats.oldest # Null /\ stats.newest # Null
             /\ stats.oldest <= FullStats.oldest /\ FullStats.newest <= stats.newest
  <2> DEFINE T == {p[2] : p \in live}
  <2>1. live # {}
    BY <1>6, FS_EmptySet
  <2>2. T \in SUBSET Nat /\ T # {} /\ IsFiniteSet(T)
    <3>1. T \in SUBSET Times /\ T # {}
      BY <1>2, <2>1, FinitelyMany
    <3> HIDE DEF T
    <3> QED BY <3>1, StoreAssumption, FS_Subset
  <2>3. Min(T) \in T /\ Max(T) \in T
    <3> HIDE DEF T
    <3> QED BY <2>2, MinIsLeast, MaxIsGreatest
  <2>4. \A y \in T : /\ stats.oldest # Null /\ stats.oldest <= y
                     /\ stats.newest # Null /\ y <= stats.newest
    BY <1>3, <1>6 DEF CountsGood
  <2>5. FullStats.oldest = Min(T) /\ FullStats.newest = Max(T)
    BY <1>5, <2>1
  <2> HIDE DEF T
  <2> QED BY <2>3, <2>4, <2>5
<1>7. ASSUME stats.started, deletedTo = 0, dropped = {}
      PROVE  /\ stats.count = Cardinality(live)
             /\ Cardinality({p \in live : p[2] >= HourAgo})
                   <= RollupSum(stats, {b \in Buckets : b >= BucketStart(HourAgo)})
  <2> DEFINE B == {b \in Buckets : b >= BucketStart(HourAgo)}
             P == {p \in live : BucketStart(p[2]) >= BucketStart(HourAgo)}
             recent == {p \in live : p[2] >= HourAgo}
  <2>1. /\ stats.count = RollupSum(stats, Buckets)
        /\ \A b \in Buckets : Exact(stats.rollup, live, b)
        /\ stats.rollup \in [Buckets -> Nat]
    BY <1>3, <1>7 DEF CountsGood, Stats
  <2>2. \A p \in live : p \in Places /\ p[2] \in Nat /\ BucketStart(p[2]) \in Buckets
    BY <1>2, FinitelyMany
  <2>3. Cardinality(live) = SumOver(stats.rollup, Buckets)
    BY <1>2, <2>1, <2>2, CountByBucket
  <2>4. \A b \in B : OfBucket(P, b) = OfBucket(live, b)
    BY DEF OfBucket
  <2>5. Cardinality(P) = SumOver(stats.rollup, B)
    <3>1. \A b \in B : Exact(stats.rollup, P, b)
      BY <2>1, <2>4 DEF Exact
    <3>2. P \in SUBSET Places /\ B \in SUBSET Buckets /\ \A p \in P : BucketStart(p[2]) \in B
      BY <2>2
    <3> HIDE DEF P, B
    <3> QED BY <2>1, <3>1, <3>2, CountByBucket
  <2>6. recent \subseteq P
    <3>1. ASSUME NEW p \in recent PROVE BucketStart(p[2]) >= BucketStart(HourAgo)
      <4>1. p[2] \in Nat /\ HourAgo \in Nat /\ p[2] >= HourAgo
        BY <2>2, StoreAssumption
      <4>2. /\ BucketStart(p[2]) \in Nat /\ p[2] < BucketStart(p[2]) + Bucket
            /\ BucketStart(HourAgo) \in Nat /\ BucketStart(HourAgo) <= HourAgo
        BY <4>1, BucketStartBounds
      <4>3. BucketStart(p[2]) < BucketStart(HourAgo) =>
                BucketStart(p[2]) + Bucket <= BucketStart(HourAgo)
        BY <4>1, BucketStartsApart
      <4> QED BY <4>1, <4>2, <4>3, StoreAssumption
    <3> QED BY <3>1
  <2>7. IsFiniteSet(P)
    BY <1>2, PartsFinite, FS_Subset
  <2> HIDE DEF recent, P
  <2>8. Cardinality(recent) <= Cardinality(P)
    BY <2>6, <2>7, FS_Subset
  <2> QED BY <2>1, <2>3, <2>5, <2>8, RollupSumIsSum DEF recent
<1>8. FullStats.sampleCount > 0 <=> Cardinality(live) > 0
  BY <1>5
<1> HIDE DEF QuickStats, FullStats
<1> QED BY <1>4, <1>5, <1>6, <1>7, <1>8 DEF StatisticsAgree

\* The statistics that need no scan agree with those of a scan, whatever was written,
\* deleted, lost or wiped: the counts while they are exact, the bounds always.
THEOREM StatisticsAreOfSamples == Spec => []StatisticsAgree
<1> QED BY InvariantHolds, StatisticsFit, PTL

================================================================================
