------------------------------ MODULE MetricsStore ------------------------------
(***************************************************************************)
(* MetricsStore of src/storage/store.ts: the promise queue in front of one *)
(* SQLite connection, the series table and the cache of it, and the counts *)
(* and bounds kept beside the samples so that statistics need no scan.     *)
(*                                                                         *)
(* The sample table is the pair of sets TsdbTable models in detail; here a *)
(* sample is where it is (hot or cold), under which series id, and, as     *)
(* history, for which series it was written.  Values play no part.  A call *)
(* is one record; the steps of a call are cut where another task can see   *)
(* the cache or the process can die.                                       *)
(***************************************************************************)
EXTENDS Sequences, FiniteSetsExt

CONSTANTS
    Keys,       \* the series, by canonicalLabels
    Times,      \* timestamps
    Bucket,     \* ROLLUP_BUCKET_MS
    Span,       \* TSDB_BLOCK_SPAN_MS, the alignment of retention cutoffs
    Batches,    \* the batches written: sets of <<key, ts>>
    Cutoffs,    \* the cutoffs deletions and compactions are called with
    HourAgo,    \* what an hour ago is, for the statistics
    MaxId,      \* bound on series ids
    MaxCalls,   \* bound on the calls made
    MaxQueue,   \* bound on the calls waiting
    Null        \* no value

ASSUME StoreAssumption ==
    /\ Times \subseteq Nat /\ IsFiniteSet(Times)
    /\ Cutoffs \subseteq Nat /\ HourAgo \in Nat
    /\ Bucket \in Nat \ {0} /\ Span \in Nat \ {0} /\ Span % Bucket = 0
    /\ Batches \subseteq SUBSET (Keys \X Times)
    /\ MaxId \in Nat \ {0} /\ MaxCalls \in Nat /\ MaxQueue \in Nat
    /\ Null \notin Nat

VARIABLES
    status,     \* "closed", "opening", "open" or "closing"
    queue,      \* the calls enqueued; the first is the one that runs
    pc,         \* where the running call, or init, is
    series,     \* the series table: id by key, for the keys it has
    hot, cold,  \* the samples in samples_head and in samples_blocks
    stats,      \* store_meta and sample_rollup_1m
    saved,      \* the tables at BEGIN, or Null outside a transaction
    cache,      \* seriesByKey and allSeries
    calls,      \* how many calls were made
    recovered,  \* recoveredFromCorruption: the database was wiped by this open
    unloaded,   \* history: the last reload of the cache failed
    overdrawn,  \* history: deleteBefore cut a bucket whose rollup was too low
    deletedTo,  \* history: the highest cutoff of a deletion
    dropped     \* history: the buckets that lost samples to undecodable blocks

tables == <<series, hot, cold, stats>>
history == <<unloaded, overdrawn, deletedTo, dropped>>
vars == <<status, queue, pc, tables, saved, cache, calls, recovered, history>>

SampleSet == [id : 1..MaxId, ts : Times, key : Keys]
BucketStart(t) == (t \div Bucket) * Bucket
Buckets == {BucketStart(t) : t \in Times}
Extends(f, g) == DOMAIN f \subseteq DOMAIN g /\ \A x \in DOMAIN f : f[x] = g[x]
SeriesTables == UNION {[K -> 1..MaxId] : K \in SUBSET Keys}

NoStats == [count |-> Null, started |-> FALSE, oldest |-> Null, newest |-> Null,
            rollup |-> [b \in Buckets |-> 0]]
Calls == [call : {"ingest", "import"}, rows : Batches, cutoff : {0}]
         \cup [call : {"compact", "expire", "settle", "trim"}, rows : {{}}, cutoff : Cutoffs]
         \cup [call : {"prune", "read"}, rows : {{}}, cutoff : {0}]
Tables(s, h, c, st) == [series |-> s, hot |-> h, cold |-> c, stats |-> st]

TypeOK ==
    /\ status \in {"closed", "opening", "open", "closing"}
    /\ queue \in Seq(Calls)
    /\ pc \in {"idle", "create", "write", "rollback", "clear", "load",
               "init", "count", "started"}
    /\ series \in SeriesTables /\ cache \in SeriesTables
    /\ hot \subseteq SampleSet /\ cold \subseteq SampleSet
    /\ stats \in [count : Nat \cup {Null}, started : BOOLEAN, oldest : Times \cup {Null},
                  newest : Times \cup {Null}, rollup : [Buckets -> Nat]]
    /\ saved = Null \/ saved.series \in SeriesTables
    /\ calls \in 0..MaxCalls
    /\ {recovered, unloaded, overdrawn} \subseteq BOOLEAN
    /\ deletedTo \in Nat /\ dropped \subseteq Buckets

\* A new database, or one written before there were counts.
Init ==
    /\ status = "closed" /\ queue = <<>> /\ pc = "idle" /\ saved = Null
    /\ \/ series = [k \in {} |-> 1] /\ hot = {}
       \/ \E k \in Keys, t \in Times :
             series = [x \in {k} |-> 1] /\ hot = {[id |-> 1, ts |-> t, key |-> k]}
    /\ cold = {} /\ stats = NoStats
    /\ cache = [k \in {} |-> 1]
    /\ calls = 0 /\ recovered = FALSE /\ unloaded = FALSE /\ overdrawn = FALSE
    /\ deletedTo = 0 /\ dropped = {}
--------------------------------------------------------------------------------
(***************************************************************************)
(* What the statements compute.                                            *)
(***************************************************************************)
At(r) == <<r.id, r.ts>>
Live(h, c) == {At(r) : r \in h \cup c}
SamplesIn(b) == {p \in Live(hot, cold) : BucketStart(p[2]) = b}
RollupSum(st, B) == MapThenSumSet(LAMBDA b : st.rollup[b], B)
Newer(x, S) == Max(S \cup ({x} \ {Null}))
Older(x, S) == Min(S \cup ({x} \ {Null}))

\* SET value = max(0, value - y).
PositiveDifference(x, y) == IF x > y THEN x - y ELSE 0

\* The rowid SQLite gives without AUTOINCREMENT: one above the highest in use.
NextId == 1 + Max({0} \cup {series[k] : k \in DOMAIN series})

\* Mutant of Counted: the oldest timestamp is set only where there is none.
CountedForward(st, added) ==
    IF added = {} \/ st.count = Null THEN st
    ELSE [st EXCEPT !.count = @ + Cardinality(added),
                    !.oldest = IF @ = Null THEN Older(@, {p[2] : p \in added}) ELSE @,
                    !.newest = Newer(@, {p[2] : p \in added}),
                    !.rollup = [b \in Buckets |->
                        @[b] + Cardinality({p \in added : BucketStart(p[2]) = b})]]

\* What an ingest does to the counts, from samples_changes: nothing while unknown.
Counted(st, added) ==
    IF added = {} \/ st.count = Null THEN st
    ELSE [st EXCEPT !.count = @ + Cardinality(added),
                    !.oldest = Older(@, {p[2] : p \in added}),
                    !.newest = Newer(@, {p[2] : p \in added}),
                    !.rollup = [b \in Buckets |->
                        @[b] + Cardinality({p \in added : BucketStart(p[2]) = b})]]

\* collectRetentionCounts: whole buckets by their rollup, the rest by a scan.
PartialRows(cutoff) ==
    {p \in Live(hot, cold) : BucketStart(cutoff) <= p[2] /\ p[2] < cutoff}
RetentionRows(cutoff) ==
    RollupSum(stats, {b \in Buckets : b < BucketStart(cutoff)})
    + Cardinality(PartialRows(cutoff))

\* incrementKnownMetaNumber with a negative delta and, where a row was changed,
\* refreshKnownSampleBounds on the samples that are left.
Uncounted(st, n, left) ==
    IF n = 0 \/ st.count = Null THEN st
    ELSE [st EXCEPT !.count = PositiveDifference(@, n),
                    !.oldest = IF left = {} THEN Null ELSE Min({p[2] : p \in left}),
                    !.newest = IF left = {} THEN Null ELSE Max({p[2] : p \in left})]

\* pruneEmptySeriesLocked.
WithSamples(h, c) ==
    LET used == {k \in DOMAIN series : \E r \in h \cup c : r.id = series[k]}
    IN  [k \in used |-> series[k]]
--------------------------------------------------------------------------------
(***************************************************************************)
(* The queue.  A call that ends leaves it whether it succeeded or not.     *)
(***************************************************************************)
Enqueue ==
    /\ status = "open" /\ calls < MaxCalls /\ Len(queue) < MaxQueue
    /\ \E c \in Calls : queue' = Append(queue, c)
    /\ calls' = calls + 1
    /\ UNCHANGED <<status, pc, tables, saved, cache, recovered, history>>

Running(kinds) ==
    /\ status \in {"open", "closing"} /\ pc = "idle" /\ queue # <<>>
    /\ Head(queue).call \in kinds
Ends == queue' = Tail(queue) /\ pc' = "idle"
Goes(there) == pc' = there /\ UNCHANGED queue
Here == UNCHANGED <<status, calls, recovered>>
--------------------------------------------------------------------------------
(***************************************************************************)
(* ingestLocked.                                                           *)
(***************************************************************************)
IngestBegins ==
    /\ Running({"ingest", "import"})
    /\ \/ Head(queue).rows = {} /\ Ends /\ UNCHANGED saved
       \/ /\ Head(queue).rows # {}
          /\ saved' = Tables(series, hot, cold, stats)
          /\ Goes("create")
    /\ UNCHANGED <<tables, cache, history>> /\ Here

Missing == {r[1] : r \in Head(queue).rows} \ DOMAIN cache

\* createMissingSeries, one series: the key must be new to the table.
CreateSeries ==
    /\ pc = "create"
    /\ \E k \in Missing :
          /\ k \notin DOMAIN series /\ NextId <= MaxId
          /\ series' = [x \in DOMAIN series \cup {k} |->
                            IF x = k THEN NextId ELSE series[x]]
          /\ cache' = [x \in DOMAIN cache \cup {k} |->
                            IF x = k THEN NextId ELSE cache[x]]
    /\ Goes("create")
    /\ UNCHANGED <<hot, cold, stats, saved, history>> /\ Here

\* The batch, the counts and COMMIT.
WriteRows ==
    /\ pc = "create" /\ Missing = {}
    /\ LET batch == {[id |-> cache[r[1]], ts |-> r[2], key |-> r[1]] : r \in Head(queue).rows}
           added == {At(r) : r \in batch} \ Live(hot, cold)
           written == IF Head(queue).call = "ingest" THEN batch
                      ELSE {r \in batch : At(r) \in added}
       IN  /\ hot' = {r \in hot : At(r) \notin {At(w) : w \in written}} \cup written
           /\ stats' = Counted(stats, added)
    /\ saved' = Null /\ Ends
    /\ UNCHANGED <<series, cold, cache, history>> /\ Here

\* Any statement may fail, CREATE on a key the table has already must.
IngestFails ==
    /\ pc = "create"
    /\ Goes("rollback")
    /\ UNCHANGED <<tables, saved, cache, history>> /\ Here

\* Mutant of IngestRollsBack: the cache is not loaded again.
IngestRollsBackTable ==
    /\ pc = "rollback"
    /\ series' = saved.series /\ hot' = saved.hot /\ cold' = saved.cold
    /\ stats' = saved.stats /\ saved' = Null
    /\ Ends
    /\ UNCHANGED <<cache, history>> /\ Here

IngestRollsBack ==
    /\ pc = "rollback"
    /\ series' = saved.series /\ hot' = saved.hot /\ cold' = saved.cold
    /\ stats' = saved.stats /\ saved' = Null
    /\ Goes("clear")
    /\ UNCHANGED <<cache, history>> /\ Here

(***************************************************************************)
(* loadSeriesCache: the maps are cleared, then filled row by row; when the *)
(* SELECT fails, the rows read so far stay.                                *)
(***************************************************************************)
ClearCache ==
    /\ pc = "clear"
    /\ cache' = [k \in {} |-> 1]
    /\ Goes("load")
    /\ UNCHANGED <<tables, saved, history>> /\ Here

\* Mutant of LoadCache: the SELECT is tried until it succeeds.
LoadCacheUntilRead ==
    /\ pc = "load"
    /\ \E K \in SUBSET DOMAIN series :
          /\ cache' = [k \in K |-> series[k]]
          /\ unloaded' = (K # DOMAIN series)
          /\ IF K = DOMAIN series THEN Ends ELSE Goes("load")
    /\ UNCHANGED <<tables, saved, overdrawn, deletedTo, dropped>> /\ Here

LoadCache ==
    /\ pc = "load"
    /\ \E K \in SUBSET DOMAIN series :
          /\ cache' = [k \in K |-> series[k]]
          /\ unloaded' = (K # DOMAIN series)
    /\ Ends
    /\ UNCHANGED <<tables, saved, overdrawn, deletedTo, dropped>> /\ Here
--------------------------------------------------------------------------------
(***************************************************************************)
(* Maintenance and retention.  Each of these is one transaction or one     *)
(* statement, and FailsWhole stands for the one that rolls back.           *)
(***************************************************************************)
\* compactBeforeBatchLocked: some hot rows older than the cutoff become cold; a
\* block that does not decode is dropped on the way.
CompactBatch ==
    /\ Running({"compact"})
    /\ \E moved \in SUBSET {r \in hot : r.ts < Head(queue).cutoff} :
       \E lost \in {{}} \cup {{r \in cold : r.id = d.id /\ r.ts \div Span = d.ts \div Span}
                              : d \in {x \in cold : \E m \in moved : m.id = x.id}} :
          /\ hot' = hot \ moved
          /\ cold' = {r \in cold \ lost : At(r) \notin {At(m) : m \in moved}} \cup moved
          /\ dropped' = dropped \cup {BucketStart(r.ts) : r \in lost}
    /\ Ends
    /\ UNCHANGED <<series, stats, saved, cache, unloaded, overdrawn, deletedTo>> /\ Here

Aligned(cutoff) == (cutoff \div Span) * Span

\* deleteBeforeBatchLocked: what the limit leaves of it is TsdbTable's to say.
ExpireBatch ==
    /\ Running({"expire"})
    /\ LET cutoff == Aligned(Head(queue).cutoff) IN
       /\ \E gone \in SUBSET {r \in hot \cup cold : r.ts < cutoff} :
             hot' = hot \ gone /\ cold' = cold \ gone
       /\ deletedTo' = Max({deletedTo, cutoff})
    /\ Ends
    /\ UNCHANGED <<series, stats, saved, cache, unloaded, overdrawn, dropped>> /\ Here

\* Mutant of SettleCounts: the rollups that were subtracted stay.
SettleKeepsRollups ==
    /\ Running({"settle"})
    /\ LET cutoff == Aligned(Head(queue).cutoff) IN
       stats' = (IF stats.started
                 THEN Uncounted(stats, RetentionRows(cutoff), Live(hot, cold)) ELSE stats)
    /\ Ends
    /\ UNCHANGED <<series, hot, cold, saved, cache, history>> /\ Here

\* finalizeRetentionMetadataLocked, with the aligned cutoff of the last batch.
SettleCounts ==
    /\ Running({"settle"})
    /\ LET cutoff == Aligned(Head(queue).cutoff)
           counted == IF stats.started
                      THEN Uncounted(stats, RetentionRows(cutoff), Live(hot, cold))
                      ELSE stats
       IN  /\ stats' = [counted EXCEPT !.rollup =
                            [b \in Buckets |-> IF b < cutoff THEN 0 ELSE @[b]]]
           /\ deletedTo' = Max({deletedTo, cutoff})
    /\ Ends
    /\ UNCHANGED <<series, hot, cold, saved, cache, unloaded, overdrawn, dropped>> /\ Here

\* Mutant of PruneSeries: the cache is not loaded again.
PruneOnly ==
    /\ Running({"prune"})
    /\ series' = WithSamples(hot, cold)
    /\ Ends
    /\ UNCHANGED <<hot, cold, stats, saved, cache, history>> /\ Here

\* finalizeRetentionSeriesLocked: prune, then load the cache.
PruneSeries ==
    /\ Running({"prune"})
    /\ series' = WithSamples(hot, cold)
    /\ Goes("clear")
    /\ UNCHANGED <<hot, cold, stats, saved, cache, history>> /\ Here

\* deleteBeforeLocked: all of it in one transaction, then load the cache.
TrimBefore ==
    /\ Running({"trim"})
    /\ LET cutoff == Head(queue).cutoff
           n == RetentionRows(cutoff)
           h == {r \in hot : r.ts >= cutoff}
           c == {r \in cold : r.ts >= cutoff}
           rolled == [stats EXCEPT !.rollup = [b \in Buckets |->
                        IF b < BucketStart(cutoff) THEN 0
                        ELSE IF b = BucketStart(cutoff)
                             THEN PositiveDifference(@[b], Cardinality(PartialRows(cutoff)))
                             ELSE @[b]]]
       IN  /\ hot' = h /\ cold' = c
           /\ series' = WithSamples(h, c)
           /\ stats' = (IF stats.started THEN Uncounted(rolled, n, Live(h, c)) ELSE stats)
           /\ overdrawn' = (overdrawn \/ n > RollupSum(stats, Buckets) - RollupSum(rolled, Buckets))
    /\ Goes("clear")
    /\ UNCHANGED <<saved, cache, unloaded, deletedTo, dropped>> /\ Here

FailsWhole ==
    /\ Running({"compact", "expire", "settle", "prune", "trim", "read"})
    /\ Ends
    /\ UNCHANGED <<tables, saved, cache, history>> /\ Here
--------------------------------------------------------------------------------
(***************************************************************************)
(* What the reads answer; the calls themselves change nothing.             *)
(***************************************************************************)
\* selectLocked and selectAtStepsLocked, for the keys the matchers select.
SelectLocked(K) ==
    {r \in hot \cup cold : \E k \in K \cap DOMAIN cache : cache[k] = r.id}

LabelNames == DOMAIN cache

QuickStats ==
    [seriesCount |-> Cardinality(DOMAIN cache),
     sampleCount |-> stats.count, oldest |-> stats.oldest, newest |-> stats.newest,
     samplesLastHour |->
        IF stats.started THEN RollupSum(stats, {b \in Buckets : b >= BucketStart(HourAgo)})
        ELSE Null]

FullStats ==
    LET live == Live(hot, cold)
        ends(S) == IF live = {} THEN Null ELSE S
    IN  [seriesCount |-> Cardinality(DOMAIN series),
         sampleCount |-> Cardinality(live),
         oldest |-> ends(Min({p[2] : p \in live})), newest |-> ends(Max({p[2] : p \in live})),
         samplesLastHour |-> Cardinality({p \in live : p[2] >= HourAgo})]

Read ==
    /\ Running({"read"})
    /\ Ends
    /\ UNCHANGED <<tables, saved, cache, history>> /\ Here
--------------------------------------------------------------------------------
(***************************************************************************)
(* Opening and closing.                                                    *)
(***************************************************************************)
Open ==
    /\ status = "closed"
    /\ status' = "opening" /\ pc' = "init" /\ recovered' = FALSE
    /\ UNCHANGED <<queue, tables, saved, cache, calls, history>>

\* init up to loadSeriesCache: the schema is there and readable.
InitLoads ==
    /\ pc = "init"
    /\ cache' = series /\ unloaded' = FALSE
    /\ pc' = "count"
    /\ UNCHANGED <<status, queue, tables, saved, calls, recovered, overdrawn, deletedTo, dropped>>

\* initializeStatsMetadata writes the count, then the start of the rollups, each
\* in a transaction of its own.
InitCounts ==
    /\ pc = "count"
    /\ IF stats.count # Null \/ Live(hot, cold) # {}
       THEN status' = "open" /\ pc' = "idle" /\ UNCHANGED stats
       ELSE stats' = [stats EXCEPT !.count = 0] /\ pc' = "started" /\ UNCHANGED status
    /\ UNCHANGED <<queue, series, hot, cold, saved, cache, calls, recovered, history>>

InitStartsRollups ==
    /\ pc = "started"
    /\ stats' = [stats EXCEPT !.started = TRUE]
    /\ status' = "open" /\ pc' = "idle"
    /\ UNCHANGED <<queue, series, hot, cold, saved, cache, calls, recovered, history>>

\* Whatever makes init throw, the first attempt wipes the files and starts over
\* (unless recoverCorruption is false); the second one gives up.
InitFails ==
    /\ pc \in {"init", "count", "started"}
    /\ \/ /\ status' = "closed" /\ pc' = "idle" /\ cache' = [k \in {} |-> 1]
          /\ UNCHANGED <<tables, recovered, overdrawn, deletedTo, dropped>>
       \/ /\ ~recovered /\ recovered' = TRUE
          /\ series' = [k \in {} |-> 1] /\ hot' = {} /\ cold' = {} /\ stats' = NoStats
          /\ overdrawn' = FALSE /\ deletedTo' = 0 /\ dropped' = {}
          /\ pc' = "init" /\ cache' = [k \in {} |-> 1] /\ UNCHANGED status
    /\ UNCHANGED <<queue, saved, calls, unloaded>>

Close ==
    /\ status = "open"
    /\ status' = "closing"
    /\ UNCHANGED <<queue, pc, tables, saved, cache, calls, recovered, history>>

\* The calls enqueued before close run first.
CloseEnds ==
    /\ status = "closing" /\ pc = "idle" /\ queue = <<>>
    /\ status' = "closed" /\ cache' = [k \in {} |-> 1]
    /\ UNCHANGED <<queue, pc, tables, saved, calls, recovered, history>>

\* The process ends; the journal rolls the open transaction back.
Crash ==
    /\ status # "closed"
    /\ IF saved = Null THEN UNCHANGED tables
       ELSE /\ series' = saved.series /\ hot' = saved.hot /\ cold' = saved.cold
            /\ stats' = saved.stats
    /\ saved' = Null /\ queue' = <<>> /\ pc' = "idle" /\ status' = "closed"
    /\ cache' = [k \in {} |-> 1]
    /\ UNCHANGED <<calls, recovered, history>>

StoreStep ==
    \/ IngestBegins \/ CreateSeries \/ WriteRows \/ IngestFails \/ IngestRollsBack
    \/ ClearCache \/ LoadCache
    \/ CompactBatch \/ ExpireBatch \/ SettleCounts \/ PruneSeries \/ TrimBefore
    \/ FailsWhole \/ Read
    \/ CloseEnds

Next ==
    \/ StoreStep
    \/ Enqueue \/ Close \/ Crash
    \/ Open \/ InitLoads \/ InitCounts \/ InitStartsRollups \/ InitFails

Spec == Init /\ [][Next]_vars
\* A statement that was started returns: the promises of the queue settle.
FairSpec == Spec /\ WF_vars(StoreStep)
--------------------------------------------------------------------------------
(***************************************************************************)
(* Properties.                                                             *)
(***************************************************************************)
IsOpen == status \in {"open", "closing"}

(* A sample stays under the id of the series it was written for.  Ids are   *)
(* given again after a prune, so an id cached too long would file samples   *)
(* under another series (store.ts:735, 1338).                               *)
SamplesKeepTheirSeries ==
    \A r \in hot \cup cold : r.key \in DOMAIN series /\ series[r.key] = r.id

(* The cache is the series table, also for label queries, which read it     *)
(* outside the queue; it is behind only between a rollback or a prune and   *)
(* the reload, and short after a reload that failed (store.ts:838, 1063).   *)
CacheFollowsTable ==
    IsOpen /\ pc # "clear" =>
        /\ Extends(cache, series) /\ LabelNames \subseteq DOMAIN series
        /\ ~unloaded /\ pc # "load" => cache = series

(* The sample count is the sum of the minute rollups, and a rollup is the   *)
(* number of samples of its minute, unless retention has passed the minute  *)
(* (samples written behind it while it ran are no longer counted) or an     *)
(* undecodable block was dropped there (store.ts:1156, 1312).               *)
CountsFollowSamples ==
    stats.started =>
        /\ ~overdrawn => stats.count = RollupSum(stats, Buckets)
        /\ \A b \in Buckets :
              b >= deletedTo /\ b \notin dropped /\ ~overdrawn =>
                  stats.rollup[b] = Cardinality(SamplesIn(b))

(* The statistics that need no scan agree with those of a scan: the number   *)
(* of series unless the cache could not be reloaded, the bounds always, at    *)
(* least in that they leave nothing out, and the counts as long as neither    *)
(* retention nor a damaged block has touched the samples (store.ts:1513).     *)
StatisticsAgree ==
    IsOpen /\ pc = "idle" =>
        LET quick == QuickStats
            full == FullStats
        IN  /\ ~unloaded => quick.seriesCount = full.seriesCount
            /\ quick.sampleCount # Null /\ full.sampleCount > 0 =>
                  /\ Null \notin {quick.oldest, quick.newest}
                  /\ quick.oldest <= full.oldest /\ full.newest <= quick.newest
            /\ stats.started /\ deletedTo = 0 /\ dropped = {} =>
                  /\ quick.sampleCount = full.sampleCount
                  /\ full.samplesLastHour <= quick.samplesLastHour

(* close returns, after the calls made before it, however they end          *)
(* (store.ts:1595).                                                         *)
CloseReturns == status = "closing" ~> status = "closed"
================================================================================
