------------------------------- MODULE TsdbTable -------------------------------
(***************************************************************************)
(* The sqlite-tsdb virtual table (sqlite-tsdb/src/sqlite_tsdb.c) and the   *)
(* transactions src/storage/store.ts runs on it.  Recent samples are rows  *)
(* of the head; compaction seals runs of them into immutable blocks of at  *)
(* most MaxBlockPoints points of one series and one time bucket; a late    *)
(* write goes back to the head and hides the point a block holds for the   *)
(* same timestamp until compaction merges the two.                         *)
(*                                                                         *)
(* A payload is abstracted to the points it decodes to and to whether it   *)
(* still decodes.  The min_ts, max_ts and sample_count columns are written *)
(* with the payload and never apart from it, so they are functions of its  *)
(* points here; damage to the payload leaves the columns readable.         *)
(***************************************************************************)
EXTENDS Integers, FiniteSets

CONSTANTS
    Series,          \* series ids, positive integers (ORDER BY ts, series_id)
    Horizon,         \* the last timestamp: timestamps are 0..Horizon
    BlockSpan,       \* block_span_ms, the width of a bucket
    MaxBlockPoints,  \* max_block_points, the most points a block holds
    Values,          \* the values a sample may have
    Absent,          \* not a value: no row, no point
    Corrupt,         \* not a value: the query fails with SQLITE_CORRUPT_VTAB
    MaxBatch,        \* bound on the records of one ingest batch
    Limits,          \* the point limits maintenance batches are called with
    MaxChunkNo,      \* bound on chunk_no
    CanReopen,       \* whether the connection may be closed or crash, and reopen
    CanDamage        \* whether a stored payload may become undecodable

Time == 0..Horizon

ASSUME TableAssumption ==
    /\ Series \subseteq Nat \ {0}
    /\ IsFiniteSet(Series)
    /\ Horizon \in Nat
    /\ BlockSpan \in Nat \ {0}
    /\ MaxBlockPoints \in Nat \ {0}
    /\ MaxBatch \in Nat
    /\ MaxChunkNo \in Nat
    /\ Limits \subseteq Nat \ {0}
    /\ Absent \notin Values
    /\ Corrupt \notin Values \cup {Absent}
    /\ CanReopen \in BOOLEAN
    /\ CanDamage \in BOOLEAN

VARIABLES
    head,       \* samples_head: head[s][t] is a value or Absent
    blocks,     \* samples_blocks, a set of block rows
    coldKnown,  \* cold_max_known of the connection
    coldMax,    \* cold_max_timestamp of the connection
    changes,    \* samples_changes, as the open transaction would read it
    stmt,       \* the statement the open transaction has run, or Idle
    saved,      \* head and blocks as they were at BEGIN, what ROLLBACK restores
    exact       \* history: no block is above the cached bound once that is known

vars == <<head, blocks, coldKnown, coldMax, changes, stmt, saved, exact>>

Row == [Time -> Values \cup {Absent}]
NoRow == [t \in Time |-> Absent]
Table == [Series -> Row]
NoRows == [s \in Series |-> NoRow]

\* Mutant of Bucket: the end of the bucket in place of its start.
BucketEnd(t) == t - (t % BlockSpan) + BlockSpan

Bucket(t) == t - (t % BlockSpan)

\* A row of samples_blocks: its key, the points its payload was encoded from,
\* and whether that payload still decodes.
Block == [series : Series, bucket : Time, chunk : Nat, pts : Row, ok : BOOLEAN]

Points(b) == {t \in Time : b.pts[t] # Absent}

\* min_ts <= t AND max_ts >= t
Covers(b, t) == \E i, j \in Points(b) : i <= t /\ t <= j

\* max_ts < cutoff, and min_ts < cutoff AND max_ts >= cutoff
EndsBefore(b, cutoff) == \A i \in Points(b) : i < cutoff
Straddles(b, cutoff) == \E i, j \in Points(b) : i < cutoff /\ cutoff <= j

Statement == [op : {"ingest", "import", "insert", "compact", "delete", "expire"},
              batch : Table, cutoff : Nat]
Idle == [op |-> "idle", batch |-> NoRows, cutoff |-> 0]
NoChanges == [t \in Time |-> 0]

(***************************************************************************)
(* Reads.  Both merge the points of blocks with the hot rows, and a hot    *)
(* row hides a cold point of the same timestamp.  Maintenance reads with   *)
(* drop_corrupt set and goes on without the blocks that do not decode; a   *)
(* query fails when it meets one, whatever else is there.                  *)
(***************************************************************************)
ColdIn(bs, s, t) == {b \in bs : b.ok /\ b.series = s /\ b.pts[t] # Absent}

PointAt(cold, t) ==
    IF cold = {} THEN Absent ELSE (CHOOSE b \in cold : TRUE).pts[t]

\* The point of the blocks that decode.
ColdValue(bs, s, t) == PointAt(ColdIn(bs, s, t), t)

\* What load_bucket finds.
Salvaged(h, bs, s, t) ==
    IF h[s][t] # Absent THEN h[s][t] ELSE ColdValue(bs, s, t)

\* Some block a query for the timestamp has to decode does not decode.
Undecodable(bs, s, t) == \E b \in bs : b.series = s /\ Covers(b, t) /\ ~b.ok

\* What a query for one series and timestamp returns.  A query over several of
\* them fails exactly if one for some timestamp of its range does.
View(h, bs) ==
    [s \in Series |-> [t \in Time |->
        IF Undecodable(bs, s, t) THEN Corrupt ELSE Salvaged(h, bs, s, t)]]

(***************************************************************************)
(* Writing blocks.  Rows sorted by timestamp are cut into pieces of        *)
(* MaxBlockPoints and stored under consecutive chunk numbers.              *)
(***************************************************************************)
Rank(S, t) == Cardinality({u \in S : u < t})

RowTimes(row) == {t \in Time : row[t] # Absent}

Piece(row, i) ==
    [t \in Time |->
        IF Rank(RowTimes(row), t) \div MaxBlockPoints = i THEN row[t] ELSE Absent]

Pieces(s, bucket, row, first) ==
    {[series |-> s, bucket |-> bucket, chunk |-> first + i,
      pts |-> Piece(row, i), ok |-> TRUE] :
        i \in {Rank(RowTimes(row), t) \div MaxBlockPoints : t \in RowTimes(row)}}

InBucket(bs, s, bucket) == {b \in bs : b.series = s /\ b.bucket = bucket}

\* Mutant of NextChunkNo: the largest number in use, without the +1.
LastChunkNo(bs, s, bucket) ==
    LET taken == {b.chunk : b \in InBucket(bs, s, bucket)}
    IN  {n \in {0} \cup taken : \A c \in taken : c <= n}

\* coalesce(max(chunk_no),-1)+1 over the blocks of the bucket
NextChunkNo(bs, s, bucket) ==
    LET taken == {b.chunk : b \in InBucket(bs, s, bucket)}
    IN  {n \in {0} \cup {c + 1 : c \in taken} : \A c \in taken : c < n}

\* The cached bound after blocks with these timestamps have been written.  An
\* unknown bound becomes the largest timestamp written, not that of the table.
RaiseColdMax(written) ==
    IF written = {} THEN UNCHANGED <<coldKnown, coldMax>>
    ELSE LET seen == written \cup (IF coldKnown THEN {coldMax} ELSE {})
         IN  /\ coldKnown' = TRUE
             /\ coldMax' \in {m \in seen : \A x \in seen : x <= m}

\* The bound an ingest works with: the cached one, or max(max_ts) of the table.
ColdBound ==
    LET seen == {-1} \cup UNION {Points(b) : b \in blocks}
    IN  IF coldKnown THEN {coldMax} ELSE {m \in seen : \A x \in seen : x <= m}
--------------------------------------------------------------------------------
TypeOK ==
    /\ head \in Table
    /\ blocks \subseteq Block
    /\ coldKnown \in BOOLEAN
    /\ coldMax \in Time \cup {-1}
    /\ changes \in [Time -> Nat]
    /\ stmt \in Statement \cup {Idle}
    /\ saved \in [head : Table, blocks : SUBSET Block]
    /\ exact \in BOOLEAN

\* A new database file and the connection that created it.
Init ==
    /\ head = NoRows
    /\ blocks = {}
    /\ coldKnown = FALSE
    /\ coldMax = -1
    /\ changes = NoChanges
    /\ stmt = Idle
    /\ saved = [head |-> NoRows, blocks |-> {}]
    /\ exact = TRUE

\* BEGIN, then the statement; its COMMIT or ROLLBACK is a later step.
Begin(s) ==
    /\ stmt = Idle
    /\ stmt' = s
    /\ saved' = [head |-> head, blocks |-> blocks]

(***************************************************************************)
(* ingest-batch.  The store passes each (series, timestamp) at most once.  *)
(***************************************************************************)
BatchKeys(batch) ==
    {k \in Series \X Time : batch[k[1]][k[2]] # Absent}

Batches == {b \in Table : BatchKeys(b) # {} /\ Cardinality(BatchKeys(b)) <= MaxBatch}

\* Mutant of ExistsCold: the bound itself is taken to be free.
ExistsColdBelow(s, t, bound) ==
    t < bound /\ \E b \in blocks : b.series = s /\ b.pts[t] # Absent

\* cold_sample_exists, asked only of timestamps up to the cached bound.
ExistsCold(s, t, bound) ==
    t <= bound /\ \E b \in blocks : b.series = s /\ b.pts[t] # Absent

\* A record whose cold check would have to decode a damaged block.
MeetsDamage(batch, bound) ==
    \E k \in BatchKeys(batch) : k[2] <= bound /\ Undecodable(blocks, k[1], k[2])

\* Mutant of HeadAfter: the overwrite flag is not looked at.
HeadOverwritten(batch, bound, overwrite) ==
    [s \in Series |-> [t \in Time |->
        IF batch[s][t] = Absent THEN head[s][t] ELSE batch[s][t]]]

\* The head after the batch: INSERT OR IGNORE, then UPDATE when overwriting.
HeadAfter(batch, bound, overwrite) ==
    [s \in Series |-> [t \in Time |->
        IF \/ batch[s][t] = Absent
           \/ ~overwrite /\ (ExistsCold(s, t, bound) \/ head[s][t] # Absent)
        THEN head[s][t]
        ELSE batch[s][t]]]

NewAt(batch, bound, t) ==
    {s \in Series : /\ batch[s][t] # Absent
                    /\ head[s][t] = Absent
                    /\ ~ExistsCold(s, t, bound)}

\* The first batch of a connection looks the bound up, if no block was written
\* before it.
KeepsBound(bound) ==
    /\ coldKnown' = TRUE
    /\ coldMax' = bound
    /\ exact' = (exact \/ ~coldKnown)

IngestBatch(batch, overwrite) ==
    \E bound \in ColdBound :
        /\ ~MeetsDamage(batch, bound)
        /\ Begin([op |-> IF overwrite THEN "ingest" ELSE "import",
                  batch |-> batch, cutoff |-> 0])
        /\ head' = HeadAfter(batch, bound, overwrite)
        /\ changes' = [t \in Time |-> Cardinality(NewAt(batch, bound, t))]
        /\ KeepsBound(bound)
        /\ UNCHANGED blocks

\* The cold check of some record fails with SQLITE_CORRUPT_VTAB: the store
\* rolls the transaction back.  The connection keeps the bound it looked up.
RejectBatch(batch) ==
    /\ stmt = Idle
    /\ \E bound \in ColdBound :
           /\ MeetsDamage(batch, bound)
           /\ KeepsBound(bound)
    /\ UNCHANGED <<head, blocks, changes, stmt, saved>>

\* INSERT INTO samples(series_id,ts,value): neither counts nor cold checks.
InsertSample(s, t, v) ==
    /\ LET new == [NoRows EXCEPT ![s] = [NoRow EXCEPT ![t] = v]]
       IN  Begin([op |-> "insert", batch |-> new, cutoff |-> 0])
    /\ head' = [head EXCEPT ![s] = [head[s] EXCEPT ![t] = v]]
    /\ UNCHANGED <<blocks, coldKnown, coldMax, changes, exact>>

(***************************************************************************)
(* compact-before.  One call takes the oldest hot row below the cutoff and *)
(* either merges hot rows into the block that covers it or seals a slice   *)
(* of hot rows that lies between the neighbouring blocks.                  *)
(***************************************************************************)
IsOldestHot(s, t, cutoff) ==
    /\ head[s][t] # Absent
    /\ t < cutoff
    /\ \A r \in Series, u \in Time :
           head[r][u] # Absent => t < u \/ (t = u /\ s <= r)

\* load_overlapping_block: the covering block with the lowest chunk number.
Overlapping(s, t) ==
    LET covering == {b \in InBucket(blocks, s, Bucket(t)) : Covers(b, t)}
    IN  {b \in covering : \A c \in covering : b.chunk <= c.chunk}

\* The rows of S in time order, as far as the LIMIT goes.
FirstRows(S, limit) == {t \in S : Rank(S, t) < limit}

\* Mutants of WithoutRange: one timestamp too many, and one too few.
WithoutRangeAndNext(s, taken) ==
    [head EXCEPT ![s] = [t \in Time |->
        IF \E i, j \in taken : i <= t /\ t <= j + 1 THEN Absent ELSE head[s][t]]]

WithoutRangeButLast(s, taken) ==
    [head EXCEPT ![s] = [t \in Time |->
        IF \E i, j \in taken : i <= t /\ t < j THEN Absent ELSE head[s][t]]]

\* delete_hot_range over the first to the last timestamp taken.
WithoutRange(s, taken) ==
    [head EXCEPT ![s] = [t \in Time |->
        IF \E i, j \in taken : i <= t /\ t <= j THEN Absent ELSE head[s][t]]]

\* The new blocks get room below the bound on chunk numbers.
AppendBlocks(kept, s, bucket, row) ==
    \E first \in NextChunkNo(kept, s, bucket) :
        /\ \A b \in Pieces(s, bucket, row, first) : b.chunk <= MaxChunkNo
        /\ blocks' = kept \cup Pieces(s, bucket, row, first)
        /\ RaiseColdMax(RowTimes(row))

\* Mutant of SliceFrom: the slice does not stop at the next block.
SlicePastBlocks(kept, s, t, cutoff) ==
    {u \in Time :
        /\ head[s][u] # Absent
        /\ t <= u /\ u < cutoff /\ u < Bucket(t) + BlockSpan}

\* The hot rows a slice may take: from t to the end of the bucket, the cutoff
\* or the next block, whichever comes first.
SliceFrom(kept, s, t, cutoff) ==
    {u \in Time :
        /\ head[s][u] # Absent
        /\ t <= u /\ u < cutoff /\ u < Bucket(t) + BlockSpan
        /\ \A b \in InBucket(kept, s, Bucket(t)) :
               (\A i \in Points(b) : t < i) => (\A i \in Points(b) : u < i)}

SealSlice(kept, s, t, cutoff, limit) ==
    LET taken == FirstRows(SliceFrom(kept, s, t, cutoff), limit)
        row == [u \in Time |-> IF u \in taken THEN head[s][u] ELSE Absent]
    IN  /\ AppendBlocks(kept, s, Bucket(t), row)
        /\ head' = WithoutRange(s, taken)

PointLimit(limit) == IF limit > MaxBlockPoints THEN MaxBlockPoints ELSE limit

CompactStatement(cutoff) == [op |-> "compact", batch |-> NoRows, cutoff |-> cutoff]

\* No block covers the oldest row, or the one that does is undecodable and is
\* dropped first.
CompactHotSlice(cutoff, limit) ==
    \E s \in Series, t \in Time :
        /\ IsOldestHot(s, t, cutoff)
        /\ \A b \in Overlapping(s, t) : ~b.ok
        /\ Begin(CompactStatement(cutoff))
        /\ SealSlice(blocks \ Overlapping(s, t), s, t, cutoff, PointLimit(limit))
        /\ UNCHANGED <<changes, exact>>

\* The covering block is rewritten with the hot rows of its range on top.
CompactOverlappingBlock(cutoff, limit) ==
    \E s \in Series, t \in Time : \E b \in Overlapping(s, t) :
        LET hot == {u \in Time : head[s][u] # Absent /\ Covers(b, u)}
            taken == FirstRows(hot, PointLimit(limit))
            row == [u \in Time |-> IF u \in taken THEN head[s][u] ELSE b.pts[u]]
        IN  /\ IsOldestHot(s, t, cutoff)
            /\ b.ok
            /\ Begin(CompactStatement(cutoff))
            /\ AppendBlocks(blocks \ {b}, s, b.bucket, row)
            /\ head' = WithoutRange(s, taken)
            /\ UNCHANGED <<changes, exact>>

(***************************************************************************)
(* delete-before.  Blocks below the cutoff go; a bucket with a block that  *)
(* straddles it is rewritten whole, its hot rows included.                 *)
(***************************************************************************)
StraddledBuckets(cutoff) ==
    {<<b.series, b.bucket>> : b \in {c \in blocks : Straddles(c, cutoff)}}

InStraddled(cutoff, s, t) == <<s, Bucket(t)>> \in StraddledBuckets(cutoff)

\* Mutant of KeptRow: the bucket is rewritten from its blocks alone.
KeptColdRow(cutoff, s, bucket) ==
    [t \in Time |-> IF Bucket(t) = bucket /\ t >= cutoff
                    THEN ColdValue(blocks, s, t) ELSE Absent]

\* load_bucket without what is too old: blocks that do not decode are dropped.
KeptRow(cutoff, s, bucket) ==
    [t \in Time |-> IF Bucket(t) = bucket /\ t >= cutoff
                    THEN Salvaged(head, blocks, s, t) ELSE Absent]

RewrittenBlocks(cutoff) ==
    UNION {Pieces(k[1], k[2], KeptRow(cutoff, k[1], k[2]), 0) :
               k \in StraddledBuckets(cutoff)}

DeleteBefore(cutoff) ==
    /\ Begin([op |-> "delete", batch |-> NoRows, cutoff |-> cutoff])
    /\ blocks' = {b \in blocks : /\ ~EndsBefore(b, cutoff)
                                 /\ <<b.series, b.bucket>> \notin StraddledBuckets(cutoff)}
                 \cup RewrittenBlocks(cutoff)
    /\ head' = [s \in Series |-> [t \in Time |->
                   IF t < cutoff \/ InStraddled(cutoff, s, t)
                   THEN Absent ELSE head[s][t]]]
    /\ RaiseColdMax(UNION {Points(b) : b \in RewrittenBlocks(cutoff)})
    /\ UNCHANGED <<changes, exact>>

(***************************************************************************)
(* One batch of the store's retention sweep.  The cutoff is aligned down   *)
(* to a bucket.  Whole expired blocks are taken in order of max_ts up to   *)
(* the limit, at least one; what is left of the limit goes to hot rows.    *)
(***************************************************************************)
Aligned(cutoff) == cutoff - (cutoff % BlockSpan)

Expired(cutoff) == {b \in blocks : EndsBefore(b, cutoff)}

SampleCount(bs) == Cardinality({x \in bs \X Time : x[1].pts[x[2]] # Absent})

\* ORDER BY max_ts, series_id
Precedes(b, c) ==
    LET later == \E j \in Points(c) : EndsBefore(b, j)
        level == /\ \A j \in Points(c) : ~EndsBefore(b, j)
                 /\ \A i \in Points(b) : ~EndsBefore(c, i)
    IN  later \/ (level /\ b.series <= c.series)

\* The set of blocks the scan has pushed when it stops.
IsBlockBatch(taken, expired, limit) ==
    /\ expired # {} => taken # {}
    /\ \A c \in taken, b \in expired \ taken : Precedes(c, b)
    /\ Cardinality(taken) > 1 => SampleCount(taken) <= limit
    /\ \A b \in expired \ taken :
           (\A c \in expired \ taken : Precedes(b, c)) =>
               SampleCount(taken) >= limit \/ SampleCount(taken \cup {b}) > limit

HeadKeysBefore(cutoff) == {k \in Series \X Time : k[2] < cutoff /\ head[k[1]][k[2]] # Absent}

FirstHeadKeys(keys, n) ==
    {k \in keys : Cardinality({j \in keys : j[2] < k[2] \/ (j[2] = k[2] /\ j[1] < k[1])}) < n}

ExpireBatch(cutoff, limit) ==
    LET target == Aligned(cutoff)
        expired == Expired(target)
        old == HeadKeysBefore(target)
    IN  /\ expired # {} \/ old # {}
        /\ Begin([op |-> "expire", batch |-> NoRows, cutoff |-> target])
        /\ \E taken \in SUBSET expired :
               LET gone == FirstHeadKeys(old, limit - SampleCount(taken))
               IN  /\ IsBlockBatch(taken, expired, limit)
                   /\ blocks' = blocks \ taken
                   /\ head' = [s \in Series |-> [t \in Time |->
                                  IF <<s, t>> \in gone THEN Absent ELSE head[s][t]]]
        /\ UNCHANGED <<coldKnown, coldMax, changes, exact>>

(***************************************************************************)
(* The end of a transaction, and of a connection.                          *)
(***************************************************************************)
Commit ==
    /\ stmt # Idle
    /\ stmt' = Idle
    /\ changes' = NoChanges  \* never read again before it is next rewritten
    /\ saved' = [head |-> head, blocks |-> blocks]
    /\ UNCHANGED <<head, blocks, coldKnown, coldMax, exact>>

\* Any later step of the transaction fails.  SQLite restores the tables; the
\* bound cached in the connection is not part of them and stays.
Rollback ==
    /\ stmt # Idle
    /\ stmt' = Idle
    /\ changes' = NoChanges
    /\ head' = saved.head
    /\ blocks' = saved.blocks
    /\ UNCHANGED <<saved, coldKnown, coldMax, exact>>

\* The process ends, with or without an open transaction, and the next one
\* connects: the journal is rolled back and the bound is unknown.  Unless the
\* connection looks it up before it writes a block, it will be too low.
Reopen ==
    /\ CanReopen
    /\ stmt' = Idle
    /\ changes' = NoChanges
    /\ head' = saved.head
    /\ blocks' = saved.blocks
    /\ coldKnown' = FALSE
    /\ coldMax' = -1
    /\ exact' = (saved.blocks = {})
    /\ UNCHANGED saved

\* A stored payload stops decoding.
DamageBlock ==
    /\ CanDamage
    /\ stmt = Idle
    /\ \E b \in blocks :
           /\ b.ok
           /\ blocks' = (blocks \ {b}) \cup {[b EXCEPT !.ok = FALSE]}
           /\ saved' = [saved EXCEPT !.blocks = blocks']
    /\ UNCHANGED <<head, coldKnown, coldMax, changes, stmt, exact>>

Cutoffs == 1..(Horizon + 1)

Next ==
    \/ \E batch \in Batches, overwrite \in BOOLEAN : IngestBatch(batch, overwrite)
    \/ \E batch \in Batches : RejectBatch(batch)
    \/ \E s \in Series, t \in Time, v \in Values : InsertSample(s, t, v)
    \/ \E cutoff \in Cutoffs, limit \in Limits : CompactHotSlice(cutoff, limit)
    \/ \E cutoff \in Cutoffs, limit \in Limits : CompactOverlappingBlock(cutoff, limit)
    \/ \E cutoff \in Cutoffs : DeleteBefore(cutoff)
    \/ \E cutoff \in Cutoffs, limit \in Limits : ExpireBatch(cutoff, limit)
    \/ Commit
    \/ Rollback
    \/ Reopen
    \/ DamageBlock

Spec == Init /\ [][Next]_vars
--------------------------------------------------------------------------------
(***************************************************************************)
(* Properties.                                                             *)
(***************************************************************************)
Apart(b, c) ==
    \/ \A i \in Points(b), j \in Points(c) : i < j
    \/ \A i \in Points(b), j \in Points(c) : j < i

PairwiseApart(bs) ==
    \A b, c \in bs : b # c /\ b.series = c.series => Apart(b, c)

\* The points of two blocks of one series never interleave, so at most one
\* block can hold a timestamp: what load_overlapping_block (one LIMIT 1 block),
\* cold_sample_exists and the unordered merge of reads all rely on.
BlocksDisjoint == PairwiseApart(blocks)

\* Every block is one piece of one bucket: it has a point, no more than a block
\* may hold, all in its bucket, and a chunk number no other block of the bucket
\* has (the primary key), however often slices are appended and rewritten.
BlocksWellFormed ==
    \A b \in blocks :
        /\ Cardinality(Points(b)) \in 1..MaxBlockPoints
        /\ \A t \in Points(b) : Bucket(t) = b.bucket
        /\ \A c \in InBucket(blocks, b.series, b.bucket) : c.chunk = b.chunk => c = b

\* compact-before moves samples and changes none: every query answers as before,
\* whichever path it took.  Only where queries failed over a block that does not
\* decode they may succeed afterwards, and then find the hot row if there is one.
CompactionKeepsSamples ==
    stmt.op = "compact" =>
        \A s \in Series, t \in Time :
            LET before == View(saved.head, saved.blocks)[s][t]
                after == View(head, blocks)[s][t]
            IN  IF before = Corrupt THEN after \in {Corrupt, saved.head[s][t]}
                                    ELSE after = before

\* delete-before removes exactly the samples older than the cutoff; rewriting
\* the buckets the cutoff falls into keeps each later value, hot over cold.  It
\* takes away no failure from the cutoff on but by dropping the block.
RetentionExact ==
    stmt.op = "delete" =>
        \A s \in Series, t \in Time :
            LET before == View(saved.head, saved.blocks)[s][t]
                after == View(head, blocks)[s][t]
            IN  IF t < stmt.cutoff THEN after = Absent
                ELSE IF before = Corrupt THEN after \in {Corrupt, saved.head[s][t]}
                ELSE after = before

\* The batch has added a sample where there was none.
Added(s, t) ==
    /\ View(saved.head, saved.blocks)[s][t] = Absent
    /\ View(head, blocks)[s][t] # Absent

\* samples_changes counts, per timestamp, exactly the samples the batch added:
\* the store adds these counts to sample_count and to the minute rollups.  The
\* limit is that of the code: a connection to a table with blocks must look the
\* bound up before it writes one (the unlimited statement is CountsAreOfNew).
ChangesAreNew ==
    stmt.op \in {"ingest", "import"} /\ exact =>
        \A t \in Time : changes[t] = Cardinality({s \in Series : Added(s, t)})

HotKeys(h) == {k \in Series \X Time : h[k[1]][k[2]] # Absent}

\* Each compaction batch leaves fewer hot rows and each retention batch fewer
\* stored samples, so a sweep that repeats them until nothing is left ends.
MaintenanceMakesProgress ==
    /\ stmt.op = "compact" =>
           Cardinality(HotKeys(head)) < Cardinality(HotKeys(saved.head))
    /\ stmt.op = "expire" =>
           Cardinality(HotKeys(head)) + SampleCount(blocks)
               < Cardinality(HotKeys(saved.head)) + SampleCount(saved.blocks)

\* The committed contents behave as the map of SampleMap: a transaction has the
\* whole effect of its statement or none.
Promise == INSTANCE SampleMap WITH
               samples <- View(saved.head, saved.blocks),
               Statements <- Statement, MayLose <- CanDamage,
               Unreadable <- Corrupt, sure <- exact

Implements == Promise!Spec

(***************************************************************************)
(* Statements of the documentation that the code does not keep.            *)
(***************************************************************************)
\* ARCHITECTURE.md:378, of ingest-batch with arg2 = 0: "preserves existing
\* samples and is used for historical import".
ImportKeepsExisting ==
    stmt.op = "import" =>
        \A s \in Series, t \in Time :
            View(saved.head, saved.blocks)[s][t] # Absent =>
                View(head, blocks)[s][t] = View(saved.head, saved.blocks)[s][t]

\* ARCHITECTURE.md:380, "When a timestamp may already exist in cold storage, the
\* extension checks the overlapping cold blocks before counting the sample as
\* new": what is counted is new, on every connection.
CountsAreOfNew ==
    stmt.op \in {"ingest", "import"} =>
        \A t \in Time : changes[t] = Cardinality({s \in Series : Added(s, t)})

\* sqlite-tsdb/README.md:17, "Last-write-wins inserts keyed by (series_id, ts)":
\* a retention batch may drop a sample, but never bring back an earlier write.
NoOldWriteReturns ==
    stmt.op = "expire" =>
        \A s \in Series, t \in Time :
            LET before == View(saved.head, saved.blocks)[s][t]
            IN  before # Corrupt => View(head, blocks)[s][t] \in {Absent, before}
================================================================================
