--------------------------- MODULE TsdbTableProofs ---------------------------
(***************************************************************************)
(* Proofs about TsdbTable, for every set of series and values, every       *)
(* horizon, bucket width, block size and limit.                            *)
(***************************************************************************)
EXTENDS TsdbTable, Sums

(***************************************************************************)
(* Arithmetic of buckets and of pieces.                                    *)
(***************************************************************************)
\* The bucket of a timestamp is a multiple of the span at or below it.
LEMMA BucketMultiple ==
    ASSUME NEW t \in Time
    PROVE  /\ Bucket(t) = BlockSpan * (t \div BlockSpan)
           /\ Bucket(t) \in Time
           /\ Bucket(t) <= t
<1> DEFINE m == BlockSpan * (t \div BlockSpan)
           r == t % BlockSpan
<1>1. BlockSpan \in Nat \ {0} /\ Horizon \in Nat /\ t \in Nat /\ t <= Horizon
  BY TableAssumption DEF Time
<1>2. t = m + r /\ r \in Nat /\ m \in Nat BY <1>1, DivMod
<1>3. Bucket(t) = t - r BY DEF Bucket
<1> HIDE DEF m, r
<1>4. t - r = m /\ m <= t /\ m \in 0..Horizon BY <1>1, <1>2
<1> QED BY <1>3, <1>4 DEF m, Time

\* Of timestamps in different buckets, the one in the earlier bucket is earlier.
LEMMA BucketOrder ==
    ASSUME NEW i \in Time, NEW j \in Time, Bucket(i) < Bucket(j)
    PROVE  i < j
<1>1. BlockSpan \in Nat \ {0} /\ i \in Nat /\ j \in Nat
  BY TableAssumption DEF Time
<1>2. ASSUME j <= i PROVE FALSE
  <2> DEFINE p == j \div BlockSpan
             q == i \div BlockSpan
  <2>1. p <= q /\ p \in Nat /\ q \in Nat BY <1>2, <1>1, DivMonotone, DivMod
  <2>2. Bucket(j) = BlockSpan * p /\ Bucket(i) = BlockSpan * q BY BucketMultiple
  <2> HIDE DEF p, q
  <2>3. BlockSpan * p <= BlockSpan * q BY <2>1, <1>1
  <2>4. BlockSpan * p \in Nat /\ BlockSpan * q \in Nat BY <2>1, <1>1
  <2> QED BY <2>2, <2>3, <2>4
<1> QED BY <1>1, <1>2

\* The rank of a timestamp among the rows is a number, and grows with it.
LEMMA RankMonotone ==
    ASSUME NEW S \in SUBSET Time, NEW i \in Time, NEW j \in Time, i <= j
    PROVE  Rank(S, i) \in Nat /\ Rank(S, j) \in Nat /\ Rank(S, i) <= Rank(S, j)
<1>1. IsFiniteSet(Time)
  BY FS_Interval, TableAssumption DEF Time
<1>2. IsFiniteSet({u \in S : u < j}) /\ IsFiniteSet({u \in S : u < i})
  BY <1>1, FS_Subset, {u \in S : u < j} \in SUBSET Time, {u \in S : u < i} \in SUBSET Time
<1>3. \A u \in S : u < i => u < j
  BY TableAssumption DEF Time
<1>4. {u \in S : u < i} \in SUBSET {u \in S : u < j} BY <1>3
<1> QED BY <1>2, <1>4, FS_Subset, FS_CardinalityType DEF Rank

\* Buckets follow the order of time.
LEMMA BucketMonotone ==
    ASSUME NEW i \in Time, NEW j \in Time, i <= j
    PROVE  Bucket(i) <= Bucket(j)
<1>1. i \in Nat /\ j \in Nat /\ Bucket(i) \in Nat /\ Bucket(j) \in Nat
  BY BucketMultiple, TableAssumption DEF Time
<1>2. ~(Bucket(j) < Bucket(i)) BY <1>1, BucketOrder
<1> QED BY <1>1, <1>2

\* A timestamp from t on and below the end of the bucket of t is in that bucket.
LEMMA BucketWindow ==
    ASSUME NEW t \in Time, NEW u \in Time, t <= u, u < Bucket(t) + BlockSpan
    PROVE  Bucket(u) = Bucket(t)
<1> DEFINE p == t \div BlockSpan
           q == u \div BlockSpan
<1>1. BlockSpan \in Nat \ {0} /\ t \in Nat /\ u \in Nat
  BY TableAssumption DEF Time
<1>2. p \in Nat /\ q \in Nat /\ p <= q BY <1>1, DivMod, DivMonotone
<1>3. /\ Bucket(t) = BlockSpan * p /\ Bucket(u) = BlockSpan * q /\ Bucket(u) <= u
  BY BucketMultiple
<1> HIDE DEF p, q
<1>4. ASSUME p + 1 <= q PROVE FALSE
  <2>1. BlockSpan * (p + 1) <= BlockSpan * q BY <1>1, <1>2, <1>4
  <2>2. BlockSpan * (p + 1) = BlockSpan * p + BlockSpan BY <1>1, <1>2
  <2>3. BlockSpan * p \in Nat /\ BlockSpan * q \in Nat BY <1>1, <1>2
  <2> QED BY <2>1, <2>2, <2>3, <1>1, <1>3
<1>5. p = q BY <1>2, <1>4
<1> QED BY <1>3, <1>5

(***************************************************************************)
(* The pieces a run of rows is cut into.                                   *)
(***************************************************************************)
PieceNo(row, t) == Rank(RowTimes(row), t) \div MaxBlockPoints

\* Piece numbers are natural and follow the order of time.
LEMMA PieceNoMonotone ==
    ASSUME NEW row, NEW i \in Time, NEW j \in Time, i <= j
    PROVE  /\ PieceNo(row, i) \in Nat /\ PieceNo(row, j) \in Nat
           /\ PieceNo(row, i) <= PieceNo(row, j)
<1>1. RowTimes(row) \in SUBSET Time BY DEF RowTimes
<1>2. MaxBlockPoints \in Nat \ {0} BY TableAssumption
<1> QED BY <1>1, <1>2, RankMonotone, DivMonotone, DivMod DEF PieceNo

\* A piece is a block row, and it holds row values under their own timestamps.
LEMMA PiecesAreBlocks ==
    ASSUME NEW s \in Series, NEW bucket \in Time, NEW row \in Row, NEW first \in Nat,
           NEW b \in Pieces(s, bucket, row, first)
    PROVE  /\ b \in Block /\ b.ok /\ b.series = s /\ b.bucket = bucket
           /\ b.chunk - first \in Nat
           /\ \A t \in Time : b.pts[t] # Absent =>
                  b.pts[t] = row[t] /\ PieceNo(row, t) = b.chunk - first
<1>1. PICK u \in RowTimes(row) :
          b = [series |-> s, bucket |-> bucket, chunk |-> first + PieceNo(row, u),
               pts |-> Piece(row, PieceNo(row, u)), ok |-> TRUE]
  BY DEF Pieces, PieceNo
<1>2. u \in Time /\ PieceNo(row, u) \in Nat
  BY PieceNoMonotone, TableAssumption DEF RowTimes, Time
<1>3. Piece(row, PieceNo(row, u)) \in Row BY DEF Piece, Row
<1>4. first + PieceNo(row, u) \in Nat /\ b.chunk - first = PieceNo(row, u)
  BY <1>1, <1>2
<1>5. b \in Block BY <1>1, <1>3, <1>4 DEF Block
<1>6. ASSUME NEW t \in Time, b.pts[t] # Absent
      PROVE  b.pts[t] = row[t] /\ PieceNo(row, t) = b.chunk - first
  BY <1>1, <1>4, <1>6 DEF Piece, PieceNo
<1> QED BY <1>1, <1>2, <1>4, <1>5, <1>6

\* Every row is a point of some piece.
LEMMA PiecesHoldAll ==
    ASSUME NEW s, NEW bucket, NEW row, NEW first, NEW t \in Time, row[t] # Absent
    PROVE  \E b \in Pieces(s, bucket, row, first) : b.pts[t] = row[t]
<1> DEFINE b == [series |-> s, bucket |-> bucket, chunk |-> first + PieceNo(row, t),
                 pts |-> Piece(row, PieceNo(row, t)), ok |-> TRUE]
<1>1. t \in RowTimes(row) BY DEF RowTimes
<1>2. b \in Pieces(s, bucket, row, first) BY <1>1 DEF Pieces, PieceNo
<1>3. b.pts[t] = row[t] BY DEF Piece, PieceNo
<1> QED BY <1>2, <1>3

\* Two pieces of one run do not interleave.
LEMMA PiecesApart ==
    ASSUME NEW s \in Series, NEW bucket \in Time, NEW row \in Row, NEW first \in Nat,
           NEW b \in Pieces(s, bucket, row, first),
           NEW c \in Pieces(s, bucket, row, first), b # c
    PROVE  Apart(b, c)
<1> DEFINE n(x) == x.chunk - first
<1>1. /\ n(b) \in Nat /\ \A t \in Points(b) : t \in Time /\ PieceNo(row, t) = n(b)
      /\ n(c) \in Nat /\ \A t \in Points(c) : t \in Time /\ PieceNo(row, t) = n(c)
  BY PiecesAreBlocks DEF Points
<1>2. n(b) # n(c)
  <2>1. PICK u \in RowTimes(row) :
            b = [series |-> s, bucket |-> bucket, chunk |-> first + PieceNo(row, u),
                 pts |-> Piece(row, PieceNo(row, u)), ok |-> TRUE]
    BY DEF Pieces, PieceNo
  <2>2. PICK v \in RowTimes(row) :
            c = [series |-> s, bucket |-> bucket, chunk |-> first + PieceNo(row, v),
                 pts |-> Piece(row, PieceNo(row, v)), ok |-> TRUE]
    BY DEF Pieces, PieceNo
  <2>3. PieceNo(row, u) \in Nat /\ PieceNo(row, v) \in Nat
    BY PieceNoMonotone, TableAssumption DEF RowTimes, Time
  <2>4. PieceNo(row, u) # PieceNo(row, v) BY <2>1, <2>2
  <2> QED BY <2>1, <2>2, <2>3, <2>4
<1>3. ASSUME NEW i \in Time, NEW j \in Time, PieceNo(row, i) < PieceNo(row, j)
      PROVE  i < j
  BY <1>3, PieceNoMonotone, TableAssumption DEF Time
<1> HIDE DEF n
<1>4. CASE n(b) < n(c) BY <1>1, <1>3, <1>4 DEF Apart
<1>5. CASE n(c) < n(b) BY <1>1, <1>3, <1>5 DEF Apart
<1> QED BY <1>1, <1>2, <1>4, <1>5

(***************************************************************************)
(* Sets of blocks.                                                         *)
(***************************************************************************)
\* The points of a block are in the bucket of the block.
PointsInBucket(bs) == \A b \in bs : \A t \in Points(b) : Bucket(t) = b.bucket

\* What every set of blocks the table ever holds satisfies.
GoodBlocks(bs) == bs \subseteq Block /\ PointsInBucket(bs) /\ PairwiseApart(bs)

\* The rows to be written do not interleave with the points of a block.
ApartFromRows(b, row) ==
    \/ \A i \in Points(b), j \in RowTimes(row) : i < j
    \/ \A i \in Points(b), j \in RowTimes(row) : j < i

\* Points of different buckets do not interleave.
LEMMA OtherBucketApart ==
    ASSUME NEW bs \in SUBSET Block, PointsInBucket(bs), NEW b \in bs,
           NEW bucket \in Time, NEW row,
           \A t \in RowTimes(row) : Bucket(t) = bucket,
           b.bucket # bucket
    PROVE  ApartFromRows(b, row)
<1>1. b.bucket \in Nat /\ bucket \in Nat
  BY TableAssumption DEF Block, Time
<1>2. \A i \in Points(b) : i \in Time /\ Bucket(i) = b.bucket
  BY DEF PointsInBucket, Points
<1>3. \A j \in RowTimes(row) : j \in Time /\ Bucket(j) = bucket
  BY DEF RowTimes
<1>4. CASE b.bucket < bucket BY <1>2, <1>3, <1>4, BucketOrder DEF ApartFromRows
<1>5. CASE bucket < b.bucket BY <1>2, <1>3, <1>5, BucketOrder DEF ApartFromRows
<1> QED BY <1>1, <1>4, <1>5

\* Writing rows of one bucket that do not interleave with the blocks that stay
\* leaves a good set of blocks.
LEMMA AppendGood ==
    ASSUME NEW kept, GoodBlocks(kept), NEW s \in Series, NEW bucket \in Time,
           NEW row \in Row, NEW first \in Nat,
           \A t \in RowTimes(row) : Bucket(t) = bucket,
           \A b \in kept : b.series = s => ApartFromRows(b, row)
    PROVE  GoodBlocks(kept \cup Pieces(s, bucket, row, first))
<1> DEFINE P == Pieces(s, bucket, row, first)
<1>1. \A b \in P : /\ b \in Block /\ b.series = s /\ b.bucket = bucket
                    /\ Points(b) \subseteq RowTimes(row)
  BY PiecesAreBlocks DEF Points, RowTimes
<1>2. kept \cup P \subseteq Block BY <1>1 DEF GoodBlocks
<1>3. PointsInBucket(kept \cup P) BY <1>1 DEF GoodBlocks, PointsInBucket
<1>4. ASSUME NEW b \in kept \cup P, NEW c \in kept \cup P, b # c, b.series = c.series
      PROVE  Apart(b, c)
  <2>1. CASE b \in kept /\ c \in kept
    BY <2>1, <1>4 DEF GoodBlocks, PairwiseApart
  <2>2. CASE b \in P /\ c \in P
    BY <2>2, <1>4, PiecesApart
  <2>3. CASE b \in kept /\ c \in P
    BY <2>3, <1>4, <1>1 DEF Apart, ApartFromRows
  <2>4. CASE b \in P /\ c \in kept
    BY <2>4, <1>4, <1>1 DEF Apart, ApartFromRows
  <2> QED BY <2>1, <2>2, <2>3, <2>4
<1>5. PairwiseApart(kept \cup P) BY <1>4 DEF PairwiseApart
<1> QED BY <1>2, <1>3, <1>5 DEF GoodBlocks

\* In a good set at most one block that decodes holds a sample, so a cold read
\* has one answer.
LEMMA ColdUnique ==
    ASSUME NEW bs, GoodBlocks(bs), NEW s, NEW t \in Time, NEW b \in ColdIn(bs, s, t)
    PROVE  ColdValue(bs, s, t) = b.pts[t] /\ ColdIn(bs, s, t) = {b}
<1>1. ASSUME NEW c \in ColdIn(bs, s, t), c # b PROVE FALSE
  <2>1. Apart(b, c) BY <1>1 DEF ColdIn, GoodBlocks, PairwiseApart
  <2>2. t \in Points(b) /\ t \in Points(c) BY <1>1 DEF ColdIn, Points
  <2> QED BY <2>1, <2>2, TableAssumption DEF Apart, Time
<1>2. ColdIn(bs, s, t) = {b} BY <1>1
<1> QED BY <1>2 DEF ColdValue, PointAt

\* What a read finds in the blocks after rows have been written to them.
LEMMA AppendColdValue ==
    ASSUME NEW kept, NEW s \in Series, NEW bucket \in Time, NEW row \in Row,
           NEW first \in Nat, GoodBlocks(kept \cup Pieces(s, bucket, row, first)),
           NEW r \in Series, NEW t \in Time
    PROVE  ColdValue(kept \cup Pieces(s, bucket, row, first), r, t) =
               IF r = s /\ row[t] # Absent THEN row[t] ELSE ColdValue(kept, r, t)
<1> DEFINE P == Pieces(s, bucket, row, first)
<1>1. ASSUME NEW b \in P
      PROVE  b.ok /\ b.series = s /\ (b.pts[t] # Absent => b.pts[t] = row[t])
  BY PiecesAreBlocks
<1> HIDE DEF P
<1>2. CASE r = s /\ row[t] # Absent
  <2>1. PICK b \in P : b.pts[t] = row[t] BY <1>2, PiecesHoldAll DEF P
  <2>2. b.ok /\ b.series = r /\ b.pts[t] # Absent BY <2>1, <1>1, <1>2
  <2>3. b \in ColdIn(kept \cup P, r, t) BY <2>2 DEF ColdIn
  <2> QED BY <2>1, <2>3, <1>2, ColdUnique DEF P
<1>3. CASE ~(r = s /\ row[t] # Absent)
  <2>1. \A b \in P : ~(b.ok /\ b.series = r /\ b.pts[t] # Absent) BY <1>1, <1>3
  <2>2. ColdIn(kept \cup P, r, t) = ColdIn(kept, r, t)
    BY <2>1 DEF ColdIn
  <2>3. ColdValue(kept \cup P, r, t) = ColdValue(kept, r, t) BY <2>2 DEF ColdValue
  <2> QED BY <2>3, <1>3 DEF P
<1> QED BY <1>2, <1>3

(***************************************************************************)
(* Compaction.                                                             *)
(***************************************************************************)
\* Two blocks of one series never cover the same timestamp, so the LIMIT 1 of
\* load_overlapping_block leaves no other covering block behind.
LEMMA CoveredOnce ==
    ASSUME NEW bs, GoodBlocks(bs), NEW t \in Time, NEW b \in bs, NEW c \in bs,
           b.series = c.series, Covers(b, t), Covers(c, t)
    PROVE  b = c
<1>1. ASSUME b # c PROVE FALSE
  <2>1. Apart(b, c) BY <1>1 DEF GoodBlocks, PairwiseApart
  <2>2. PICK i \in Points(b), j \in Points(b) : i <= t /\ t <= j BY DEF Covers
  <2>3. PICK k \in Points(c), l \in Points(c) : k <= t /\ t <= l BY DEF Covers
  <2>4. i \in Nat /\ j \in Nat /\ k \in Nat /\ l \in Nat /\ t \in Nat
    BY TableAssumption DEF Points, Time
  <2>5. (i < k /\ i < l /\ j < k /\ j < l) \/ (k < i /\ l < i /\ k < j /\ l < j)
    BY <2>1 DEF Apart
  <2> QED BY <2>2, <2>3, <2>4, <2>5
<1> QED BY <1>1

\* The LIMIT cuts a run of hot rows, it leaves no gap: every hot row from the
\* first to the last row taken is taken, so the range deleted is what was moved.
LEMMA FirstRowsNoGap ==
    ASSUME NEW S \in SUBSET Time, NEW limit \in Nat, NEW hot \in SUBSET Time,
           \A i, j \in S, u \in hot : i <= u /\ u <= j => u \in S,
           NEW i \in FirstRows(S, limit), NEW j \in FirstRows(S, limit),
           NEW u \in hot, i <= u, u <= j
    PROVE  u \in FirstRows(S, limit)
<1>1. u \in S BY DEF FirstRows
<1>2. Rank(S, j) < limit /\ j \in Time BY DEF FirstRows
<1>3. Rank(S, u) \in Nat /\ Rank(S, j) \in Nat /\ Rank(S, u) <= Rank(S, j)
  BY <1>2, RankMonotone
<1> QED BY <1>1, <1>2, <1>3 DEF FirstRows

HotTimes(s) == {u \in Time : head[s][u] # Absent}

\* The decodable samples are those of the present tables.
SameSalvage(h, bs) ==
    \A r \in Series, u \in Time : Salvaged(h, bs, r, u) = Salvaged(head, blocks, r, u)

\* Moving hot rows of one series into blocks keeps what can be read of them, provided
\* the rows written answer for the block they replace and no hot row is lost.
LEMMA MoveKeepsSamples ==
    ASSUME head \in Table, NEW s \in Series, NEW bucket \in Time, NEW row \in Row,
           NEW first \in Nat, NEW kept,
           GoodBlocks(kept \cup Pieces(s, bucket, row, first)),
           NEW taken \in SUBSET HotTimes(s),
           \A i, j \in taken, u \in HotTimes(s) : i <= u /\ u <= j => u \in taken,
           \A u \in taken : row[u] = head[s][u],
           \A u \in Time \ taken :
               ColdValue(blocks, s, u) =
                   IF row[u] # Absent THEN row[u] ELSE ColdValue(kept, s, u),
           \A r \in Series \ {s}, u \in Time :
               ColdValue(blocks, r, u) = ColdValue(kept, r, u)
    PROVE  SameSalvage(WithoutRange(s, taken), kept \cup Pieces(s, bucket, row, first))
<1> DEFINE new == kept \cup Pieces(s, bucket, row, first)
           h == WithoutRange(s, taken)
<1>1. ASSUME NEW r \in Series, NEW u \in Time
      PROVE  Salvaged(h, new, r, u) = Salvaged(head, blocks, r, u)
  <2>1. ColdValue(new, r, u) =
            IF r = s /\ row[u] # Absent THEN row[u] ELSE ColdValue(kept, r, u)
    BY AppendColdValue
  <2>2. CASE r # s
    <3>1. h[r][u] = head[r][u] BY <2>2 DEF WithoutRange, Table
    <3>2. ColdValue(new, r, u) = ColdValue(blocks, r, u) BY <2>1, <2>2
    <3> QED BY <3>1, <3>2 DEF Salvaged
  <2>3. CASE r = s /\ u \in taken
    <3>1. u \in Nat BY TableAssumption DEF Time
    <3>2. h[r][u] = Absent BY <2>3, <3>1 DEF WithoutRange, Table
    <3>3. head[r][u] # Absent /\ row[u] = head[r][u] BY <2>3 DEF HotTimes
    <3> QED BY <2>1, <2>3, <3>2, <3>3 DEF Salvaged
  <2>4. CASE r = s /\ u \notin taken
    <3>1. h[r][u] = head[r][u]
      <4>1. h[r][u] = IF \E i, j \in taken : i <= u /\ u <= j THEN Absent ELSE head[s][u]
        BY <2>4 DEF WithoutRange, Table
      <4>2. (\E i, j \in taken : i <= u /\ u <= j) => u \notin HotTimes(s) BY <2>4
      <4> QED BY <4>1, <4>2, <2>4 DEF HotTimes
    <3>2. ColdValue(new, r, u) = ColdValue(blocks, r, u) BY <2>1, <2>4
    <3> QED BY <3>1, <3>2 DEF Salvaged
  <2> QED BY <2>2, <2>3, <2>4
<1> HIDE DEF new, h
<1> QED BY <1>1 DEF SameSalvage, new, h

\* The cached bound stays a timestamp or -1.
LEMMA RaiseColdMaxType ==
    ASSUME NEW written \in SUBSET Time, coldKnown \in BOOLEAN, coldMax \in Time \cup {-1},
           RaiseColdMax(written)
    PROVE  coldKnown' \in BOOLEAN /\ coldMax' \in Time \cup {-1}
  BY DEF RaiseColdMax

\* A chunk number found by max(chunk_no)+1 is natural.
LEMMA NextChunkNoType ==
    ASSUME NEW bs \in SUBSET Block, NEW s, NEW bucket, NEW n \in NextChunkNo(bs, s, bucket)
    PROVE  n \in Nat
  BY DEF NextChunkNo, InBucket, Block

\* No block is damaged that was not.
NoNewDamage == \A b \in blocks' : b \in blocks \/ b.ok

\* What a compaction step must leave behind.
CompactionDone ==
    /\ head' \in Table
    /\ GoodBlocks(blocks')
    /\ coldKnown' \in BOOLEAN /\ coldMax' \in Time \cup {-1}
    /\ SameSalvage(head', blocks')
    /\ NoNewDamage

\* Sealing a slice: the rows taken lie between the blocks around them.
LEMMA CompactHotSliceDone ==
    ASSUME TypeOK, GoodBlocks(blocks), NEW cutoff \in Nat, NEW limit \in Nat,
           CompactHotSlice(cutoff, limit)
    PROVE  CompactionDone
<1>1. PICK s \in Series, t \in Time :
          /\ IsOldestHot(s, t, cutoff)
          /\ \A b \in Overlapping(s, t) : ~b.ok
          /\ SealSlice(blocks \ Overlapping(s, t), s, t, cutoff, PointLimit(limit))
  BY DEF CompactHotSlice
<1> DEFINE kept == blocks \ Overlapping(s, t)
           slice == SliceFrom(kept, s, t, cutoff)
           taken == FirstRows(slice, PointLimit(limit))
           row == [u \in Time |-> IF u \in taken THEN head[s][u] ELSE Absent]
<1>2. PICK first \in NextChunkNo(kept, s, Bucket(t)) :
          /\ blocks' = kept \cup Pieces(s, Bucket(t), row, first)
          /\ RaiseColdMax(RowTimes(row))
  BY <1>1 DEF SealSlice, AppendBlocks
<1>3. head' = WithoutRange(s, taken) BY <1>1 DEF SealSlice
<1>4. /\ head \in Table /\ head[s] \in Row /\ blocks \in SUBSET Block
      /\ PointLimit(limit) \in Nat /\ Bucket(t) \in Time
      /\ Time \subseteq Nat /\ BlockSpan \in Nat \ {0}
  <2>1. head \in Table /\ head[s] \in Row /\ blocks \in SUBSET Block
    BY DEF TypeOK, Table
  <2>2. PointLimit(limit) \in Nat BY TableAssumption DEF PointLimit
  <2>3. Time \subseteq Nat /\ BlockSpan \in Nat \ {0} BY TableAssumption DEF Time
  <2> QED BY <2>1, <2>2, <2>3, BucketMultiple
<1>5. first \in Nat BY <1>2, <1>4, NextChunkNoType
<1>6. row \in Row BY <1>4 DEF Row
<1>7. /\ slice \in SUBSET HotTimes(s) /\ taken \in SUBSET slice
      /\ \A u \in slice :
             /\ u \in Time /\ t <= u /\ u < cutoff /\ u < Bucket(t) + BlockSpan
             /\ \A b \in InBucket(kept, s, Bucket(t)) :
                    (\A i \in Points(b) : t < i) => (\A i \in Points(b) : u < i)
  BY DEF SliceFrom, FirstRows, HotTimes
<1>8. RowTimes(row) = taken BY <1>7 DEF RowTimes, HotTimes
<1>9. \A u \in RowTimes(row) : Bucket(u) = Bucket(t)
  BY <1>7, <1>8, BucketWindow
<1>10. ASSUME NEW b \in kept, b.series = s PROVE ApartFromRows(b, row)
  <2>1. CASE b.bucket # Bucket(t)
    BY <2>1, <1>4, <1>9, OtherBucketApart DEF GoodBlocks
  <2>2. CASE b.bucket = Bucket(t)
    <3>1. ~Covers(b, t)
      <4>1. ASSUME Covers(b, t) PROVE FALSE
        <5>1. \A c \in InBucket(blocks, s, Bucket(t)) : Covers(c, t) => c = b
          BY <4>1, <1>10, CoveredOnce DEF InBucket
        <5>2. b.chunk <= b.chunk BY <1>4 DEF Block
        <5>3. b \in Overlapping(s, t)
          BY <4>1, <5>1, <5>2, <1>10, <2>2 DEF Overlapping, InBucket
        <5> QED BY <5>3
      <4> QED BY <4>1
    <3>2. b \in InBucket(kept, s, Bucket(t)) BY <2>2, <1>10 DEF InBucket
    <3>3. \A i \in Points(b) : i \in Nat BY <1>4 DEF Points
    <3>4. CASE \A i \in Points(b) : t < i
      BY <3>2, <3>3, <3>4, <1>4, <1>7, <1>8 DEF ApartFromRows
    <3>5. CASE \E i \in Points(b) : i <= t
      <4>1. \A j \in Points(b) : j < t BY <3>1, <3>3, <3>5, <1>4 DEF Covers
      <4>2. ASSUME NEW j \in Points(b), NEW u \in taken PROVE j < u
        <5>1. j \in Nat /\ u \in Nat /\ t \in Nat BY <3>3, <1>4, <1>7
        <5>2. j < t /\ t <= u BY <4>1, <1>7
        <5> QED BY <5>1, <5>2
      <4> QED BY <4>2, <1>8 DEF ApartFromRows
    <3> QED BY <3>3, <3>4, <3>5, <1>4
  <2> QED BY <2>1, <2>2
<1>11. GoodBlocks(kept) BY DEF GoodBlocks, PointsInBucket, PairwiseApart
<1> HIDE DEF row
<1>12. GoodBlocks(kept \cup Pieces(s, Bucket(t), row, first))
  BY <1>4, <1>5, <1>6, <1>9, <1>10, <1>11, AppendGood
<1>13. ASSUME NEW i \in taken, NEW j \in taken, NEW u \in HotTimes(s), i <= u, u <= j
       PROVE  u \in taken
  <2>1. \A x, y \in slice, w \in HotTimes(s) : x <= w /\ w <= y => w \in slice
    <3> SUFFICES ASSUME NEW x \in slice, NEW y \in slice, NEW w \in HotTimes(s),
                        x <= w, w <= y
                 PROVE  w \in slice
      OBVIOUS
    <3>1. w \in Time /\ head[s][w] # Absent BY DEF HotTimes
    <3>2. t <= w /\ w < cutoff /\ w < Bucket(t) + BlockSpan
      <4>1. /\ t <= x /\ y < cutoff /\ y < Bucket(t) + BlockSpan
            /\ x \in Nat /\ y \in Nat /\ w \in Nat /\ t \in Nat /\ Bucket(t) \in Nat
        BY <3>1, <1>4, <1>7
      <4> HIDE DEF slice
      <4> QED BY <4>1, <1>4
    <3>3. ASSUME NEW b \in InBucket(kept, s, Bucket(t)), \A k \in Points(b) : t < k
          PROVE  \A k \in Points(b) : w < k
      <4>1. \A k \in Points(b) : y < k BY <3>3, <1>7
      <4>2. \A k \in Points(b) : k \in Nat BY <1>4 DEF Points
      <4>3. w \in Nat /\ y \in Nat BY <3>1, <1>4, <1>7
      <4> HIDE DEF slice
      <4> QED BY <4>1, <4>2, <4>3
    <3> QED BY <3>1, <3>2, <3>3 DEF SliceFrom
  <2>2. slice \in SUBSET Time /\ HotTimes(s) \in SUBSET Time BY DEF SliceFrom, HotTimes
  <2> HIDE DEF slice
  <2> QED BY <1>4, <1>13, <2>1, <2>2, FirstRowsNoGap
<1>14. ASSUME NEW r \in Series, NEW u \in Time
       PROVE  ColdValue(blocks, r, u) = ColdValue(kept, r, u)
  <2>1. ColdIn(blocks, r, u) = ColdIn(kept, r, u) BY <1>1 DEF ColdIn
  <2> QED BY <2>1 DEF ColdValue
<1>15. /\ \A u \in taken : row[u] = head[s][u]
       /\ \A u \in Time \ taken : row[u] = Absent
  BY <1>7 DEF row
<1>16. SameSalvage(head', blocks')
  <2> HIDE DEF kept, taken
  <2>1. taken \in SUBSET HotTimes(s) BY <1>7 DEF taken
  <2>2. \A i, j \in taken, u \in HotTimes(s) : i <= u /\ u <= j => u \in taken BY <1>13
  <2>3. /\ \A u \in taken : row[u] = head[s][u]
        /\ \A u \in Time \ taken :
               ColdValue(blocks, s, u) =
                   IF row[u] # Absent THEN row[u] ELSE ColdValue(kept, s, u)
        /\ \A r \in Series \ {s}, u \in Time : ColdValue(blocks, r, u) = ColdValue(kept, r, u)
    BY <1>14, <1>15
  <2>4. SameSalvage(WithoutRange(s, taken), kept \cup Pieces(s, Bucket(t), row, first))
    BY <1>4, <1>5, <1>6, <1>12, <2>1, <2>2, <2>3, MoveKeepsSamples
  <2> QED BY <1>2, <1>3, <2>4 DEF SameSalvage
<1>17. head' \in Table
  BY <1>3, <1>4 DEF WithoutRange, Table, Row
<1>18. RowTimes(row) \in SUBSET Time BY DEF RowTimes
<1>19. coldKnown' \in BOOLEAN /\ coldMax' \in Time \cup {-1}
  BY <1>2, <1>18, RaiseColdMaxType DEF TypeOK
<1>20. NoNewDamage
  BY <1>2, <1>4, <1>5, <1>6, PiecesAreBlocks DEF NoNewDamage
<1> QED BY <1>2, <1>12, <1>16, <1>17, <1>19, <1>20 DEF CompactionDone

\* Merging into the covering block: the rows written lie within its range, which
\* no other block of the series enters.
LEMMA CompactOverlappingBlockDone ==
    ASSUME TypeOK, GoodBlocks(blocks), NEW cutoff \in Nat, NEW limit \in Nat,
           CompactOverlappingBlock(cutoff, limit)
    PROVE  CompactionDone
<1> DEFINE hot(s, b) == {u \in Time : head[s][u] # Absent /\ Covers(b, u)}
           takenOf(s, b) == FirstRows(hot(s, b), PointLimit(limit))
           rowOf(s, b) == [u \in Time |-> IF u \in takenOf(s, b)
                                           THEN head[s][u] ELSE b.pts[u]]
<1>1. PICK s \in Series, t \in Time : \E b \in Overlapping(s, t) :
          /\ b.ok
          /\ AppendBlocks(blocks \ {b}, s, b.bucket, rowOf(s, b))
          /\ head' = WithoutRange(s, takenOf(s, b))
  BY DEF CompactOverlappingBlock
<1>2. PICK b \in Overlapping(s, t) :
          /\ b.ok
          /\ AppendBlocks(blocks \ {b}, s, b.bucket, rowOf(s, b))
          /\ head' = WithoutRange(s, takenOf(s, b))
  BY <1>1
<1> DEFINE kept == blocks \ {b}
           taken == takenOf(s, b)
           row == rowOf(s, b)
<1>3. PICK first \in NextChunkNo(kept, s, b.bucket) :
          /\ blocks' = kept \cup Pieces(s, b.bucket, row, first)
          /\ RaiseColdMax(RowTimes(row))
  BY <1>2 DEF AppendBlocks
<1>4. /\ head \in Table /\ head[s] \in Row /\ blocks \in SUBSET Block
      /\ PointLimit(limit) \in Nat /\ Time \subseteq Nat
      /\ b \in blocks /\ b \in Block /\ b.series = s
  <2>1. head \in Table /\ head[s] \in Row /\ blocks \in SUBSET Block
    BY DEF TypeOK, Table
  <2>2. PointLimit(limit) \in Nat BY TableAssumption DEF PointLimit
  <2>3. Time \subseteq Nat BY TableAssumption DEF Time
  <2>4. b \in blocks /\ b.series = s BY DEF Overlapping, InBucket
  <2> QED BY <2>1, <2>2, <2>3, <2>4
<1>5. first \in Nat /\ b.bucket \in Time /\ b.pts \in Row
  <2>1. b.bucket \in Time /\ b.pts \in Row BY <1>4 DEF Block
  <2>2. kept \in SUBSET Block BY <1>4
  <2> QED BY <1>3, <2>1, <2>2, NextChunkNoType
<1>6. row \in Row BY <1>4, <1>5 DEF Row
<1>7. /\ hot(s, b) \in SUBSET HotTimes(s) /\ taken \in SUBSET hot(s, b)
      /\ \A u \in hot(s, b) : u \in Time /\ Covers(b, u)
  BY DEF FirstRows, HotTimes
<1>8. \A u \in RowTimes(row) : u \in Time /\ Covers(b, u)
  <2> SUFFICES ASSUME NEW u \in RowTimes(row) PROVE u \in Time /\ Covers(b, u)
    OBVIOUS
  <2>1. u \in Time BY DEF RowTimes
  <2>2. CASE u \in taken BY <2>2, <1>7
  <2>3. CASE u \notin taken
    <3>1. u \in Points(b) BY <2>1, <2>3 DEF RowTimes, Points
    <3>2. u <= u BY <2>1, <1>4
    <3> QED BY <2>1, <3>1, <3>2 DEF Covers
  <2> QED BY <2>1, <2>2, <2>3
<1>9. ASSUME NEW u \in RowTimes(row) PROVE Bucket(u) = b.bucket
  <2>1. PICK i \in Points(b), j \in Points(b) : i <= u /\ u <= j BY <1>8 DEF Covers
  <2>2. /\ i \in Time /\ j \in Time /\ u \in Time
        /\ Bucket(i) = b.bucket /\ Bucket(j) = b.bucket
    BY <1>4, <1>8 DEF Points, GoodBlocks, PointsInBucket
  <2>3. Bucket(i) <= Bucket(u) /\ Bucket(u) <= Bucket(j) BY <2>1, <2>2, BucketMonotone
  <2>4. Bucket(u) \in Nat /\ b.bucket \in Nat BY <2>2, <1>4, <1>5, BucketMultiple
  <2> QED BY <2>2, <2>3, <2>4
<1>10. ASSUME NEW c \in kept, c.series = s PROVE ApartFromRows(c, row)
  <2>1. Apart(c, b) BY <1>4, <1>10 DEF GoodBlocks, PairwiseApart
  <2>2. \A i \in Points(c) : i \in Nat BY <1>4 DEF Points
  <2>3. \A i \in Points(b) : i \in Nat BY <1>4 DEF Points
  <2>4. \A u \in RowTimes(row) : u \in Nat /\ \E i, j \in Points(b) : i <= u /\ u <= j
    BY <1>4, <1>8 DEF Covers
  <2> HIDE DEF row
  <2>5. CASE \A i \in Points(c), j \in Points(b) : i < j
    <3>1. ASSUME NEW i \in Points(c), NEW u \in RowTimes(row) PROVE i < u
      <4>1. PICK j \in Points(b) : j <= u BY <2>4
      <4> QED BY <4>1, <2>2, <2>3, <2>4, <2>5
    <3> QED BY <3>1 DEF ApartFromRows
  <2>6. CASE \A i \in Points(c), j \in Points(b) : j < i
    <3>1. ASSUME NEW i \in Points(c), NEW u \in RowTimes(row) PROVE u < i
      <4>1. PICK j \in Points(b) : u <= j BY <2>4
      <4> QED BY <4>1, <2>2, <2>3, <2>4, <2>6
    <3> QED BY <3>1 DEF ApartFromRows
  <2> QED BY <2>1, <2>5, <2>6 DEF Apart
<1>11. GoodBlocks(kept) BY DEF GoodBlocks, PointsInBucket, PairwiseApart
<1> HIDE DEF row
<1>12. GoodBlocks(kept \cup Pieces(s, b.bucket, row, first))
  BY <1>5, <1>6, <1>9, <1>10, <1>11, AppendGood
<1>13. ASSUME NEW i \in taken, NEW j \in taken, NEW u \in HotTimes(s), i <= u, u <= j
       PROVE  u \in taken
  <2>1. \A x, y \in hot(s, b), w \in HotTimes(s) : x <= w /\ w <= y => w \in hot(s, b)
    <3> SUFFICES ASSUME NEW x \in hot(s, b), NEW y \in hot(s, b), NEW w \in HotTimes(s),
                        x <= w, w <= y
                 PROVE  w \in hot(s, b)
      OBVIOUS
    <3>1. w \in Time /\ head[s][w] # Absent BY DEF HotTimes
    <3>2. PICK k \in Points(b) : k <= x BY DEF Covers
    <3>3. PICK l \in Points(b) : y <= l BY DEF Covers
    <3>4. k \in Nat /\ l \in Nat /\ x \in Nat /\ y \in Nat /\ w \in Nat
      BY <3>1, <1>4 DEF Points
    <3>5. k <= w /\ w <= l BY <3>2, <3>3, <3>4
    <3> QED BY <3>1, <3>5 DEF Covers
  <2>2. hot(s, b) \in SUBSET Time /\ HotTimes(s) \in SUBSET Time BY DEF HotTimes
  <2> HIDE DEF hot
  <2> QED BY <1>4, <1>13, <2>1, <2>2, FirstRowsNoGap
<1>14. ASSUME NEW u \in Time \ taken
       PROVE  ColdValue(blocks, s, u) = IF row[u] # Absent THEN row[u] ELSE ColdValue(kept, s, u)
  <2>1. row[u] = b.pts[u] BY DEF row
  <2>2. CASE b.pts[u] # Absent
    <3>1. b \in ColdIn(blocks, s, u) BY <2>2, <1>2, <1>4 DEF ColdIn
    <3> QED BY <3>1, <2>1, <2>2, ColdUnique
  <2>3. CASE b.pts[u] = Absent
    <3>1. ColdIn(blocks, s, u) = ColdIn(kept, s, u) BY <2>3 DEF ColdIn
    <3>2. ColdValue(blocks, s, u) = ColdValue(kept, s, u) BY <3>1 DEF ColdValue
    <3> QED BY <3>2, <2>1, <2>3
  <2> QED BY <2>2, <2>3
<1>15. ASSUME NEW r \in Series \ {s}, NEW u \in Time
       PROVE  ColdValue(blocks, r, u) = ColdValue(kept, r, u)
  <2>1. ColdIn(blocks, r, u) = ColdIn(kept, r, u) BY <1>4 DEF ColdIn
  <2> QED BY <2>1 DEF ColdValue
<1>16. \A u \in taken : row[u] = head[s][u]
  BY <1>7 DEF row
<1>17. SameSalvage(head', blocks')
  <2>1. taken \in SUBSET HotTimes(s) BY <1>7
  <2> HIDE DEF kept, taken
  <2>2. \A i, j \in taken, u \in HotTimes(s) : i <= u /\ u <= j => u \in taken BY <1>13
  <2>3. /\ \A u \in taken : row[u] = head[s][u]
        /\ \A u \in Time \ taken :
               ColdValue(blocks, s, u) =
                   IF row[u] # Absent THEN row[u] ELSE ColdValue(kept, s, u)
        /\ \A r \in Series \ {s}, u \in Time : ColdValue(blocks, r, u) = ColdValue(kept, r, u)
    BY <1>14, <1>15, <1>16
  <2>4. SameSalvage(WithoutRange(s, taken), kept \cup Pieces(s, b.bucket, row, first))
    <3>1. head \in Table /\ b.bucket \in Time /\ row \in Row /\ first \in Nat
      BY <1>4, <1>5, <1>6
    <3>2. GoodBlocks(kept \cup Pieces(s, b.bucket, row, first)) BY <1>12
    <3> QED BY ONLY <3>1, <3>2, <2>1, <2>2, <2>3, MoveKeepsSamples
  <2> QED BY <1>2, <1>3, <2>4 DEF taken, SameSalvage
<1>18. head' \in Table
  BY <1>2, <1>4 DEF WithoutRange, Table, Row
<1>19. RowTimes(row) \in SUBSET Time BY DEF RowTimes
<1>20. coldKnown' \in BOOLEAN /\ coldMax' \in Time \cup {-1}
  BY <1>3, <1>19, RaiseColdMaxType DEF TypeOK
<1>21. NoNewDamage
  BY <1>3, <1>4, <1>5, <1>6, PiecesAreBlocks DEF NoNewDamage
<1> QED BY <1>3, <1>12, <1>17, <1>18, <1>20, <1>21 DEF CompactionDone

(***************************************************************************)
(* Retention.                                                              *)
(***************************************************************************)
\* What maintenance may read.
LEMMA SalvagedType ==
    ASSUME NEW h \in Table, NEW bs, GoodBlocks(bs), NEW s \in Series, NEW t \in Time
    PROVE  Salvaged(h, bs, s, t) \in Values \cup {Absent}
<1>1. h[s][t] \in Values \cup {Absent} BY DEF Table, Row
<1>2. ColdValue(bs, s, t) \in Values \cup {Absent}
  <2>1. CASE ColdIn(bs, s, t) = {} BY <2>1 DEF ColdValue, PointAt
  <2>2. CASE ColdIn(bs, s, t) # {}
    <3>1. PICK b \in ColdIn(bs, s, t) : TRUE BY <2>2
    <3>2. b.pts \in Row BY DEF ColdIn, GoodBlocks, Block
    <3> QED BY <3>1, <3>2, ColdUnique DEF Row
  <2> QED BY <2>1, <2>2
<1> QED BY <1>1, <1>2 DEF Salvaged

\* Under a block that does not decode there is at most a hot row.
LEMMA UndecodableIsHot ==
    ASSUME NEW h, NEW bs, GoodBlocks(bs), NEW s \in Series, NEW t \in Time,
           Undecodable(bs, s, t)
    PROVE  Salvaged(h, bs, s, t) = h[s][t]
<1>1. PICK b \in bs : b.series = s /\ Covers(b, t) /\ ~b.ok
  BY DEF Undecodable
<1>2. ASSUME NEW c \in ColdIn(bs, s, t) PROVE FALSE
  <2>1. c \in bs /\ c.ok /\ c.series = s /\ t \in Points(c) /\ t <= t
    BY TableAssumption DEF ColdIn, Points, Time
  <2>2. Covers(c, t) BY <2>1 DEF Covers
  <2>3. c = b BY <1>1, <2>1, <2>2, CoveredOnce
  <2> QED BY <1>1, <2>1, <2>3
<1>3. ColdValue(bs, s, t) = Absent BY <1>2 DEF ColdValue, PointAt
<1> QED BY <1>3 DEF Salvaged

\* What a query returns, and that it fails only over a damaged block.
LEMMA ViewAt ==
    ASSUME NEW h \in Table, NEW bs, GoodBlocks(bs), NEW s \in Series, NEW t \in Time
    PROVE  /\ View(h, bs)[s][t] = IF Undecodable(bs, s, t) THEN Corrupt
                                  ELSE Salvaged(h, bs, s, t)
           /\ Salvaged(h, bs, s, t) # Corrupt
           /\ View(h, bs)[s][t] = Corrupt <=> Undecodable(bs, s, t)
<1>1. Salvaged(h, bs, s, t) # Corrupt
  BY SalvagedType, TableAssumption
<1>2. View(h, bs)[s][t] = IF Undecodable(bs, s, t) THEN Corrupt ELSE Salvaged(h, bs, s, t)
  BY DEF View
<1> QED BY <1>1, <1>2

\* Where the decodable samples stay, a query answers as before or fails no longer.
LEMMA QueryKept ==
    ASSUME head \in Table, GoodBlocks(blocks), head' \in Table, GoodBlocks(blocks'),
           NoNewDamage, NEW s \in Series, NEW t \in Time,
           Salvaged(head', blocks', s, t) = Salvaged(head, blocks, s, t)
    PROVE  IF View(head, blocks)[s][t] = Corrupt
           THEN View(head', blocks')[s][t] \in {Corrupt, head[s][t]}
           ELSE View(head', blocks')[s][t] = View(head, blocks)[s][t]
<1>1. Undecodable(blocks', s, t) => Undecodable(blocks, s, t)
  BY DEF NoNewDamage, Undecodable
<1>2. View(head, blocks)[s][t] = Corrupt <=> Undecodable(blocks, s, t)
  BY ViewAt
<1>3. View(head, blocks)[s][t] = IF Undecodable(blocks, s, t) THEN Corrupt
                                 ELSE Salvaged(head, blocks, s, t)
  BY ViewAt
<1>4. View(head', blocks')[s][t] = IF Undecodable(blocks', s, t) THEN Corrupt
                                   ELSE Salvaged(head', blocks', s, t)
  BY ViewAt
<1>5. Undecodable(blocks, s, t) => Salvaged(head, blocks, s, t) = head[s][t]
  BY UndecodableIsHot
<1> QED BY <1>1, <1>2, <1>3, <1>4, <1>5

\* Blocks of different buckets are apart.
LEMMA BucketsApart ==
    ASSUME NEW bs \in SUBSET Block, PointsInBucket(bs), NEW b \in bs, NEW c \in bs,
           b.bucket # c.bucket
    PROVE  Apart(b, c)
<1>1. \A t \in RowTimes(c.pts) : Bucket(t) = c.bucket
  BY DEF RowTimes, PointsInBucket, Points
<1>2. c.bucket \in Time BY DEF Block
<1>3. ApartFromRows(b, c.pts) BY <1>1, <1>2, OtherBucketApart
<1> QED BY <1>3 DEF ApartFromRows, Apart, RowTimes, Points

\* delete-before leaves a good set of blocks and exactly the samples from the
\* cutoff on.
LEMMA DeleteBeforeDone ==
    ASSUME TypeOK, GoodBlocks(blocks), NEW cutoff \in Nat, DeleteBefore(cutoff)
    PROVE  /\ head' \in Table
           /\ GoodBlocks(blocks')
           /\ coldKnown' \in BOOLEAN /\ coldMax' \in Time \cup {-1}
           /\ \A s \in Series, t \in Time :
                  Salvaged(head', blocks', s, t) =
                      IF t < cutoff THEN Absent ELSE Salvaged(head, blocks, s, t)
           /\ NoNewDamage
           /\ \A s \in Series, t \in Time : t < cutoff => ~Undecodable(blocks', s, t)
<1> DEFINE straddled == StraddledBuckets(cutoff)
           kept == {b \in blocks : /\ ~EndsBefore(b, cutoff)
                                   /\ <<b.series, b.bucket>> \notin straddled}
           new == RewrittenBlocks(cutoff)
           row(k) == KeptRow(cutoff, k[1], k[2])
<1>1. /\ blocks' = kept \cup new
      /\ head' = [s \in Series |-> [t \in Time |->
                    IF t < cutoff \/ InStraddled(cutoff, s, t) THEN Absent ELSE head[s][t]]]
      /\ RaiseColdMax(UNION {Points(b) : b \in new})
  BY DEF DeleteBefore
<1>2. /\ head \in Table /\ blocks \in SUBSET Block
      /\ Time \subseteq Nat /\ PointsInBucket(blocks) /\ PairwiseApart(blocks)
  BY TableAssumption DEF TypeOK, GoodBlocks, Time
<1>3. \A k \in straddled : k = <<k[1], k[2]>> /\ k[1] \in Series /\ k[2] \in Time
  BY <1>2 DEF StraddledBuckets, Block
<1>4. ASSUME NEW k \in straddled PROVE row(k) \in Row
  <2>1. \A t \in Time : Salvaged(head, blocks, k[1], t) \in Values \cup {Absent}
    BY <1>2, <1>3, SalvagedType
  <2> QED BY <2>1 DEF KeptRow, Row
<1>5. \A k \in straddled, t \in Time :
          row(k)[t] = IF Bucket(t) = k[2] /\ t >= cutoff
                      THEN Salvaged(head, blocks, k[1], t) ELSE Absent
  BY DEF KeptRow
<1> HIDE DEF row
<1>6. ASSUME NEW b \in new
      PROVE  \E k \in straddled :
                 /\ b \in Pieces(k[1], k[2], row(k), 0)
                 /\ b \in Block /\ b.ok /\ b.series = k[1] /\ b.bucket = k[2]
                 /\ \A t \in Time : b.pts[t] # Absent =>
                        /\ Bucket(t) = b.bucket /\ t >= cutoff
                        /\ b.pts[t] = Salvaged(head, blocks, b.series, t)
  <2>1. PICK k \in straddled : b \in Pieces(k[1], k[2], row(k), 0)
    BY DEF RewrittenBlocks, row
  <2>2. /\ b \in Block /\ b.ok /\ b.series = k[1] /\ b.bucket = k[2]
        /\ \A t \in Time : b.pts[t] # Absent => b.pts[t] = row(k)[t]
    BY <2>1, <1>3, <1>4, PiecesAreBlocks
  <2>3. ASSUME NEW t \in Time, b.pts[t] # Absent
        PROVE  /\ Bucket(t) = b.bucket /\ t >= cutoff
               /\ b.pts[t] = Salvaged(head, blocks, b.series, t)
    BY <2>2, <2>3, <1>5
  <2> QED BY <2>1, <2>2, <2>3
<1>7. ASSUME NEW k \in straddled, NEW t \in Time, row(k)[t] # Absent
      PROVE  \E b \in new : b.series = k[1] /\ b.ok /\ b.pts[t] = row(k)[t]
  <2>1. PICK b \in Pieces(k[1], k[2], row(k), 0) : b.pts[t] = row(k)[t]
    BY <1>7, PiecesHoldAll
  <2>2. b.series = k[1] /\ b.ok BY <1>3, <1>4, PiecesAreBlocks
  <2>3. b \in new BY DEF RewrittenBlocks, row
  <2> QED BY <2>1, <2>2, <2>3
<1> HIDE DEF new
<1>8. kept \cup new \subseteq Block BY <1>2, <1>6
<1>9. PointsInBucket(kept \cup new) BY <1>2, <1>6 DEF PointsInBucket, Points
<1>10. ASSUME NEW b \in kept \cup new, NEW c \in kept \cup new, b # c, b.series = c.series
       PROVE  Apart(b, c)
  <2>1. CASE b.bucket # c.bucket BY <2>1, <1>8, <1>9, BucketsApart
  <2>2. CASE b.bucket = c.bucket
    <3>1. CASE b \in kept /\ c \in kept
      BY <3>1, <1>2, <1>10 DEF PairwiseApart
    <3>2. CASE b \in new /\ c \in new
      <4>1. PICK k \in straddled : /\ b \in Pieces(k[1], k[2], row(k), 0)
                                   /\ b.series = k[1] /\ b.bucket = k[2]
        BY <3>2, <1>6
      <4>2. PICK l \in straddled : /\ c \in Pieces(l[1], l[2], row(l), 0)
                                   /\ c.series = l[1] /\ c.bucket = l[2]
        BY <3>2, <1>6
      <4>3. k = l BY <4>1, <4>2, <2>2, <1>3, <1>10
      <4>4. k[1] \in Series /\ k[2] \in Time /\ row(k) \in Row BY <1>3, <1>4
      <4> QED BY <4>1, <4>2, <4>3, <4>4, <1>10, PiecesApart
    <3>3. \A x \in new : <<x.series, x.bucket>> \in straddled
      BY <1>3, <1>6
    <3>4. \A x \in kept : <<x.series, x.bucket>> \notin straddled OBVIOUS
    <3> QED BY <3>1, <3>2, <3>3, <3>4, <2>2, <1>10
  <2> QED BY <2>1, <2>2
<1>11. GoodBlocks(kept \cup new) BY <1>8, <1>9, <1>10 DEF GoodBlocks, PairwiseApart
<1>12. ASSUME NEW s \in Series, NEW t \in Time
       PROVE  Salvaged(head', blocks', s, t) =
                  IF t < cutoff THEN Absent ELSE Salvaged(head, blocks, s, t)
  <2>1. head'[s][t] = IF t < cutoff \/ InStraddled(cutoff, s, t) THEN Absent ELSE head[s][t]
    BY <1>1
  <2>2. t \in Nat BY <1>2
  <2>3. CASE t < cutoff
    <3>1. ASSUME NEW b \in ColdIn(kept \cup new, s, t) PROVE FALSE
      <4>1. b \in kept \cup new /\ b.pts[t] # Absent BY DEF ColdIn
      <4>2. CASE b \in new BY <4>1, <4>2, <1>6, <2>2, <2>3
      <4>3. CASE b \in kept
        <5>1. PICK j \in Points(b) : ~(j < cutoff) BY <4>3 DEF EndsBefore
        <5>2. t \in Points(b) BY <4>1 DEF Points
        <5>3. j \in Nat BY <1>2 DEF Points
        <5>4. Straddles(b, cutoff) BY <5>1, <5>2, <5>3, <2>3 DEF Straddles
        <5>5. <<b.series, b.bucket>> \in straddled BY <5>4, <4>3 DEF StraddledBuckets
        <5> QED BY <5>5, <4>3
      <4> QED BY <4>1, <4>2, <4>3
    <3>2. ColdValue(kept \cup new, s, t) = Absent BY <3>1 DEF ColdValue, PointAt
    <3> QED BY <3>2, <2>1, <2>3, <1>1 DEF Salvaged
  <2>4. CASE ~(t < cutoff) /\ InStraddled(cutoff, s, t)
    <3> DEFINE k == <<s, Bucket(t)>>
    <3>1. k \in straddled BY <2>4 DEF InStraddled
    <3>2. row(k)[t] = Salvaged(head, blocks, s, t) BY <3>1, <1>5, <2>2, <2>4
    <3>3. CASE Salvaged(head, blocks, s, t) # Absent
      <4>1. PICK b \in new : b.series = s /\ b.ok /\ b.pts[t] = Salvaged(head, blocks, s, t)
        BY <3>1, <3>2, <3>3, <1>7
      <4>2. b \in ColdIn(kept \cup new, s, t) BY <4>1, <3>3 DEF ColdIn
      <4>3. ColdValue(kept \cup new, s, t) = Salvaged(head, blocks, s, t)
        BY <4>1, <4>2, <1>11, ColdUnique
      <4> QED BY <4>3, <2>1, <2>4, <1>1 DEF Salvaged
    <3>4. CASE Salvaged(head, blocks, s, t) = Absent
      <4>1. ASSUME NEW b \in ColdIn(kept \cup new, s, t) PROVE FALSE
        <5>1. b \in kept \cup new /\ b.pts[t] # Absent /\ b.series = s BY DEF ColdIn
        <5>2. CASE b \in new BY <5>1, <5>2, <1>6, <3>4
        <5>3. CASE b \in kept
          <6>1. b.bucket = Bucket(t) BY <5>1, <5>3, <1>2 DEF PointsInBucket, Points
          <6> QED BY <6>1, <5>1, <5>3, <3>1
        <5> QED BY <5>1, <5>2, <5>3
      <4>2. ColdValue(kept \cup new, s, t) = Absent BY <4>1 DEF ColdValue, PointAt
      <4> QED BY <4>2, <3>4, <2>1, <2>4, <1>1 DEF Salvaged
    <3> QED BY <3>3, <3>4
  <2>5. CASE ~(t < cutoff) /\ ~InStraddled(cutoff, s, t)
    <3>1. ASSUME NEW b \in ColdIn(blocks, s, t) PROVE b \in ColdIn(kept \cup new, s, t)
      <4>1. b \in blocks /\ b.ok /\ b.pts[t] # Absent /\ b.series = s BY DEF ColdIn
      <4>2. t \in Points(b) BY <4>1 DEF Points
      <4>3. b.bucket = Bucket(t) BY <4>1, <4>2, <1>2 DEF PointsInBucket
      <4>4. ~EndsBefore(b, cutoff) BY <4>2, <2>5 DEF EndsBefore
      <4>5. b \in kept BY <4>1, <4>3, <4>4, <2>5 DEF InStraddled
      <4> QED BY <4>1, <4>5 DEF ColdIn
    <3>2. ASSUME NEW b \in ColdIn(kept \cup new, s, t) PROVE b \in ColdIn(blocks, s, t)
      <4>1. b \in kept \cup new /\ b.ok /\ b.pts[t] # Absent /\ b.series = s BY DEF ColdIn
      <4>2. b \notin new
        <5>1. ASSUME b \in new PROVE FALSE
          <6>1. PICK k \in straddled : b.series = k[1] /\ b.bucket = k[2] /\ Bucket(t) = b.bucket
            BY <5>1, <4>1, <1>6
          <6> QED BY <6>1, <4>1, <1>3, <2>5 DEF InStraddled
        <5> QED BY <5>1
      <4> QED BY <4>1, <4>2 DEF ColdIn
    <3>3. ColdIn(kept \cup new, s, t) = ColdIn(blocks, s, t) BY <3>1, <3>2
    <3>4. ColdValue(kept \cup new, s, t) = ColdValue(blocks, s, t) BY <3>3 DEF ColdValue
    <3> QED BY <3>4, <2>1, <2>5, <1>1 DEF Salvaged
  <2> QED BY <2>3, <2>4, <2>5
<1>13. head' \in Table BY <1>1, <1>2 DEF Table, Row
<1>14. UNION {Points(b) : b \in new} \in SUBSET Time BY DEF Points
<1>15. coldKnown' \in BOOLEAN /\ coldMax' \in Time \cup {-1}
  BY <1>1, <1>14, RaiseColdMaxType DEF TypeOK
<1>16. NoNewDamage BY <1>1, <1>6 DEF NoNewDamage
<1>17. ASSUME NEW s \in Series, NEW t \in Time, t < cutoff, Undecodable(blocks', s, t)
       PROVE  FALSE
  <2>1. PICK b \in blocks' : Covers(b, t) /\ ~b.ok BY <1>17 DEF Undecodable
  <2>2. b \in kept BY <2>1, <1>1, <1>6
  <2>3. PICK i \in Points(b) : i <= t BY <2>1 DEF Covers
  <2>4. PICK j \in Points(b) : ~(j < cutoff) BY <2>2 DEF EndsBefore
  <2>5. i \in Nat /\ j \in Nat /\ t \in Nat BY <1>2 DEF Points
  <2>6. i < cutoff /\ cutoff <= j BY <1>17, <2>3, <2>4, <2>5
  <2>7. Straddles(b, cutoff) BY <2>6 DEF Straddles
  <2>8. <<b.series, b.bucket>> \in straddled BY <2>2, <2>7 DEF StraddledBuckets
  <2> QED BY <2>2, <2>8
<1> QED BY <1>1, <1>11, <1>12, <1>13, <1>15, <1>16, <1>17

(***************************************************************************)
(* The inductive invariant: the tables, and those a rollback would bring   *)
(* back, are good; outside a transaction they are the same; inside one,    *)
(* what its statement did to the samples is known.                         *)
(***************************************************************************)
IInv ==
    /\ TypeOK
    /\ GoodBlocks(blocks)
    /\ GoodBlocks(saved.blocks)
    /\ stmt = Idle => saved.head = head /\ saved.blocks = blocks
    /\ CompactionKeepsSamples
    /\ RetentionExact

\* Some of the blocks of a good set are a good set.
LEMMA GoodSubset ==
    ASSUME NEW bs, GoodBlocks(bs), NEW some \in SUBSET bs
    PROVE  GoodBlocks(some)
  BY DEF GoodBlocks, PointsInBucket, PairwiseApart

\* A damaged payload keeps the columns of its block.
LEMMA DamageGood ==
    ASSUME NEW bs, GoodBlocks(bs), NEW b \in bs
    PROVE  GoodBlocks((bs \ {b}) \cup {[b EXCEPT !.ok = FALSE]})
<1> DEFINE d == [b EXCEPT !.ok = FALSE]
<1>1. d \in Block /\ d.series = b.series /\ d.bucket = b.bucket /\ d.pts = b.pts
  BY DEF GoodBlocks, Block
<1>2. Points(d) = Points(b) BY <1>1 DEF Points
<1> HIDE DEF d
<1>3. (bs \ {b}) \cup {d} \subseteq Block BY <1>1 DEF GoodBlocks
<1>4. PointsInBucket((bs \ {b}) \cup {d})
  BY <1>1, <1>2 DEF GoodBlocks, PointsInBucket
<1>5. ASSUME NEW x \in (bs \ {b}) \cup {d}, NEW y \in (bs \ {b}) \cup {d},
             x # y, x.series = y.series
      PROVE  Apart(x, y)
  <2>1. CASE x \in bs /\ y \in bs BY <2>1, <1>5 DEF GoodBlocks, PairwiseApart
  <2>2. CASE x = d /\ y \in bs \ {b}
    <3>1. Apart(b, y) BY <2>2, <1>1, <1>5 DEF GoodBlocks, PairwiseApart
    <3> QED BY <3>1, <2>2, <1>2 DEF Apart
  <2>3. CASE y = d /\ x \in bs \ {b}
    <3>1. Apart(x, b) BY <2>3, <1>1, <1>5 DEF GoodBlocks, PairwiseApart
    <3> QED BY <3>1, <2>3, <1>2 DEF Apart
  <2> QED BY <2>1, <2>2, <2>3, <1>5
<1>6. PairwiseApart((bs \ {b}) \cup {d}) BY <1>5 DEF PairwiseApart
<1> QED BY <1>3, <1>4, <1>6 DEF GoodBlocks, d

\* The first statement of a transaction remembers what a rollback restores.
LEMMA BeginType ==
    ASSUME TypeOK, NEW s \in Statement, Begin(s)
    PROVE  /\ stmt' = s /\ stmt' \in Statement \cup {Idle} /\ stmt' # Idle
           /\ saved' \in [head : Table, blocks : SUBSET Block]
           /\ saved'.head = head /\ saved'.blocks = blocks
<1>1. s # Idle BY DEF Statement, Idle
<1> QED BY <1>1 DEF Begin, TypeOK

\* A table without rows is a table.
LEMMA NoRowsType == NoRows \in Table
  BY DEF NoRows, NoRow, Table, Row

\* The initial state satisfies the inductive invariant.
LEMMA InitIInv == Init => IInv
<1> SUFFICES ASSUME Init PROVE IInv
  OBVIOUS
<1>1. TypeOK BY NoRowsType DEF Init, TypeOK, NoChanges
<1>2. GoodBlocks(blocks) /\ GoodBlocks(saved.blocks)
  BY DEF Init, GoodBlocks, PointsInBucket, PairwiseApart
<1>3. stmt.op = "idle" BY DEF Init, Idle
<1> QED BY <1>1, <1>2, <1>3 DEF Init, IInv, CompactionKeepsSamples, RetentionExact

\* Every step, and every step that changes nothing, keeps the invariant.
LEMMA StepIInv == IInv /\ [Next]_vars => IInv'
<1> SUFFICES ASSUME IInv, [Next]_vars PROVE IInv'
  OBVIOUS
<1> USE DEF IInv
<1>1. ASSUME NEW batch \in Batches, NEW overwrite \in BOOLEAN, IngestBatch(batch, overwrite)
      PROVE  IInv'
  <2> DEFINE st == [op |-> IF overwrite THEN "ingest" ELSE "import",
                    batch |-> batch, cutoff |-> 0]
  <2>1. PICK bound \in ColdBound :
            /\ Begin(st)
            /\ head' = HeadAfter(batch, bound, overwrite)
            /\ changes' = [t \in Time |-> Cardinality(NewAt(batch, bound, t))]
            /\ coldKnown' = TRUE /\ coldMax' = bound /\ blocks' = blocks
            /\ exact' \in BOOLEAN
    BY <1>1 DEF IngestBatch, KeepsBound
  <2>2. batch \in Table BY DEF Batches
  <2>3. st \in Statement BY <2>2 DEF Statement
  <2>4. head' \in Table BY <2>1, <2>2 DEF HeadAfter, Table, Row, TypeOK
  <2>5. bound \in Time \cup {-1} BY DEF ColdBound, TypeOK, Points
  <2>6. changes' \in [Time -> Nat]
    <3>1. ASSUME NEW t \in Time PROVE Cardinality(NewAt(batch, bound, t)) \in Nat
      <4>1. NewAt(batch, bound, t) \in SUBSET Series BY DEF NewAt
      <4> QED BY <4>1, TableAssumption, FS_Subset, FS_CardinalityType
    <3> QED BY <3>1, <2>1
  <2>7. TypeOK' BY <2>1, <2>3, <2>4, <2>5, <2>6, BeginType DEF TypeOK
  <2>8. saved'.blocks = blocks /\ stmt' # Idle BY <2>1, <2>3, BeginType
  <2>9. stmt'.op \in {"ingest", "import"} BY <2>1 DEF Begin
  <2> QED BY <2>1, <2>7, <2>8, <2>9 DEF CompactionKeepsSamples, RetentionExact
<1>2. ASSUME NEW batch \in Batches, RejectBatch(batch) PROVE IInv'
  <2>1. PICK bound \in ColdBound : coldKnown' = TRUE /\ coldMax' = bound /\ exact' \in BOOLEAN
    BY <1>2 DEF RejectBatch, KeepsBound
  <2>2. bound \in Time \cup {-1} BY DEF ColdBound, TypeOK, Points
  <2>3. UNCHANGED <<head, blocks, changes, stmt, saved>> BY <1>2 DEF RejectBatch
  <2>4. TypeOK' BY <2>1, <2>2, <2>3 DEF TypeOK
  <2>5. CompactionKeepsSamples' /\ RetentionExact'
    BY <2>3 DEF CompactionKeepsSamples, RetentionExact
  <2> QED BY <2>3, <2>4, <2>5
<1>3. ASSUME NEW s \in Series, NEW t \in Time, NEW v \in Values, InsertSample(s, t, v)
      PROVE  IInv'
  <2> DEFINE new == [NoRows EXCEPT ![s] = [NoRow EXCEPT ![t] = v]]
             st == [op |-> "insert", batch |-> new, cutoff |-> 0]
  <2>1. new \in Table BY DEF NoRows, NoRow, Table, Row
  <2>2. st \in Statement BY <2>1 DEF Statement
  <2>3. Begin(st) /\ UNCHANGED <<blocks, coldKnown, coldMax, changes, exact>>
    BY <1>3 DEF InsertSample
  <2>4. head' \in Table
    <3>1. head[s] \in Row /\ head \in Table BY DEF TypeOK, Table
    <3>2. [head[s] EXCEPT ![t] = v] \in Row BY <3>1 DEF Row
    <3> QED BY <3>1, <3>2, <1>3 DEF InsertSample, Table
  <2>5. /\ stmt' = st /\ stmt' # Idle /\ stmt' \in Statement \cup {Idle}
        /\ saved' \in [head : Table, blocks : SUBSET Block] /\ saved'.blocks = blocks
    BY <2>2, <2>3, BeginType
  <2> HIDE DEF new
  <2>6. TypeOK' BY <2>3, <2>4, <2>5 DEF TypeOK
  <2>7. stmt'.op = "insert" BY <2>5
  <2> QED BY <2>3, <2>5, <2>6, <2>7 DEF CompactionKeepsSamples, RetentionExact
<1>4. ASSUME NEW cutoff \in Nat, CompactionDone, UNCHANGED <<changes, exact>>,
             Begin(CompactStatement(cutoff))
      PROVE  IInv'
  <2>1. CompactStatement(cutoff) \in Statement BY NoRowsType DEF CompactStatement, Statement
  <2>2. /\ stmt' # Idle /\ stmt' \in Statement \cup {Idle} /\ stmt'.op = "compact"
        /\ saved' \in [head : Table, blocks : SUBSET Block]
        /\ saved'.head = head /\ saved'.blocks = blocks
    BY <2>1, <1>4, BeginType DEF CompactStatement
  <2>3. TypeOK' BY <2>2, <1>4 DEF TypeOK, CompactionDone, GoodBlocks
  <2>4. CompactionKeepsSamples'
    <3>1. ASSUME NEW s \in Series, NEW t \in Time
          PROVE  IF View(head, blocks)[s][t] = Corrupt
                 THEN View(head', blocks')[s][t] \in {Corrupt, head[s][t]}
                 ELSE View(head', blocks')[s][t] = View(head, blocks)[s][t]
      BY <1>4, QueryKept DEF CompactionDone, SameSalvage, TypeOK
    <3> QED BY <2>2, <3>1 DEF CompactionKeepsSamples
  <2>5. RetentionExact' BY <2>2 DEF RetentionExact
  <2> QED BY <2>2, <2>3, <2>4, <2>5, <1>4 DEF CompactionDone
<1>5. \A cutoff \in Cutoffs : cutoff \in Nat
  BY TableAssumption DEF Cutoffs
<1>6. \A limit \in Limits : limit \in Nat
  BY TableAssumption
<1>7. ASSUME NEW cutoff \in Cutoffs, NEW limit \in Limits, CompactHotSlice(cutoff, limit)
      PROVE  IInv'
  <2>1. CompactionDone BY <1>5, <1>6, <1>7, CompactHotSliceDone
  <2>2. Begin(CompactStatement(cutoff)) /\ UNCHANGED <<changes, exact>>
    BY <1>7 DEF CompactHotSlice
  <2> QED BY <2>1, <2>2, <1>4, <1>5
<1>8. ASSUME NEW cutoff \in Cutoffs, NEW limit \in Limits,
             CompactOverlappingBlock(cutoff, limit)
      PROVE  IInv'
  <2>1. CompactionDone BY <1>5, <1>6, <1>8, CompactOverlappingBlockDone
  <2>2. Begin(CompactStatement(cutoff)) /\ UNCHANGED <<changes, exact>>
    BY <1>8 DEF CompactOverlappingBlock
  <2> QED BY <2>1, <2>2, <1>4, <1>5
<1>9. ASSUME NEW cutoff \in Cutoffs, DeleteBefore(cutoff) PROVE IInv'
  <2> DEFINE st == [op |-> "delete", batch |-> NoRows, cutoff |-> cutoff]
  <2>1. st \in Statement BY <1>5, NoRowsType DEF Statement
  <2>2. Begin(st) /\ UNCHANGED <<changes, exact>> BY <1>9 DEF DeleteBefore
  <2>3. /\ stmt' = st /\ stmt' # Idle /\ stmt' \in Statement \cup {Idle}
        /\ saved' \in [head : Table, blocks : SUBSET Block]
        /\ saved'.head = head /\ saved'.blocks = blocks
    BY <2>1, <2>2, BeginType
  <2>4. /\ head' \in Table /\ GoodBlocks(blocks')
        /\ coldKnown' \in BOOLEAN /\ coldMax' \in Time \cup {-1}
        /\ \A s \in Series, t \in Time :
               Salvaged(head', blocks', s, t) =
                   IF t < cutoff THEN Absent ELSE Salvaged(head, blocks, s, t)
        /\ NoNewDamage
        /\ \A s \in Series, t \in Time : t < cutoff => ~Undecodable(blocks', s, t)
    BY <1>5, <1>9, DeleteBeforeDone
  <2>5. TypeOK' BY <2>2, <2>3, <2>4 DEF TypeOK, GoodBlocks
  <2>6. stmt'.op = "delete" /\ stmt'.cutoff = cutoff BY <2>3
  <2>7. RetentionExact'
    <3>1. ASSUME NEW s \in Series, NEW t \in Time, t < cutoff
          PROVE  View(head', blocks')[s][t] = Absent
      <4>1. Salvaged(head', blocks', s, t) = Absent /\ ~Undecodable(blocks', s, t)
        BY <2>4, <3>1
      <4> QED BY <4>1 DEF View
    <3>2. ASSUME NEW s \in Series, NEW t \in Time, ~(t < cutoff)
          PROVE  IF View(head, blocks)[s][t] = Corrupt
                 THEN View(head', blocks')[s][t] \in {Corrupt, head[s][t]}
                 ELSE View(head', blocks')[s][t] = View(head, blocks)[s][t]
      BY <2>4, <3>2, QueryKept DEF TypeOK
    <3> QED BY <2>3, <2>6, <3>1, <3>2 DEF RetentionExact
  <2>8. CompactionKeepsSamples' BY <2>6 DEF CompactionKeepsSamples
  <2> QED BY <2>3, <2>4, <2>5, <2>7, <2>8
<1>10. ASSUME NEW cutoff \in Cutoffs, NEW limit \in Limits, ExpireBatch(cutoff, limit)
       PROVE  IInv'
  <2> DEFINE st == [op |-> "expire", batch |-> NoRows, cutoff |-> Aligned(cutoff)]
  <2>1. Aligned(cutoff) \in Nat
    <3>1. BlockSpan \in Nat \ {0} BY TableAssumption
    <3>2. cutoff = BlockSpan * (cutoff \div BlockSpan) + (cutoff % BlockSpan)
      BY <1>5, <3>1, DivMod
    <3>3. cutoff % BlockSpan \in Nat /\ cutoff \div BlockSpan \in Nat
      BY <1>5, <3>1, DivMod
    <3> DEFINE r == cutoff % BlockSpan
               m == BlockSpan * (cutoff \div BlockSpan)
    <3>4. m \in Nat BY <3>1, <3>3
    <3>5. Aligned(cutoff) = cutoff - r BY DEF Aligned
    <3> HIDE DEF r, m
    <3> QED BY <3>2, <3>3, <3>4, <3>5 DEF r, m
  <2>2. st \in Statement BY <2>1, NoRowsType DEF Statement
  <2>3. PICK taken \in SUBSET Expired(Aligned(cutoff)) :
            /\ Begin(st) /\ UNCHANGED <<coldKnown, coldMax, changes, exact>>
            /\ blocks' = blocks \ taken
            /\ \E gone : head' = [s \in Series |-> [t \in Time |->
                           IF <<s, t>> \in gone THEN Absent ELSE head[s][t]]]
    BY <1>10 DEF ExpireBatch
  <2>4. /\ stmt' = st /\ stmt' # Idle /\ stmt' \in Statement \cup {Idle}
        /\ saved' \in [head : Table, blocks : SUBSET Block]
        /\ saved'.head = head /\ saved'.blocks = blocks
    BY <2>2, <2>3, BeginType
  <2>5. head' \in Table BY <2>3 DEF TypeOK, Table, Row
  <2>6. GoodBlocks(blocks') BY <2>3, GoodSubset
  <2>7. TypeOK' BY <2>3, <2>4, <2>5, <2>6 DEF TypeOK, GoodBlocks
  <2>8. stmt'.op = "expire" BY <2>4
  <2> QED BY <2>4, <2>6, <2>7, <2>8 DEF CompactionKeepsSamples, RetentionExact
<1>11. Idle.op = "idle" /\ NoChanges \in [Time -> Nat]
  BY DEF Idle, NoChanges
<1>12. CASE Commit
  <2>1. /\ stmt' = Idle /\ changes' = NoChanges /\ saved' = [head |-> head, blocks |-> blocks]
        /\ UNCHANGED <<head, blocks, coldKnown, coldMax, exact>>
    BY <1>12 DEF Commit
  <2>2. TypeOK' BY <2>1, <1>11 DEF TypeOK
  <2> QED BY <2>1, <2>2, <1>11 DEF CompactionKeepsSamples, RetentionExact
<1>13. CASE Rollback
  <2>1. /\ stmt' = Idle /\ changes' = NoChanges /\ UNCHANGED <<saved, coldKnown, coldMax, exact>>
        /\ head' = saved.head /\ blocks' = saved.blocks
    BY <1>13 DEF Rollback
  <2>2. TypeOK' BY <2>1, <1>11 DEF TypeOK
  <2> QED BY <2>1, <2>2, <1>11 DEF CompactionKeepsSamples, RetentionExact
<1>14. CASE Reopen
  <2>1. /\ stmt' = Idle /\ changes' = NoChanges /\ coldKnown' = FALSE /\ coldMax' = -1
        /\ head' = saved.head /\ blocks' = saved.blocks /\ UNCHANGED saved
        /\ exact' \in BOOLEAN
    BY <1>14 DEF Reopen
  <2>2. TypeOK' BY <2>1, <1>11 DEF TypeOK
  <2> QED BY <2>1, <2>2, <1>11 DEF CompactionKeepsSamples, RetentionExact
<1>15. CASE DamageBlock
  <2>1. PICK b \in blocks :
            /\ blocks' = (blocks \ {b}) \cup {[b EXCEPT !.ok = FALSE]}
            /\ saved' = [saved EXCEPT !.blocks = blocks']
            /\ stmt = Idle /\ UNCHANGED <<head, coldKnown, coldMax, changes, stmt, exact>>
    BY <1>15 DEF DamageBlock
  <2>2. GoodBlocks(blocks') BY <2>1, DamageGood
  <2>3. /\ saved' \in [head : Table, blocks : SUBSET Block]
        /\ saved'.head = head' /\ saved'.blocks = blocks'
    BY <2>1, <2>2 DEF TypeOK, GoodBlocks
  <2>4. TypeOK' BY <2>1, <2>2, <2>3 DEF TypeOK, GoodBlocks
  <2> QED BY <2>1, <2>2, <2>3, <2>4, <1>11 DEF CompactionKeepsSamples, RetentionExact
<1>16. CASE UNCHANGED vars
  BY <1>16 DEF vars, TypeOK, CompactionKeepsSamples, RetentionExact
<1> QED
  BY <1>1, <1>2, <1>3, <1>7, <1>8, <1>9, <1>10, <1>12, <1>13, <1>14, <1>15, <1>16 DEF Next
--------------------------------------------------------------------------------
\* The inductive invariant holds in every state: whatever the order of writes,
\* maintenance, commits, rollbacks, damage and reopenings, the rows have their
\* types, the blocks are good, and the open transaction is what it says it is.
THEOREM Invariance == Spec => []IInv
  BY InitIInv, StepIInv, PTL DEF Spec

\* The tables and the connection only ever hold what their types allow.
THEOREM TypeCorrect == Spec => []TypeOK
<1>1. IInv => TypeOK BY DEF IInv
<1> QED BY <1>1, Invariance, PTL

\* The blocks of a series never interleave, whatever is appended, merged,
\* rewritten, expired, rolled back or damaged, in whatever order.
THEOREM BlocksStayDisjoint == Spec => []BlocksDisjoint
<1>1. IInv => BlocksDisjoint BY DEF IInv, GoodBlocks, BlocksDisjoint
<1> QED BY <1>1, Invariance, PTL

\* Compaction never changes the answer of a query, unless it failed over a block that
\* does not decode.
THEOREM CompactionIsInvisible == Spec => []CompactionKeepsSamples
<1>1. IInv => CompactionKeepsSamples BY DEF IInv
<1> QED BY <1>1, Invariance, PTL

\* delete-before removes what is older than its cutoff and nothing else, damaged
\* blocks apart.
THEOREM RetentionIsExact == Spec => []RetentionExact
<1>1. IInv => RetentionExact BY DEF IInv
<1> QED BY <1>1, Invariance, PTL
--------------------------------------------------------------------------------
(***************************************************************************)
(* The shape of blocks: the size of the pieces, and their keys.            *)
(***************************************************************************)
Sized(bs) == \A b \in bs : Cardinality(Points(b)) \in 1..MaxBlockPoints

Keyed(bs) ==
    \A b, c \in bs : b.series = c.series /\ b.bucket = c.bucket /\ b.chunk = c.chunk => b = c

WellKept(bs) == Sized(bs) /\ Keyed(bs)

\* There are finitely many timestamps, so a block has finitely many points.
LEMMA TimeFinite ==
    /\ IsFiniteSet(Time) /\ Time \subseteq Nat
    /\ \A S \in SUBSET Time : IsFiniteSet(S) /\ Cardinality(S) \in Nat
<1>1. IsFiniteSet(Time) /\ Time \subseteq Nat
  BY FS_Interval, TableAssumption DEF Time
<1> QED BY <1>1, FS_Subset, FS_CardinalityType

\* Two rows of one set have different ranks.
LEMMA RankStrict ==
    ASSUME NEW S \in SUBSET Time, NEW i \in S, NEW j \in S, i < j
    PROVE  Rank(S, i) < Rank(S, j)
<1> DEFINE A == {u \in S : u < i}
           B == {u \in S : u < j}
<1>1. i \in Nat /\ j \in Nat /\ \A u \in S : u \in Nat
  BY TimeFinite
<1>2. A \in SUBSET B /\ i \in B /\ i \notin A
  <2>1. \A u \in S : u < i => u < j
    BY <1>1
  <2>2. ~(i < i)
    BY <1>1
  <2> QED BY <2>1, <2>2
<1>3. B \in SUBSET Time /\ A \in SUBSET Time
  OBVIOUS
<1>4. Rank(S, i) = Cardinality(A) /\ Rank(S, j) = Cardinality(B)
  BY DEF Rank
<1> HIDE DEF A, B
<1>5. IsFiniteSet(B) /\ Cardinality(A) \in Nat /\ Cardinality(B) \in Nat
  BY <1>3, TimeFinite
<1>6. Cardinality(A) <= Cardinality(B) /\ Cardinality(A) # Cardinality(B)
  BY <1>2, <1>5, FS_Subset
<1> QED BY <1>4, <1>5, <1>6

\* A piece has a point, and no more than a block may hold.
LEMMA PieceSize ==
    ASSUME NEW s \in Series, NEW bucket \in Time, NEW row \in Row, NEW first \in Nat,
           NEW b \in Pieces(s, bucket, row, first)
    PROVE  Cardinality(Points(b)) \in 1..MaxBlockPoints
<1> DEFINE S == RowTimes(row)
           M == MaxBlockPoints
<1>1. PICK u \in S :
          b = [series |-> s, bucket |-> bucket, chunk |-> first + PieceNo(row, u),
               pts |-> Piece(row, PieceNo(row, u)), ok |-> TRUE]
  BY DEF Pieces, PieceNo
<1> DEFINE n == PieceNo(row, u)
           P == {t \in S : PieceNo(row, t) = n}
<1>2. S \in SUBSET Time /\ M \in Nat \ {0}
  BY TableAssumption DEF RowTimes
<1>3. Points(b) = P
  BY <1>1 DEF Points, Piece, PieceNo, RowTimes
<1>4. n \in Nat
  <2>1. u \in Time /\ u \in Nat
    BY <1>2, TimeFinite
  <2>2. PieceNo(row, u) \in Nat
    BY <2>1, u <= u, PieceNoMonotone
  <2> QED BY <2>2
<1> DEFINE from == M * n
           rank == [t \in P |-> Rank(S, t)]
<1>5. from \in Nat /\ IsFiniteSet(from..(from + M - 1))
        /\ Cardinality(from..(from + M - 1)) = M
  <2>1. from \in Nat
    BY <1>2, <1>4
  <2> HIDE DEF from
  <2>2. from \in Int /\ from + M - 1 \in Int /\ ~(from > from + M - 1)
        /\ (from + M - 1) - from + 1 = M
    BY <1>2, <2>1
  <2> QED BY <2>1, <2>2, FS_Interval
<1>6. ASSUME NEW t \in P PROVE Rank(S, t) \in from..(from + M - 1)
  <2>1. t \in Time /\ Rank(S, t) \div M = n
    BY <1>2 DEF PieceNo
  <2>2. Rank(S, t) \in Nat
    BY <1>2, <2>1, RankMonotone, TimeFinite
  <2>3. Rank(S, t) % M \in 0..(M - 1) /\ Rank(S, t) = M * n + (Rank(S, t) % M)
    BY <1>2, <2>1, <2>2, DivMod
  <2> DEFINE r == Rank(S, t)
             m == Rank(S, t) % M
  <2>4. m \in 0..(M - 1) /\ r = from + m
    BY <2>3
  <2> HIDE DEF r, m, from
  <2>5. r \in from..(from + M - 1)
    BY <1>2, <1>5, <2>4
  <2> QED BY <2>5 DEF r
<1> HIDE DEF n, from, M
<1>7. rank \in Injection(P, from..(from + M - 1))
  <2>1. rank \in [P -> from..(from + M - 1)]
    BY <1>6
  <2>2. ASSUME NEW t \in P, NEW v \in P, rank[t] = rank[v] PROVE t = v
    <3>1. t \in S /\ v \in S /\ t \in Nat /\ v \in Nat /\ Rank(S, t) = Rank(S, v)
      BY <1>2, <2>2, TimeFinite
    <3>2. Rank(S, t) \in Nat
      BY <1>2, <3>1, RankMonotone
    <3> HIDE DEF P, S
    <3>3. ~(t < v) /\ ~(v < t)
      BY <1>2, <3>1, <3>2, RankStrict
    <3> QED BY <3>1, <3>3
  <2> QED BY <2>1, <2>2 DEF Injection, IsInjective
<1>8. Cardinality(P) <= M
  <2> HIDE DEF P, rank
  <2> QED BY <1>5, <1>7, FS_Injection
<1>9. u \in P /\ P \in SUBSET Time
  BY <1>2 DEF n
<1> HIDE DEF P
<1>10. IsFiniteSet(P) /\ Cardinality(P) \in Nat /\ Cardinality(P) # 0
  BY <1>9, TimeFinite, FS_EmptySet
<1> QED BY <1>2, <1>3, <1>8, <1>10 DEF M

\* Two pieces of one run have different chunk numbers.
LEMMA PiecesKeyed ==
    ASSUME NEW s \in Series, NEW bucket \in Time, NEW row \in Row, NEW first \in Nat,
           NEW b \in Pieces(s, bucket, row, first), NEW c \in Pieces(s, bucket, row, first),
           b.chunk = c.chunk
    PROVE  b = c
<1>1. PICK u \in RowTimes(row) :
          b = [series |-> s, bucket |-> bucket, chunk |-> first + PieceNo(row, u),
               pts |-> Piece(row, PieceNo(row, u)), ok |-> TRUE]
  BY DEF Pieces, PieceNo
<1>2. PICK v \in RowTimes(row) :
          c = [series |-> s, bucket |-> bucket, chunk |-> first + PieceNo(row, v),
               pts |-> Piece(row, PieceNo(row, v)), ok |-> TRUE]
  BY DEF Pieces, PieceNo
<1>3. PieceNo(row, u) \in Nat /\ PieceNo(row, v) \in Nat
  BY PieceNoMonotone, TableAssumption DEF RowTimes, Time
<1>4. PieceNo(row, u) = PieceNo(row, v)
  BY <1>1, <1>2, <1>3
<1> QED BY <1>1, <1>2, <1>4

\* Rows appended under max(chunk_no)+1 get keys no block of the bucket has.
LEMMA AppendWellKept ==
    ASSUME NEW kept \in SUBSET Block, WellKept(kept), NEW s \in Series, NEW bucket \in Time,
           NEW row \in Row, NEW first \in NextChunkNo(kept, s, bucket)
    PROVE  WellKept(kept \cup Pieces(s, bucket, row, first))
<1> DEFINE P == Pieces(s, bucket, row, first)
<1>1. first \in Nat
  BY NextChunkNoType
<1>2. \A b \in P : /\ b \in Block /\ b.series = s /\ b.bucket = bucket
                    /\ b.chunk - first \in Nat /\ b.chunk \in Nat
                    /\ Cardinality(Points(b)) \in 1..MaxBlockPoints
  <2>1. TAKE b \in P
  <2>2. b \in Block /\ b.series = s /\ b.bucket = bucket /\ b.chunk - first \in Nat
    BY <1>1, PiecesAreBlocks
  <2>3. Cardinality(Points(b)) \in 1..MaxBlockPoints
    BY <1>1, PieceSize
  <2> QED BY <2>2, <2>3 DEF Block
<1>3. \A b \in kept : b.series = s /\ b.bucket = bucket => b.chunk \in Nat /\ b.chunk < first
  BY DEF NextChunkNo, InBucket, Block
<1>4. \A b, c \in P : b.chunk = c.chunk => b = c
  BY <1>1, PiecesKeyed
<1> HIDE DEF P
<1>5. Keyed(kept \cup P)
  <2> SUFFICES ASSUME NEW b \in kept \cup P, NEW c \in kept \cup P,
                      b.series = c.series, b.bucket = c.bucket, b.chunk = c.chunk
               PROVE  b = c
    BY DEF Keyed
  <2>1. CASE b \in kept /\ c \in kept
    BY <2>1 DEF WellKept, Keyed
  <2>2. CASE b \in P /\ c \in P
    BY <1>4, <2>2
  <2>3. CASE b \in kept /\ c \in P
    BY <1>1, <1>2, <1>3, <2>3
  <2>4. CASE b \in P /\ c \in kept
    BY <1>1, <1>2, <1>3, <2>4
  <2> QED BY <2>1, <2>2, <2>3, <2>4
<1>6. Sized(kept \cup P)
  BY <1>2 DEF WellKept, Sized
<1> QED BY <1>5, <1>6 DEF WellKept, P

\* The rows a bucket is rewritten with are rows.
LEMMA KeptRowType ==
    ASSUME head \in Table, GoodBlocks(blocks), NEW cutoff, NEW s \in Series, NEW bucket
    PROVE  KeptRow(cutoff, s, bucket) \in Row
<1>1. \A t \in Time : Salvaged(head, blocks, s, t) \in Values \cup {Absent}
  BY SalvagedType
<1> QED BY <1>1 DEF KeptRow, Row

\* delete-before numbers the blocks of the buckets it rewrites from zero; no other
\* block of them is left.
LEMMA DeleteWellKept ==
    ASSUME TypeOK, GoodBlocks(blocks), WellKept(blocks), NEW cutoff, DeleteBefore(cutoff)
    PROVE  WellKept(blocks')
<1> DEFINE straddled == StraddledBuckets(cutoff)
           kept == {b \in blocks : /\ ~EndsBefore(b, cutoff)
                                   /\ <<b.series, b.bucket>> \notin straddled}
           new == RewrittenBlocks(cutoff)
           row(k) == KeptRow(cutoff, k[1], k[2])
<1>1. blocks' = kept \cup new
  BY DEF DeleteBefore
<1>2. \A k \in straddled : k = <<k[1], k[2]>> /\ k[1] \in Series /\ k[2] \in Time
  BY DEF StraddledBuckets, Block, TypeOK
<1>3. \A k \in straddled : row(k) \in Row
  BY <1>2, KeptRowType DEF TypeOK
<1>4. \A b \in new : \E k \in straddled : b \in Pieces(k[1], k[2], row(k), 0)
  BY DEF RewrittenBlocks
<1> HIDE DEF straddled, row, new
<1>5. ASSUME NEW b \in new
      PROVE  /\ <<b.series, b.bucket>> \in straddled
             /\ b \in Pieces(b.series, b.bucket, row(<<b.series, b.bucket>>), 0)
             /\ Cardinality(Points(b)) \in 1..MaxBlockPoints
  <2>1. PICK k \in straddled : b \in Pieces(k[1], k[2], row(k), 0)
    BY <1>4
  <2>2. k[1] \in Series /\ k[2] \in Time /\ row(k) \in Row /\ k = <<k[1], k[2]>>
    BY <1>2, <1>3
  <2>3. b.series = k[1] /\ b.bucket = k[2]
    BY <2>1, <2>2, PiecesAreBlocks
  <2>4. Cardinality(Points(b)) \in 1..MaxBlockPoints
    BY <2>1, <2>2, PieceSize
  <2>5. <<b.series, b.bucket>> = k
    BY <2>2, <2>3
  <2> QED BY <2>1, <2>3, <2>4, <2>5
<1>6. Sized(blocks')
  BY <1>1, <1>5 DEF WellKept, Sized
<1>7. Keyed(blocks')
  <2> SUFFICES ASSUME NEW b \in kept \cup new, NEW c \in kept \cup new,
                      b.series = c.series, b.bucket = c.bucket, b.chunk = c.chunk
               PROVE  b = c
    BY <1>1 DEF Keyed
  <2>1. CASE b \in kept /\ c \in kept
    BY <2>1 DEF WellKept, Keyed
  <2>2. CASE b \in new /\ c \in new
    <3> DEFINE k == <<b.series, b.bucket>>
    <3>1. k \in straddled /\ k[1] = b.series /\ k[2] = b.bucket
      BY <1>5, <2>2
    <3>2. b.series \in Series /\ b.bucket \in Time /\ row(k) \in Row
      BY <1>2, <1>3, <3>1
    <3>3. b \in Pieces(b.series, b.bucket, row(k), 0) /\ c \in Pieces(b.series, b.bucket, row(k), 0)
      BY <1>5, <2>2
    <3> HIDE DEF k
    <3> QED BY <3>2, <3>3, PiecesKeyed
  <2>3. CASE (b \in kept /\ c \in new) \/ (b \in new /\ c \in kept)
    BY <1>5, <2>3
  <2> QED BY <2>1, <2>2, <2>3
<1> QED BY <1>6, <1>7 DEF WellKept

\* Fewer blocks, or one of them damaged, are as well kept.
LEMMA WellKeptStays ==
    ASSUME NEW bs, WellKept(bs)
    PROVE  /\ \A some \in SUBSET bs : WellKept(some)
           /\ \A b \in bs : b \in Block => WellKept((bs \ {b}) \cup {[b EXCEPT !.ok = FALSE]})
<1>1. \A some \in SUBSET bs : WellKept(some)
  BY DEF WellKept, Sized, Keyed
<1>2. ASSUME NEW b \in bs, b \in Block
      PROVE  WellKept((bs \ {b}) \cup {[b EXCEPT !.ok = FALSE]})
  <2> DEFINE d == [b EXCEPT !.ok = FALSE]
  <2>1. /\ d.series = b.series /\ d.bucket = b.bucket /\ d.chunk = b.chunk
        /\ d.pts = b.pts
    BY <1>2 DEF Block
  <2>2. Points(d) = Points(b)
    BY <2>1 DEF Points
  <2> HIDE DEF d
  <2>3. Sized((bs \ {b}) \cup {d}) /\ Keyed((bs \ {b}) \cup {d})
    BY <2>1, <2>2 DEF WellKept, Sized, Keyed
  <2> QED BY <2>3 DEF WellKept, d
<1> QED BY <1>1, <1>2

\* The first row in time is among the first rows, whatever the limit.
LEMMA FirstRowTaken ==
    ASSUME NEW S \in SUBSET Time, NEW t \in S, \A u \in S : t <= u, NEW limit \in Nat \ {0}
    PROVE  t \in FirstRows(S, limit)
<1>1. \A u \in S : ~(u < t)
  BY TimeFinite
<1>2. {u \in S : u < t} = {}
  BY <1>1
<1>3. Rank(S, t) = 0
  BY <1>2, FS_EmptySet DEF Rank
<1> QED BY <1>3 DEF FirstRows

\* What either way of compacting does to the tables: rows of one series, the oldest
\* hot row among them, go from the head to pieces next to blocks that were there.
Compacts(s, t, bucket, row, taken, kept, first) ==
    /\ head[s][t] # Absent /\ t \in taken /\ head' = WithoutRange(s, taken)
    /\ first \in NextChunkNo(kept, s, bucket)
    /\ blocks' = kept \cup Pieces(s, bucket, row, first)
    /\ row[t] # Absent /\ RaiseColdMax(RowTimes(row))

\* Sealing a slice compacts.
LEMMA CompactHotSliceShape ==
    ASSUME TypeOK, NEW cutoff, NEW limit \in Nat \ {0}, CompactHotSlice(cutoff, limit)
    PROVE  \E s \in Series, t \in Time, bucket \in Time, row \in Row, taken \in SUBSET Time,
              kept \in SUBSET blocks : \E first : Compacts(s, t, bucket, row, taken, kept, first)
<1>1. PICK s \in Series, t \in Time :
          /\ IsOldestHot(s, t, cutoff)
          /\ SealSlice(blocks \ Overlapping(s, t), s, t, cutoff, PointLimit(limit))
  BY DEF CompactHotSlice
<1> DEFINE kept == blocks \ Overlapping(s, t)
           slice == SliceFrom(kept, s, t, cutoff)
           taken == FirstRows(slice, PointLimit(limit))
           row == [u \in Time |-> IF u \in taken THEN head[s][u] ELSE Absent]
<1>2. PICK first \in NextChunkNo(kept, s, Bucket(t)) :
          /\ blocks' = kept \cup Pieces(s, Bucket(t), row, first)
          /\ RaiseColdMax(RowTimes(row))
          /\ head' = WithoutRange(s, taken)
  BY <1>1 DEF SealSlice, AppendBlocks
<1>3. /\ head[s] \in Row /\ PointLimit(limit) \in Nat \ {0} /\ t \in Nat /\ BlockSpan \in Nat \ {0}
      /\ Bucket(t) \in Time /\ t < Bucket(t) + BlockSpan
  <2>1. PointLimit(limit) \in Nat \ {0} /\ t \in Nat /\ BlockSpan \in Nat \ {0}
    BY TableAssumption, TimeFinite DEF PointLimit
  <2>2. head[s] \in Row
    BY DEF TypeOK, Table
  <2>3. Bucket(t) \in Time
    BY BucketMultiple
  <2>4. t < Bucket(t) + BlockSpan
    <3>1. t % BlockSpan \in 0..(BlockSpan - 1)
      BY <2>1, DivMod
    <3> DEFINE r == t % BlockSpan
    <3>2. Bucket(t) = t - r
      BY DEF Bucket
    <3> HIDE DEF r
    <3> QED BY <2>1, <3>1, <3>2 DEF r
  <2> QED BY <2>1, <2>2, <2>3, <2>4
<1>4. head[s][t] # Absent /\ t < cutoff
  BY <1>1 DEF IsOldestHot
<1>5. slice \in SUBSET Time /\ t \in slice /\ \A u \in slice : t <= u
  BY <1>3, <1>4 DEF SliceFrom
<1>6. t \in taken /\ taken \in SUBSET Time
  <2> HIDE DEF slice
  <2>1. t \in taken
    BY <1>3, <1>5, FirstRowTaken
  <2> QED BY <1>5, <2>1 DEF FirstRows
<1> HIDE DEF taken
<1>7. row \in Row /\ row[t] # Absent
  BY <1>3, <1>4, <1>6 DEF Row
<1> HIDE DEF row
<1>8. Compacts(s, t, Bucket(t), row, taken, kept, first)
  BY <1>2, <1>4, <1>6, <1>7 DEF Compacts
<1>9. kept \in SUBSET blocks
  OBVIOUS
<1> QED BY <1>3, <1>6, <1>7, <1>8, <1>9

\* Merging into the covering block compacts.
LEMMA CompactOverlappingBlockShape ==
    ASSUME TypeOK, NEW cutoff, NEW limit \in Nat \ {0}, CompactOverlappingBlock(cutoff, limit)
    PROVE  \E s \in Series, t \in Time, bucket \in Time, row \in Row, taken \in SUBSET Time,
              kept \in SUBSET blocks : \E first : Compacts(s, t, bucket, row, taken, kept, first)
<1> DEFINE hot(s, b) == {u \in Time : head[s][u] # Absent /\ Covers(b, u)}
           takenOf(s, b) == FirstRows(hot(s, b), PointLimit(limit))
           rowOf(s, b) == [u \in Time |-> IF u \in takenOf(s, b)
                                           THEN head[s][u] ELSE b.pts[u]]
<1>1. PICK s \in Series, t \in Time : \E b \in Overlapping(s, t) :
          /\ IsOldestHot(s, t, cutoff)
          /\ AppendBlocks(blocks \ {b}, s, b.bucket, rowOf(s, b))
          /\ head' = WithoutRange(s, takenOf(s, b))
  BY DEF CompactOverlappingBlock
<1>2. PICK b \in Overlapping(s, t) :
          /\ IsOldestHot(s, t, cutoff)
          /\ AppendBlocks(blocks \ {b}, s, b.bucket, rowOf(s, b))
          /\ head' = WithoutRange(s, takenOf(s, b))
  BY <1>1
<1> DEFINE kept == blocks \ {b}
           taken == takenOf(s, b)
           row == rowOf(s, b)
<1>3. PICK first \in NextChunkNo(kept, s, b.bucket) :
          /\ blocks' = kept \cup Pieces(s, b.bucket, row, first)
          /\ RaiseColdMax(RowTimes(row))
  BY <1>2 DEF AppendBlocks
<1>4. /\ head[s] \in Row /\ PointLimit(limit) \in Nat \ {0}
      /\ b.bucket \in Time /\ b.pts \in Row /\ Covers(b, t)
  <2>1. PointLimit(limit) \in Nat \ {0}
    BY TableAssumption DEF PointLimit
  <2>2. head[s] \in Row
    BY DEF TypeOK, Table
  <2>3. b \in blocks /\ Covers(b, t)
    BY DEF Overlapping, InBucket
  <2>4. b \in Block
    BY <2>3 DEF TypeOK
  <2> QED BY <2>1, <2>2, <2>3, <2>4 DEF Block
<1>5. /\ head[s][t] # Absent
      /\ \A u \in Time : head[s][u] # Absent => t < u \/ t = u
  BY <1>2 DEF IsOldestHot
<1>6. hot(s, b) \in SUBSET Time /\ t \in hot(s, b) /\ \A u \in hot(s, b) : t <= u
  BY <1>4, <1>5, TimeFinite
<1>7. t \in taken /\ taken \in SUBSET Time
  <2> HIDE DEF hot
  <2>1. t \in taken
    BY <1>4, <1>6, FirstRowTaken
  <2> QED BY <1>6, <2>1 DEF FirstRows
<1>8. head' = WithoutRange(s, taken)
  BY <1>2
<1>9. row = [u \in Time |-> IF u \in taken THEN head[s][u] ELSE b.pts[u]]
  OBVIOUS
<1> HIDE DEF taken, row
<1>10. row \in Row /\ row[t] # Absent
  BY <1>4, <1>5, <1>7, <1>9 DEF Row
<1>11. Compacts(s, t, b.bucket, row, taken, kept, first)
  BY <1>3, <1>5, <1>7, <1>8, <1>10 DEF Compacts
<1>12. kept \in SUBSET blocks
  OBVIOUS
<1> QED BY <1>4, <1>7, <1>10, <1>11, <1>12

\* The hot rows are finitely many, and a step that takes one of them and adds none
\* leaves fewer.
LEMMA FewerHot ==
    ASSUME NEW h, NEW k, \A s \in Series, t \in Time : k[s][t] # Absent => h[s][t] # Absent
    PROVE  /\ Cardinality(HotKeys(h)) \in Nat /\ Cardinality(HotKeys(k)) \in Nat
           /\ Cardinality(HotKeys(k)) <= Cardinality(HotKeys(h))
           /\ (\E s \in Series, t \in Time : h[s][t] # Absent /\ k[s][t] = Absent) =>
                  Cardinality(HotKeys(k)) < Cardinality(HotKeys(h))
<1>1. IsFiniteSet(Series \X Time)
  BY TimeFinite, TableAssumption, FS_Product
<1>2. HotKeys(k) \in SUBSET HotKeys(h) /\ HotKeys(h) \in SUBSET (Series \X Time)
  BY DEF HotKeys
<1>3. IsFiniteSet(HotKeys(h)) /\ IsFiniteSet(HotKeys(k))
  BY <1>1, <1>2, FS_Subset
<1>4. /\ Cardinality(HotKeys(h)) \in Nat /\ Cardinality(HotKeys(k)) \in Nat
      /\ Cardinality(HotKeys(k)) <= Cardinality(HotKeys(h))
      /\ Cardinality(HotKeys(h)) = Cardinality(HotKeys(k)) => HotKeys(h) = HotKeys(k)
  BY <1>2, <1>3, FS_Subset, FS_CardinalityType
<1>5. ASSUME NEW s \in Series, NEW t \in Time, h[s][t] # Absent, k[s][t] = Absent
      PROVE  <<s, t>> \in HotKeys(h) /\ <<s, t>> \notin HotKeys(k)
  BY <1>5 DEF HotKeys
<1>6. (\E s \in Series, t \in Time : h[s][t] # Absent /\ k[s][t] = Absent) =>
          HotKeys(h) # HotKeys(k)
  BY <1>5
<1>7. HotKeys(h) # HotKeys(k) => Cardinality(HotKeys(k)) < Cardinality(HotKeys(h))
  BY <1>4
<1> QED BY <1>4, <1>6, <1>7, Zenon

\* A good set of blocks that have points is finite: a block is known by its series
\* and any point of it.
LEMMA BlocksFinite ==
    ASSUME NEW bs, GoodBlocks(bs), Sized(bs)
    PROVE  /\ IsFiniteSet(bs)
           /\ \A b \in bs : \E t \in Time : b.pts[t] # Absent
<1> DEFINE one(b) == CHOOSE t \in Points(b) : TRUE
           f == [b \in bs |-> <<b.series, one(b)>>]
<1>1. ASSUME NEW b \in bs PROVE Points(b) # {} /\ Points(b) \in SUBSET Time /\ b.series \in Series
  <2>1. Cardinality(Points(b)) # 0
    BY TableAssumption DEF Sized
  <2> QED BY <2>1, FS_EmptySet DEF Points, GoodBlocks, Block
<1>2. f \in [bs -> Series \X Time]
  BY <1>1
<1>3. ASSUME NEW b \in bs, NEW c \in bs, f[b] = f[c] PROVE b = c
  <2> DEFINE t == one(b)
             v == one(c)
  <2>0. f[b] = <<b.series, t>> /\ f[c] = <<c.series, v>>
    <3> HIDE DEF one
    <3> QED OBVIOUS
  <2> HIDE DEF f
  <2>1. b.series = c.series /\ t = v
    <3> HIDE DEF t, v
    <3>1. f[b] = f[c]
      BY <1>3
    <3>2. <<b.series, t>> = <<c.series, v>>
      BY <2>0, <3>1, Zenon
    <3> QED BY <3>2
  <2>2. t \in Points(b) /\ v \in Points(c)
    BY <1>1
  <2>3. t \in Nat
    BY <1>1, <2>2, TimeFinite
  <2> HIDE DEF t, v
  <2>4. ASSUME b # c PROVE FALSE
    <3>1. Apart(b, c)
      BY <2>1, <2>4 DEF GoodBlocks, PairwiseApart
    <3> QED BY <2>1, <2>2, <2>3, <3>1 DEF Apart
  <2> QED BY <2>4
<1>4. f \in Injection(bs, Series \X Time)
  <2> HIDE DEF f
  <2> QED BY <1>2, <1>3 DEF Injection, IsInjective
<1>5. IsFiniteSet(Series \X Time)
  BY TimeFinite, TableAssumption, FS_Product
<1> HIDE DEF f
<1>6. IsFiniteSet(bs)
  BY <1>4, <1>5, FS_Injection
<1>7. \A b \in bs : \E t \in Time : b.pts[t] # Absent
  BY <1>1 DEF Points
<1> QED BY <1>6, <1>7

\* Fewer blocks store fewer samples.
LEMMA FewerStored ==
    ASSUME NEW bs, GoodBlocks(bs), Sized(bs), NEW some \in SUBSET bs
    PROVE  /\ SampleCount(some) \in Nat /\ SampleCount(bs) \in Nat
           /\ SampleCount(some) <= SampleCount(bs)
           /\ some # bs => SampleCount(some) < SampleCount(bs)
<1> DEFINE C(S) == {x \in S \X Time : x[1].pts[x[2]] # Absent}
<1>1. IsFiniteSet(bs \X Time)
  BY BlocksFinite, TimeFinite, FS_Product
<1>2. C(some) \in SUBSET C(bs) /\ C(bs) \in SUBSET (bs \X Time)
  OBVIOUS
<1>3. some # bs => C(some) # C(bs)
  <2>1. SUFFICES ASSUME some # bs PROVE C(some) # C(bs)
    OBVIOUS
  <2>2. PICK b \in bs : b \notin some
    BY <2>1
  <2>3. PICK t \in Time : b.pts[t] # Absent
    BY BlocksFinite
  <2>4. <<b, t>> \in C(bs) /\ <<b, t>> \notin C(some)
    BY <2>2, <2>3
  <2> HIDE DEF C
  <2> QED BY <2>4
<1>4. SampleCount(some) = Cardinality(C(some)) /\ SampleCount(bs) = Cardinality(C(bs))
  BY DEF SampleCount
<1> HIDE DEF C
<1>5. IsFiniteSet(C(bs)) /\ IsFiniteSet(C(some))
  BY <1>1, <1>2, FS_Subset
<1>6. /\ Cardinality(C(bs)) \in Nat /\ Cardinality(C(some)) \in Nat
      /\ Cardinality(C(some)) <= Cardinality(C(bs))
      /\ Cardinality(C(bs)) = Cardinality(C(some)) => C(bs) = C(some)
  BY <1>2, <1>5, FS_Subset, FS_CardinalityType
<1> QED BY <1>3, <1>4, <1>6

\* The first of the hot rows below a cutoff goes with the first batch.
LEMMA FirstKeyTaken ==
    ASSUME NEW keys \in SUBSET (Series \X Time), keys # {}, NEW n \in Nat \ {0}
    PROVE  \E k \in keys : k \in FirstHeadKeys(keys, n)
<1>1. \A k \in keys : k[1] \in Nat /\ k[2] \in Nat
  BY TimeFinite, TableAssumption
<1>2. PICK m \in {k[2] : k \in keys} : \A x \in {k[2] : k \in keys} : m <= x
  <2>1. {k[2] : k \in keys} # {} /\ {k[2] : k \in keys} \in SUBSET Nat
    BY <1>1
  <2> QED BY <2>1, LeastNatural
<1> DEFINE first == {k \in keys : k[2] = m}
<1>3. first # {} /\ \A k \in first : k[1] \in Nat
  <2>1. PICK k \in keys : k[2] = m
    BY <1>2
  <2>2. k \in first
    BY <2>1
  <2>3. \A j \in first : j \in keys
    OBVIOUS
  <2> HIDE DEF first
  <2> QED BY <1>1, <2>2, <2>3
<1>4. PICK i \in {k[1] : k \in first} : \A x \in {k[1] : k \in first} : i <= x
  <2> HIDE DEF first
  <2>1. {k[1] : k \in first} # {} /\ {k[1] : k \in first} \in SUBSET Nat
    BY <1>3
  <2> QED BY <2>1, LeastNatural
<1>5. PICK k \in first : k[1] = i
  <2> HIDE DEF first
  <2> QED BY <1>4
<1>a. k \in keys /\ k[2] = m
  BY <1>5
<1>b. \A j \in keys : j[2] = m => i <= j[1]
  <2>1. \A j \in keys : j[2] = m => j \in first
    OBVIOUS
  <2> HIDE DEF first
  <2> QED BY <1>4, <2>1
<1> HIDE DEF first
<1>6. ASSUME NEW j \in keys PROVE ~(j[2] < k[2] \/ (j[2] = k[2] /\ j[1] < k[1]))
  <2>1. m <= j[2] /\ m \in Nat /\ i \in Nat /\ j[1] \in Nat /\ j[2] \in Nat
    BY <1>1, <1>2, <1>5, <1>a
  <2>2. j[2] = m => i <= j[1]
    BY <1>b
  <2> QED BY <1>5, <1>a, <2>1, <2>2
<1> DEFINE before == {j \in keys : j[2] < k[2] \/ (j[2] = k[2] /\ j[1] < k[1])}
<1>7. before = {}
  BY <1>6
<1>8. k \in FirstHeadKeys(keys, n) <=> Cardinality(before) < n
  BY <1>a, Zenon DEF FirstHeadKeys
<1> HIDE DEF before
<1>9. Cardinality(before) = 0
  BY <1>7, FS_EmptySet
<1>10. k \in FirstHeadKeys(keys, n)
  BY <1>8, <1>9
<1> QED BY <1>a, <1>10

\* A retention batch takes a block, or a hot row, or both.
LEMMA ExpireTakes ==
    ASSUME TypeOK, GoodBlocks(blocks), Sized(blocks), NEW cutoff, NEW limit \in Nat \ {0},
           ExpireBatch(cutoff, limit)
    PROVE  /\ blocks' \in SUBSET blocks
           /\ Cardinality(HotKeys(head')) + SampleCount(blocks')
                  < Cardinality(HotKeys(head)) + SampleCount(blocks)
<1> DEFINE expired == Expired(Aligned(cutoff))
           old == HeadKeysBefore(Aligned(cutoff))
<1>1. PICK taken \in SUBSET expired :
          /\ IsBlockBatch(taken, expired, limit)
          /\ blocks' = blocks \ taken
          /\ head' = [s \in Series |-> [t \in Time |->
                         IF <<s, t>> \in FirstHeadKeys(old, limit - SampleCount(taken))
                         THEN Absent ELSE head[s][t]]]
  BY DEF ExpireBatch
<1>2. expired # {} \/ old # {}
  BY DEF ExpireBatch
<1>3. taken \in SUBSET blocks /\ (expired # {} => taken # {})
  BY <1>1 DEF Expired, IsBlockBatch
<1>4. \A s \in Series, t \in Time : head'[s][t] # Absent => head[s][t] # Absent
  BY <1>1
<1>5. old \in SUBSET (Series \X Time) /\ \A k \in old : head[k[1]][k[2]] # Absent
  BY DEF HeadKeysBefore
<1> HIDE DEF old, expired
<1>6. /\ Cardinality(HotKeys(head)) \in Nat /\ Cardinality(HotKeys(head')) \in Nat
      /\ Cardinality(HotKeys(head')) <= Cardinality(HotKeys(head))
      /\ (\E s \in Series, t \in Time : head[s][t] # Absent /\ head'[s][t] = Absent) =>
             Cardinality(HotKeys(head')) < Cardinality(HotKeys(head))
  BY <1>4, FewerHot
<1>7. /\ SampleCount(blocks') \in Nat /\ SampleCount(blocks) \in Nat
      /\ SampleCount(blocks') <= SampleCount(blocks)
      /\ blocks' # blocks => SampleCount(blocks') < SampleCount(blocks)
  BY <1>1, FewerStored
<1>8. CASE taken # {}
  <2>1. blocks' # blocks
    BY <1>1, <1>3, <1>8
  <2> QED BY <1>1, <1>6, <1>7, <2>1
<1>9. CASE taken = {}
  <2>1. old # {}
    BY <1>2, <1>3, <1>9
  <2>2. SampleCount(taken) = 0
    <3>1. {x \in {} \X Time : x[1].pts[x[2]] # Absent} = {}
      OBVIOUS
    <3> QED BY <1>9, <3>1, FS_EmptySet DEF SampleCount
  <2>3. PICK k \in old : k \in FirstHeadKeys(old, limit)
    BY <1>5, <2>1, FirstKeyTaken
  <2>4. k \in FirstHeadKeys(old, limit - SampleCount(taken))
    BY <2>2, <2>3
  <2>5. k[1] \in Series /\ k[2] \in Time /\ k = <<k[1], k[2]>>
    BY <1>5
  <2>6. head[k[1]][k[2]] # Absent /\ head'[k[1]][k[2]] = Absent
    BY <1>1, <1>5, <2>4, <2>5
  <2>7. Cardinality(HotKeys(head')) < Cardinality(HotKeys(head))
    BY <1>6, <2>5, <2>6
  <2> QED BY <1>1, <1>6, <1>7, <2>7
<1> QED BY <1>8, <1>9

(***************************************************************************)
(* The second invariant: the blocks are of their size and have keys of     *)
(* their own, and what a maintenance batch did is progress.                *)
(***************************************************************************)
JInv ==
    /\ WellKept(blocks)
    /\ WellKept(saved.blocks)
    /\ MaintenanceMakesProgress

\* A compaction keeps the blocks well kept and takes a row off the head.
LEMMA CompactsWellKept ==
    ASSUME TypeOK, WellKept(blocks), NEW s \in Series, NEW t \in Time, NEW bucket \in Time,
           NEW row \in Row, NEW taken \in SUBSET Time, NEW kept \in SUBSET blocks, NEW first,
           Compacts(s, t, bucket, row, taken, kept, first)
    PROVE  /\ WellKept(blocks')
           /\ Cardinality(HotKeys(head')) < Cardinality(HotKeys(head))
<1>1. /\ head[s][t] # Absent /\ t \in taken /\ head' = WithoutRange(s, taken)
      /\ first \in NextChunkNo(kept, s, bucket)
      /\ blocks' = kept \cup Pieces(s, bucket, row, first)
  BY DEF Compacts
<1>2. kept \in SUBSET Block
  BY DEF TypeOK
<1>3. WellKept(kept)
  BY WellKeptStays
<1>4. WellKept(blocks')
  BY <1>1, <1>2, <1>3, AppendWellKept
<1>5. head \in Table /\ t \in Nat
  BY TimeFinite DEF TypeOK
<1>6. head'[s][t] = Absent
  BY <1>1, <1>5 DEF WithoutRange, Table
<1>7. \A r \in Series, u \in Time : head'[r][u] # Absent => head[r][u] # Absent
  BY <1>1, <1>5 DEF WithoutRange, Table
<1>8. Cardinality(HotKeys(head')) < Cardinality(HotKeys(head))
  BY <1>1, <1>6, <1>7, FewerHot
<1> QED BY <1>4, <1>8

\* The second invariant holds of a new database.
LEMMA JInvInit == Init => JInv
<1> SUFFICES ASSUME Init PROVE JInv
  OBVIOUS
<1>1. stmt.op = "idle" /\ blocks = {} /\ saved.blocks = {}
  BY DEF Init, Idle
<1>2. WellKept({})
  BY DEF WellKept, Sized, Keyed
<1>3. MaintenanceMakesProgress
  BY <1>1 DEF MaintenanceMakesProgress
<1> QED BY <1>1, <1>2, <1>3 DEF JInv

\* Every step keeps the second invariant, given the first.
LEMMA StepJInv == IInv /\ JInv /\ [Next]_vars => JInv'
<1> SUFFICES ASSUME IInv, JInv, [Next]_vars PROVE JInv'
  OBVIOUS
<1>0. /\ TypeOK /\ GoodBlocks(blocks) /\ WellKept(blocks) /\ WellKept(saved.blocks)
      /\ (stmt = Idle => saved.head = head /\ saved.blocks = blocks)
      /\ Idle.op = "idle"
  BY DEF IInv, JInv, Idle
<1>a. \A cutoff \in Cutoffs : cutoff \in Nat
  BY TableAssumption DEF Cutoffs
<1>b. \A limit \in Limits : limit \in Nat \ {0}
  BY TableAssumption
<1>c. ASSUME NEW st, Begin(st) PROVE stmt' = st /\ saved'.head = head /\ saved'.blocks = blocks
  BY <1>c DEF Begin
<1>d. ASSUME stmt'.op \notin {"compact", "expire"} PROVE MaintenanceMakesProgress'
  BY <1>d DEF MaintenanceMakesProgress
<1>1. ASSUME NEW batch \in Batches, NEW overwrite \in BOOLEAN, IngestBatch(batch, overwrite)
      PROVE  JInv'
  <2>1. /\ Begin([op |-> IF overwrite THEN "ingest" ELSE "import", batch |-> batch,
                   cutoff |-> 0])
        /\ blocks' = blocks
    BY <1>1 DEF IngestBatch
  <2>2. stmt'.op \in {"ingest", "import"} /\ saved'.blocks = blocks
    BY <2>1, <1>c
  <2> QED BY <1>0, <1>d, <2>1, <2>2 DEF JInv
<1>2. ASSUME NEW batch \in Batches, RejectBatch(batch) PROVE JInv'
  <2>1. stmt = Idle /\ UNCHANGED <<head, blocks, changes, stmt, saved>>
    BY <1>2 DEF RejectBatch
  <2>2. stmt'.op \notin {"compact", "expire"}
    BY <1>0, <2>1
  <2> QED BY <1>0, <1>d, <2>1, <2>2 DEF JInv
<1>3. ASSUME NEW s \in Series, NEW t \in Time, NEW v \in Values, InsertSample(s, t, v)
      PROVE  JInv'
  <2> DEFINE new == [NoRows EXCEPT ![s] = [NoRow EXCEPT ![t] = v]]
             st == [op |-> "insert", batch |-> new, cutoff |-> 0]
  <2>1. Begin(st) /\ blocks' = blocks
    BY <1>3 DEF InsertSample
  <2>2. stmt'.op = "insert" /\ saved'.blocks = blocks
    BY <2>1, <1>c
  <2> QED BY <1>0, <1>d, <2>1, <2>2 DEF JInv
<1>4. ASSUME NEW cutoff \in Cutoffs, Begin(CompactStatement(cutoff)),
             \E s \in Series, t \in Time, bucket \in Time, row \in Row, taken \in SUBSET Time,
                kept \in SUBSET blocks : \E first : Compacts(s, t, bucket, row, taken, kept, first)
      PROVE  JInv'
  <2>1. stmt'.op = "compact" /\ saved'.head = head /\ saved'.blocks = blocks
    BY <1>4, <1>c DEF CompactStatement
  <2>2. WellKept(blocks') /\ Cardinality(HotKeys(head')) < Cardinality(HotKeys(head))
    BY <1>0, <1>4, CompactsWellKept
  <2>3. MaintenanceMakesProgress'
    BY <2>1, <2>2 DEF MaintenanceMakesProgress
  <2> QED BY <1>0, <2>1, <2>2, <2>3 DEF JInv
<1>5. ASSUME NEW cutoff \in Cutoffs, NEW limit \in Limits, CompactHotSlice(cutoff, limit)
      PROVE  JInv'
  <2>1. Begin(CompactStatement(cutoff))
    BY <1>5 DEF CompactHotSlice
  <2> QED BY <1>0, <1>b, <1>4, <1>5, <2>1, CompactHotSliceShape
<1>6. ASSUME NEW cutoff \in Cutoffs, NEW limit \in Limits,
             CompactOverlappingBlock(cutoff, limit)
      PROVE  JInv'
  <2>1. Begin(CompactStatement(cutoff))
    BY <1>6 DEF CompactOverlappingBlock
  <2> QED BY <1>0, <1>b, <1>4, <1>6, <2>1, CompactOverlappingBlockShape
<1>7. ASSUME NEW cutoff \in Cutoffs, DeleteBefore(cutoff) PROVE JInv'
  <2>1. Begin([op |-> "delete", batch |-> NoRows, cutoff |-> cutoff])
    BY <1>7 DEF DeleteBefore
  <2>2. stmt'.op = "delete" /\ saved'.blocks = blocks
    BY <2>1, <1>c
  <2>3. WellKept(blocks')
    BY <1>0, <1>7, DeleteWellKept
  <2> QED BY <1>0, <1>d, <2>2, <2>3 DEF JInv
<1>8. ASSUME NEW cutoff \in Cutoffs, NEW limit \in Limits, ExpireBatch(cutoff, limit)
      PROVE  JInv'
  <2>1. Begin([op |-> "expire", batch |-> NoRows, cutoff |-> Aligned(cutoff)])
    BY <1>8 DEF ExpireBatch
  <2>2. stmt'.op = "expire" /\ saved'.head = head /\ saved'.blocks = blocks
    BY <2>1, <1>c
  <2>3. Sized(blocks)
    BY <1>0 DEF WellKept
  <2>4. /\ blocks' \in SUBSET blocks
        /\ Cardinality(HotKeys(head')) + SampleCount(blocks')
               < Cardinality(HotKeys(head)) + SampleCount(blocks)
    BY <1>0, <1>b, <1>8, <2>3, ExpireTakes
  <2>5. WellKept(blocks')
    BY <1>0, <2>4, WellKeptStays
  <2>6. MaintenanceMakesProgress'
    BY <2>2, <2>4 DEF MaintenanceMakesProgress
  <2> QED BY <1>0, <2>2, <2>5, <2>6 DEF JInv
<1>9. CASE Commit
  <2>1. stmt' = Idle /\ saved'.blocks = blocks /\ blocks' = blocks
    BY <1>9 DEF Commit
  <2> QED BY <1>0, <1>d, <2>1 DEF JInv
<1>10. CASE Rollback
  <2>1. stmt' = Idle /\ saved' = saved /\ blocks' = saved.blocks
    BY <1>10 DEF Rollback
  <2> QED BY <1>0, <1>d, <2>1 DEF JInv
<1>11. CASE Reopen
  <2>1. stmt' = Idle /\ saved' = saved /\ blocks' = saved.blocks
    BY <1>11 DEF Reopen
  <2> QED BY <1>0, <1>d, <2>1 DEF JInv
<1>12. CASE DamageBlock
  <2>1. PICK b \in blocks :
            /\ blocks' = (blocks \ {b}) \cup {[b EXCEPT !.ok = FALSE]}
            /\ saved' = [saved EXCEPT !.blocks = blocks'] /\ stmt' = stmt /\ stmt = Idle
    BY <1>12 DEF DamageBlock
  <2>2. b \in Block /\ saved'.blocks = blocks'
    BY <1>0, <2>1 DEF TypeOK
  <2>3. WellKept(blocks')
    BY <1>0, <2>1, <2>2, WellKeptStays
  <2> QED BY <1>0, <1>d, <2>1, <2>2, <2>3 DEF JInv
<1>13. CASE UNCHANGED vars
  <2>1. UNCHANGED <<head, blocks, stmt, saved>>
    BY <1>13 DEF vars
  <2> QED BY <2>1 DEF JInv, MaintenanceMakesProgress
<1> QED
  BY <1>1, <1>2, <1>3, <1>5, <1>6, <1>7, <1>8, <1>9, <1>10, <1>11, <1>12, <1>13 DEF Next

\* The second invariant holds in every state.
THEOREM SecondInvariance == Spec => [](IInv /\ JInv)
<1>1. Init => IInv /\ JInv
  BY InitIInv, JInvInit
<1>2. (IInv /\ JInv) /\ [Next]_vars => (IInv /\ JInv)'
  BY StepIInv, StepJInv
<1> QED BY <1>1, <1>2, PTL DEF Spec

\* Well kept, good blocks are well formed.
LEMMA KeptIsWellFormed == IInv /\ JInv => BlocksWellFormed
<1> SUFFICES ASSUME GoodBlocks(blocks), WellKept(blocks) PROVE BlocksWellFormed
  BY DEF IInv, JInv
<1> QED BY DEF BlocksWellFormed, GoodBlocks, PointsInBucket, WellKept, Sized, Keyed, InBucket

\* Every block is one piece of one bucket, of at most max_block_points points, under
\* a chunk number of its own, after any sequence of appends, merges and rewrites.
THEOREM BlocksStayWellFormed == Spec => []BlocksWellFormed
  BY KeptIsWellFormed, SecondInvariance, PTL

\* A compaction batch leaves fewer hot rows and a retention batch fewer samples, so
\* the sweeps that repeat them end.
THEOREM MaintenanceProgresses == Spec => []MaintenanceMakesProgress
<1>1. JInv => MaintenanceMakesProgress
  BY DEF JInv
<1> QED BY <1>1, SecondInvariance, PTL

(***************************************************************************)
(* The third invariant: while the connection is exact, the cached bound is *)
(* a bound of the blocks there are and of those a rollback brings back, so *)
(* the cold check misses no sample.  A connection to a table with blocks   *)
(* becomes exact with its first batch, if that comes before its first      *)
(* compaction; until then an import may overwrite a cold sample, and       *)
(* nothing is said of its counts.                                          *)
(***************************************************************************)
BoundBy(bs, known, max) == \A b \in bs : \A t \in Points(b) : known /\ t <= max

\* What the statement of the open transaction did to the samples.
StatementDone ==
    /\ stmt.op \in {"ingest", "insert"} =>
           View(head, blocks) = Promise!Overwritten(stmt.batch)
    /\ stmt.op = "import" /\ exact => View(head, blocks) = Promise!FilledIn(stmt.batch)
    /\ stmt.op = "import" =>
           \A s \in Series, t \in Time :
               View(head, blocks)[s][t] \in {Promise!FilledIn(stmt.batch)[s][t],
                                            Promise!Overwritten(stmt.batch)[s][t]}
    /\ stmt.op = "expire" =>
           \A s \in Series, t \in Time :
               View(head, blocks)[s][t] # View(saved.head, saved.blocks)[s][t] =>
                   /\ t < stmt.cutoff
                   /\ View(saved.head, saved.blocks)[s][t] # Absent
                   /\ View(head, blocks)[s][t] # Corrupt

KInv ==
    /\ exact => BoundBy(blocks, coldKnown, coldMax)
    /\ exact => BoundBy(saved.blocks, coldKnown, coldMax)
    /\ ChangesAreNew
    /\ StatementDone

\* The bound after blocks were written is one of the blocks that were there and of
\* those written.
LEMMA RaiseBound ==
    ASSUME coldKnown \in BOOLEAN, coldMax \in Time \cup {-1}, NEW written \in SUBSET Time,
           RaiseColdMax(written), NEW bs, BoundBy(bs, coldKnown, coldMax),
           NEW more, \A b \in more : Points(b) \subseteq written
    PROVE  BoundBy(bs \cup more, coldKnown', coldMax')
<1>1. CASE written = {}
  <2>1. coldKnown' = coldKnown /\ coldMax' = coldMax
    BY <1>1 DEF RaiseColdMax
  <2> QED BY <1>1, <2>1 DEF BoundBy
<1>2. CASE written # {}
  <2> DEFINE seen == written \cup (IF coldKnown THEN {coldMax} ELSE {})
  <2>1. coldKnown' = TRUE /\ coldMax' \in seen /\ \A x \in seen : x <= coldMax'
    BY <1>2 DEF RaiseColdMax
  <2>2. \A t \in written : t \in seen
    OBVIOUS
  <2>3. coldKnown => coldMax \in seen
    OBVIOUS
  <2>4. \A x \in seen : x \in Int
    BY TimeFinite
  <2> HIDE DEF seen
  <2>5. ASSUME NEW b \in bs \cup more, NEW t \in Points(b) PROVE t <= coldMax'
    <3>1. CASE b \in more
      BY <2>1, <2>2, <2>5, <3>1
    <3>2. CASE b \in bs
      <4>1. coldKnown /\ t <= coldMax
        BY <2>5, <3>2 DEF BoundBy
      <4>2. coldMax <= coldMax' /\ coldMax \in Int /\ coldMax' \in Int /\ t \in Int
        BY <2>1, <2>3, <2>4, <4>1, TimeFinite DEF Points
      <4> QED BY <4>1, <4>2
    <3> QED BY <2>5, <3>1, <3>2
  <2> QED BY <2>1, <2>5 DEF BoundBy
<1> QED BY <1>1, <1>2

\* The bound an exact connection works with is one of the blocks, and so is every
\* bound that is looked up.
LEMMA LookedUpBound ==
    ASSUME exact => BoundBy(blocks, coldKnown, coldMax), NEW bound \in ColdBound,
           exact \/ ~coldKnown
    PROVE  BoundBy(blocks, TRUE, bound)
<1>1. CASE coldKnown
  BY <1>1 DEF ColdBound, BoundBy
<1>2. CASE ~coldKnown
  <2> DEFINE seen == {-1} \cup UNION {Points(b) : b \in blocks}
  <2>1. bound \in seen /\ \A x \in seen : x <= bound
    BY <1>2 DEF ColdBound
  <2>2. \A b \in blocks : \A t \in Points(b) : t \in seen
    OBVIOUS
  <2> HIDE DEF seen
  <2> QED BY <2>1, <2>2 DEF BoundBy
<1> QED BY <1>1, <1>2

\* Of a record that meets no damage, the cold check finds only samples there are.
LEMMA ColdCheckSound ==
    ASSUME TypeOK, GoodBlocks(blocks), NEW bound,
           NEW batch, ~MeetsDamage(batch, bound), NEW s \in Series, NEW t \in Time,
           batch[s][t] # Absent, ExistsCold(s, t, bound)
    PROVE  ColdValue(blocks, s, t) # Absent
<1>1. PICK b \in blocks : b.series = s /\ b.pts[t] # Absent /\ t <= bound
  BY DEF ExistsCold
<1>2. t \in Points(b) /\ t <= t
  <2>1. t \in Points(b)
    BY <1>1 DEF Points
  <2>2. t \in Int
    BY TimeFinite
  <2>3. t <= t
    BY <2>2
  <2> QED BY <2>1, <2>3
<1>3. Covers(b, t)
  BY <1>2 DEF Covers
<1>4. <<s, t>> \in BatchKeys(batch) /\ <<s, t>>[1] = s /\ <<s, t>>[2] = t
  BY DEF BatchKeys
<1>5. b.ok
  BY <1>1, <1>3, <1>4 DEF MeetsDamage, Undecodable
<1>6. b \in ColdIn(blocks, s, t)
  BY <1>1, <1>5 DEF ColdIn
<1> QED BY <1>1, <1>6, ColdUnique

\* A bound of the blocks skips no block that has a sample, and no damaged one.
LEMMA ColdCheckExact ==
    ASSUME TypeOK, GoodBlocks(blocks), NEW bound, BoundBy(blocks, TRUE, bound),
           NEW batch, ~MeetsDamage(batch, bound), NEW s \in Series, NEW t \in Time,
           batch[s][t] # Absent
    PROVE  /\ ExistsCold(s, t, bound) <=> ColdValue(blocks, s, t) # Absent
           /\ bound \in Int => ~Undecodable(blocks, s, t)
<1>1. ASSUME ColdValue(blocks, s, t) # Absent PROVE ExistsCold(s, t, bound)
  <2>1. PICK b \in ColdIn(blocks, s, t) : TRUE
    BY <1>1 DEF ColdValue, PointAt
  <2>2. b \in blocks /\ b.series = s /\ b.pts[t] # Absent
    BY DEF ColdIn
  <2>3. t <= bound
    BY <2>2 DEF BoundBy, Points
  <2> QED BY <2>2, <2>3 DEF ExistsCold
<1>2. ASSUME bound \in Int, Undecodable(blocks, s, t) PROVE FALSE
  <2>1. PICK b \in blocks : b.series = s /\ Covers(b, t) /\ ~b.ok
    BY <1>2 DEF Undecodable
  <2>2. PICK j \in Points(b) : t <= j
    BY <2>1 DEF Covers
  <2>3. j <= bound
    BY <2>2 DEF BoundBy
  <2>4. t \in Int /\ j \in Int
    BY <2>2, TimeFinite DEF Points
  <2>5. t <= bound
    BY <1>2, <2>2, <2>3, <2>4
  <2>6. <<s, t>> \in BatchKeys(batch) /\ <<s, t>>[1] = s /\ <<s, t>>[2] = t
    BY DEF BatchKeys
  <2> QED BY <1>2, <2>5, <2>6 DEF MeetsDamage
<1> QED BY <1>1, <1>2, ColdCheckSound

\* What a query finds where it found a, if v or nothing is written over it, and if v
\* or nothing is filled in.
OverAt(a, v) == IF v = Absent \/ a = Corrupt THEN a ELSE v
FillAt(a, v) == IF a = Absent THEN v ELSE a

\* An ingest batch does to the samples what its statement says, and counts what it
\* added, if the connection is exact.
LEMMA IngestDone ==
    ASSUME TypeOK, GoodBlocks(blocks), exact => BoundBy(blocks, coldKnown, coldMax),
           NEW batch \in Batches, NEW overwrite \in BOOLEAN, IngestBatch(batch, overwrite)
    PROVE  /\ exact' => BoundBy(blocks, coldKnown', coldMax')
           /\ \A s \in Series, t \in Time :
                  LET before == View(head, blocks)[s][t]
                      after == View(head', blocks')[s][t]
                  IN  /\ overwrite => after = OverAt(before, batch[s][t])
                      /\ ~overwrite => after \in {FillAt(before, batch[s][t]),
                                                 OverAt(before, batch[s][t])}
                      /\ ~overwrite /\ exact' => after = FillAt(before, batch[s][t])
           /\ exact' =>
                  \A t \in Time :
                      changes'[t] = Cardinality({s \in Series :
                                        /\ View(head, blocks)[s][t] = Absent
                                        /\ View(head', blocks')[s][t] # Absent})
<1>1. PICK bound \in ColdBound :
          /\ ~MeetsDamage(batch, bound)
          /\ head' = HeadAfter(batch, bound, overwrite)
          /\ changes' = [t \in Time |-> Cardinality(NewAt(batch, bound, t))]
          /\ coldKnown' = TRUE /\ coldMax' = bound /\ blocks' = blocks
          /\ exact' = (exact \/ ~coldKnown)
  BY DEF IngestBatch, KeepsBound
<1>2. exact' => BoundBy(blocks, TRUE, bound)
  BY <1>1, LookedUpBound
<1>3. head \in Table /\ batch \in Table /\ bound \in Int
  BY TimeFinite DEF TypeOK, Batches, ColdBound, Points
<1>4. ASSUME NEW s \in Series, NEW t \in Time
      PROVE  /\ head'[s][t] =
                    IF batch[s][t] = Absent
                       \/ (~overwrite /\ (ExistsCold(s, t, bound) \/ head[s][t] # Absent))
                    THEN head[s][t] ELSE batch[s][t]
             /\ batch[s][t] # Absent /\ ExistsCold(s, t, bound) =>
                    ColdValue(blocks, s, t) # Absent
             /\ exact' /\ batch[s][t] # Absent =>
                    /\ ExistsCold(s, t, bound) <=> ColdValue(blocks, s, t) # Absent
                    /\ ~Undecodable(blocks, s, t)
  <2>1. head'[s][t] =
            IF batch[s][t] = Absent
               \/ (~overwrite /\ (ExistsCold(s, t, bound) \/ head[s][t] # Absent))
            THEN head[s][t] ELSE batch[s][t]
    BY <1>1 DEF HeadAfter
  <2>2. ASSUME batch[s][t] # Absent, ExistsCold(s, t, bound)
        PROVE  ColdValue(blocks, s, t) # Absent
    BY <1>1, <2>2, ColdCheckSound
  <2>3. ASSUME exact', batch[s][t] # Absent
        PROVE  /\ ExistsCold(s, t, bound) <=> ColdValue(blocks, s, t) # Absent
               /\ ~Undecodable(blocks, s, t)
    BY <1>1, <1>2, <1>3, <2>3, ColdCheckExact
  <2> QED BY <2>1, <2>2, <2>3
<1>5. ASSUME NEW s \in Series, NEW t \in Time
      PROVE  /\ View(head, blocks)[s][t] = IF Undecodable(blocks, s, t) THEN Corrupt
                   ELSE IF head[s][t] # Absent THEN head[s][t] ELSE ColdValue(blocks, s, t)
             /\ View(head', blocks')[s][t] = IF Undecodable(blocks, s, t) THEN Corrupt
                   ELSE IF head'[s][t] # Absent THEN head'[s][t] ELSE ColdValue(blocks, s, t)
             /\ ~Undecodable(blocks, s, t) => View(head, blocks)[s][t] # Corrupt
  <2>1. Salvaged(head, blocks, s, t) # Corrupt
    BY <1>3, ViewAt
  <2> QED BY <1>1, <2>1 DEF View, Salvaged
<1>6. Corrupt # Absent
  BY TableAssumption
<1>7. ASSUME NEW s \in Series, NEW t \in Time
      PROVE  LET before == View(head, blocks)[s][t]
                 after == View(head', blocks')[s][t]
             IN  /\ overwrite => after = OverAt(before, batch[s][t])
                 /\ ~overwrite => after \in {FillAt(before, batch[s][t]),
                                            OverAt(before, batch[s][t])}
                 /\ ~overwrite /\ exact' => after = FillAt(before, batch[s][t])
  <2>1. CASE Undecodable(blocks, s, t)
    BY <1>5, <1>6, <2>1 DEF OverAt, FillAt
  <2>2. CASE ~Undecodable(blocks, s, t)
    BY <1>4, <1>5, <1>6, <2>2 DEF OverAt, FillAt
  <2> QED BY <2>1, <2>2
<1>8. ASSUME exact', NEW t \in Time
      PROVE  NewAt(batch, bound, t) = {s \in Series : /\ View(head, blocks)[s][t] = Absent
                                                      /\ View(head', blocks')[s][t] # Absent}
  <2>1. ASSUME NEW s \in Series
        PROVE  (batch[s][t] # Absent /\ head[s][t] = Absent /\ ~ExistsCold(s, t, bound))
                   <=> (View(head, blocks)[s][t] = Absent
                        /\ View(head', blocks')[s][t] # Absent)
    <3>1. CASE Undecodable(blocks, s, t)
      BY <1>4, <1>5, <1>6, <1>8, <3>1
    <3>2. CASE ~Undecodable(blocks, s, t)
      BY <1>4, <1>5, <1>8, <3>2
    <3> QED BY <3>1, <3>2
  <2> QED BY <2>1 DEF NewAt
<1>9. exact' => BoundBy(blocks, coldKnown', coldMax')
  BY <1>1, <1>2
<1>10. exact' =>
           \A t \in Time :
               changes'[t] = Cardinality({s \in Series :
                                 /\ View(head, blocks)[s][t] = Absent
                                 /\ View(head', blocks')[s][t] # Absent})
  BY <1>1, <1>8
<1> QED BY <1>7, <1>9, <1>10

OneSample(s, t, v) == [NoRows EXCEPT ![s] = [NoRow EXCEPT ![t] = v]]

\* A single-row INSERT writes its sample and no other.
LEMMA InsertDone ==
    ASSUME TypeOK, GoodBlocks(blocks), NEW s \in Series, NEW t \in Time, NEW v \in Values,
           InsertSample(s, t, v)
    PROVE  \A r \in Series, u \in Time :
               View(head', blocks')[r][u] =
                   OverAt(View(head, blocks)[r][u], OneSample(s, t, v)[r][u])
<1> DEFINE new == OneSample(s, t, v)
<1>1. head' = [head EXCEPT ![s] = [head[s] EXCEPT ![t] = v]] /\ blocks' = blocks
  BY DEF InsertSample
<1>2. head \in Table /\ head[s] \in Row /\ v # Absent
  BY TableAssumption DEF TypeOK, Table
<1>3. ASSUME NEW r \in Series, NEW u \in Time
      PROVE  /\ head'[r][u] = IF r = s /\ u = t THEN v ELSE head[r][u]
             /\ new[r][u] = IF r = s /\ u = t THEN v ELSE Absent
  BY <1>1, <1>2 DEF Table, Row, NoRows, NoRow, OneSample
<1>4. ASSUME NEW r \in Series, NEW u \in Time
      PROVE  View(head', blocks')[r][u] = OverAt(View(head, blocks)[r][u], new[r][u])
  <2>1. /\ View(head, blocks)[r][u] = IF Undecodable(blocks, r, u) THEN Corrupt
              ELSE IF head[r][u] # Absent THEN head[r][u] ELSE ColdValue(blocks, r, u)
        /\ View(head', blocks')[r][u] = IF Undecodable(blocks, r, u) THEN Corrupt
              ELSE IF head'[r][u] # Absent THEN head'[r][u] ELSE ColdValue(blocks, r, u)
    BY <1>1 DEF View, Salvaged
  <2>2. ~Undecodable(blocks, r, u) => View(head, blocks)[r][u] # Corrupt
    BY <1>2, ViewAt
  <2> HIDE DEF new
  <2> QED BY <1>2, <1>3, <2>1, <2>2 DEF OverAt
<1> QED BY <1>4

\* The aligned cutoff of a retention batch is a timestamp.
LEMMA AlignedType ==
    ASSUME NEW cutoff \in Nat
    PROVE  Aligned(cutoff) \in Nat
<1> DEFINE r == cutoff % BlockSpan
           m == BlockSpan * (cutoff \div BlockSpan)
<1>1. BlockSpan \in Nat \ {0}
  BY TableAssumption
<1>2. r \in Nat /\ cutoff \div BlockSpan \in Nat /\ cutoff = m + r
  BY <1>1, DivMod
<1>3. m \in Nat
  BY <1>1, <1>2
<1>4. Aligned(cutoff) = cutoff - r
  BY DEF Aligned
<1> HIDE DEF r, m
<1> QED BY <1>2, <1>3, <1>4

\* A retention batch changes only decodable samples there are, below its cutoff.
LEMMA ExpireSalvage ==
    ASSUME TypeOK, GoodBlocks(blocks), NEW cutoff, NEW limit, ExpireBatch(cutoff, limit),
           NEW s \in Series, NEW t \in Time,
           Salvaged(head', blocks', s, t) # Salvaged(head, blocks, s, t)
    PROVE  t < Aligned(cutoff) /\ Salvaged(head, blocks, s, t) # Absent
<1> DEFINE target == Aligned(cutoff)
           old == HeadKeysBefore(target)
<1>1. PICK taken \in SUBSET Expired(target) :
          /\ blocks' = blocks \ taken
          /\ head' = [r \in Series |-> [u \in Time |->
                         IF <<r, u>> \in FirstHeadKeys(old, limit - SampleCount(taken))
                         THEN Absent ELSE head[r][u]]]
  BY DEF ExpireBatch
<1>2. CASE head'[s][t] # head[s][t]
  <2>1. <<s, t>> \in FirstHeadKeys(old, limit - SampleCount(taken))
    BY <1>1, <1>2
  <2>2. <<s, t>> \in old
    <3> HIDE DEF old
    <3> QED BY <2>1 DEF FirstHeadKeys
  <2>3. <<s, t>>[2] < target /\ head[<<s, t>>[1]][<<s, t>>[2]] # Absent
    BY <2>2 DEF HeadKeysBefore
  <2>4. t < target /\ head[s][t] # Absent
    BY <2>3
  <2> QED BY <2>4 DEF Salvaged
<1>3. CASE head'[s][t] = head[s][t]
  <2>1. head[s][t] = Absent /\ ColdValue(blocks', s, t) # ColdValue(blocks, s, t)
    BY <1>3 DEF Salvaged
  <2>2. ColdIn(blocks', s, t) # ColdIn(blocks, s, t)
    BY <2>1 DEF ColdValue
  <2>3. PICK b \in ColdIn(blocks, s, t) : b \in taken
    BY <1>1, <2>2 DEF ColdIn
  <2>4. b.pts[t] # Absent /\ t \in Points(b) /\ EndsBefore(b, target)
    BY <2>3 DEF ColdIn, Points, Expired
  <2>5. t < target /\ ColdValue(blocks, s, t) # Absent
    BY <2>4, ColdUnique DEF EndsBefore
  <2> QED BY <2>1, <2>5 DEF Salvaged
<1> QED BY <1>2, <1>3

\* So a query that changes its answer was for an expired sample, and it does not
\* begin to fail.
LEMMA ExpireDone ==
    ASSUME TypeOK, GoodBlocks(blocks), head' \in Table, GoodBlocks(blocks'),
           NEW cutoff, Aligned(cutoff) \in Nat, NEW limit, ExpireBatch(cutoff, limit),
           NEW s \in Series, NEW t \in Time,
           View(head', blocks')[s][t] # View(head, blocks)[s][t]
    PROVE  /\ t < Aligned(cutoff)
           /\ View(head, blocks)[s][t] # Absent
           /\ View(head', blocks')[s][t] # Corrupt
<1> DEFINE target == Aligned(cutoff)
<1>1. PICK taken \in SUBSET Expired(target) : blocks' = blocks \ taken
  BY DEF ExpireBatch
<1>2. Undecodable(blocks', s, t) => Undecodable(blocks, s, t)
  BY <1>1 DEF Undecodable
<1>3. View(head, blocks)[s][t] = IF Undecodable(blocks, s, t) THEN Corrupt
                                 ELSE Salvaged(head, blocks, s, t)
  BY DEF View
<1>4. /\ View(head', blocks')[s][t] = IF Undecodable(blocks', s, t) THEN Corrupt
                                      ELSE Salvaged(head', blocks', s, t)
      /\ View(head', blocks')[s][t] = Corrupt <=> Undecodable(blocks', s, t)
  BY ViewAt
<1>5. ~Undecodable(blocks', s, t)
  BY <1>2, <1>3, <1>4
<1>6. CASE Undecodable(blocks, s, t)
  <2>1. PICK b \in blocks : b.series = s /\ Covers(b, t) /\ ~b.ok
    BY <1>6 DEF Undecodable
  <2>2. b \in taken
    BY <1>1, <1>5, <2>1 DEF Undecodable
  <2>3. PICK j \in Points(b) : t <= j
    BY <2>1 DEF Covers
  <2>4. j < target
    BY <2>2, <2>3 DEF Expired, EndsBefore
  <2>5. t \in Int /\ j \in Int /\ target \in Int
    BY TimeFinite DEF Points
  <2>6. t < target
    BY <2>3, <2>4, <2>5
  <2> QED BY <1>3, <1>4, <1>5, <1>6, <2>6, TableAssumption
<1>7. CASE ~Undecodable(blocks, s, t)
  <2>1. Salvaged(head', blocks', s, t) # Salvaged(head, blocks, s, t)
    BY <1>3, <1>4, <1>5, <1>7
  <2>2. t < target /\ Salvaged(head, blocks, s, t) # Absent
    BY <2>1, ExpireSalvage
  <2> QED BY <1>3, <1>4, <1>5, <1>7, <2>2
<1> QED BY <1>6, <1>7

\* Compaction raises the bound with the rows it writes.
LEMMA CompactBound ==
    ASSUME TypeOK, BoundBy(blocks, coldKnown, coldMax), BoundBy(saved.blocks, coldKnown, coldMax),
           \E s \in Series, t \in Time, bucket \in Time, row \in Row, taken \in SUBSET Time,
              kept \in SUBSET blocks : \E first : Compacts(s, t, bucket, row, taken, kept, first)
    PROVE  BoundBy(blocks \cup blocks', coldKnown', coldMax')
<1>0. PICK s \in Series, t \in Time, bucket \in Time, row \in Row, taken \in SUBSET Time,
           kept \in SUBSET blocks : \E first : Compacts(s, t, bucket, row, taken, kept, first)
  OBVIOUS
<1>1. PICK first : Compacts(s, t, bucket, row, taken, kept, first)
  BY <1>0
<1> DEFINE P == Pieces(s, bucket, row, first)
           written == RowTimes(row)
<1>2. /\ first \in NextChunkNo(kept, s, bucket)
      /\ blocks' = kept \cup P /\ RaiseColdMax(written)
  BY <1>1 DEF Compacts
<1>3. kept \in SUBSET Block
  BY DEF TypeOK
<1>4. first \in Nat
  BY <1>2, <1>3, NextChunkNoType
<1>5. \A b \in P : Points(b) \subseteq written
  BY <1>4, PiecesAreBlocks DEF Points, RowTimes
<1>6. written \in SUBSET Time
  BY DEF RowTimes
<1> HIDE DEF P, written
<1>7. BoundBy(blocks \cup P, coldKnown', coldMax')
  BY <1>2, <1>5, <1>6, RaiseBound DEF TypeOK
<1> QED BY <1>2, <1>7 DEF BoundBy

\* So does delete-before with the buckets it rewrites.
LEMMA DeleteBound ==
    ASSUME TypeOK, BoundBy(blocks, coldKnown, coldMax), NEW cutoff, DeleteBefore(cutoff)
    PROVE  BoundBy(blocks \cup blocks', coldKnown', coldMax')
<1> DEFINE new == RewrittenBlocks(cutoff)
           written == UNION {Points(b) : b \in new}
<1>1. RaiseColdMax(written) /\ blocks' \subseteq blocks \cup new
  BY DEF DeleteBefore
<1>2. written \in SUBSET Time /\ \A b \in new : Points(b) \subseteq written
  BY DEF Points
<1> HIDE DEF new, written
<1>3. BoundBy(blocks \cup new, coldKnown', coldMax')
  BY <1>1, <1>2, RaiseBound DEF TypeOK
<1> QED BY <1>1, <1>3 DEF BoundBy

\* A new database satisfies the third invariant.
LEMMA KInvInit == Init => KInv
<1> SUFFICES ASSUME Init PROVE KInv
  OBVIOUS
<1>1. stmt.op = "idle" /\ blocks = {} /\ saved.blocks = {}
  BY DEF Init, Idle
<1> QED BY <1>1 DEF KInv, BoundBy, ChangesAreNew, StatementDone

\* Every step keeps the third invariant, given the first.
LEMMA StepKInv ==
    ASSUME IInv, IInv', KInv, [Next]_vars
    PROVE  KInv'
<1>0. /\ TypeOK /\ GoodBlocks(blocks)
      /\ exact => BoundBy(blocks, coldKnown, coldMax)
      /\ exact => BoundBy(saved.blocks, coldKnown, coldMax)
      /\ (stmt = Idle => saved.head = head /\ saved.blocks = blocks)
      /\ Idle.op = "idle" /\ exact \in BOOLEAN
      /\ head' \in Table /\ GoodBlocks(blocks')
  BY DEF IInv, KInv, Idle, TypeOK
<1>a. ASSUME NEW st, Begin(st)
      PROVE  stmt' = st /\ saved'.head = head /\ saved'.blocks = blocks
  BY <1>a DEF Begin
<1>b. ASSUME stmt'.op \in {"idle", "compact", "delete"}
      PROVE  ChangesAreNew' /\ StatementDone'
  BY <1>b DEF ChangesAreNew, StatementDone
<1>c. ASSUME NEW some, some \subseteq blocks \cup blocks',
             BoundBy(blocks \cup blocks', coldKnown', coldMax')
      PROVE  BoundBy(some, coldKnown', coldMax')
  BY <1>c DEF BoundBy
<1>1. ASSUME NEW batch \in Batches, NEW overwrite \in BOOLEAN, IngestBatch(batch, overwrite)
      PROVE  KInv'
  <2> DEFINE st == [op |-> IF overwrite THEN "ingest" ELSE "import", batch |-> batch,
                    cutoff |-> 0]
  <2>1. Begin(st) /\ blocks' = blocks
    BY <1>1 DEF IngestBatch
  <2>2. /\ stmt' = st /\ saved'.head = head /\ saved'.blocks = blocks
        /\ View(saved'.head, saved'.blocks) = View(head, blocks)
    BY <2>1, <1>a
  <2>3. /\ exact' => BoundBy(blocks, coldKnown', coldMax')
        /\ \A s \in Series, t \in Time :
               LET before == View(head, blocks)[s][t]
                   after == View(head', blocks')[s][t]
               IN  /\ overwrite => after = OverAt(before, batch[s][t])
                   /\ ~overwrite => after \in {FillAt(before, batch[s][t]),
                                              OverAt(before, batch[s][t])}
                   /\ ~overwrite /\ exact' => after = FillAt(before, batch[s][t])
        /\ exact' =>
               \A t \in Time :
                   changes'[t] = Cardinality({s \in Series :
                                     /\ View(head, blocks)[s][t] = Absent
                                     /\ View(head', blocks')[s][t] # Absent})
    BY <1>0, <1>1, IngestDone
  <2>4. /\ exact' => BoundBy(blocks', coldKnown', coldMax')
        /\ exact' => BoundBy(saved'.blocks, coldKnown', coldMax')
    BY <2>1, <2>2, <2>3
  <2>5. /\ stmt'.op = IF overwrite THEN "ingest" ELSE "import"
        /\ stmt'.batch = batch
    BY <2>2
  <2>6. \A s \in Series, t \in Time :
            /\ Promise!Overwritten(stmt.batch)'[s][t]
                   = OverAt(View(head, blocks)[s][t], batch[s][t])
            /\ Promise!FilledIn(stmt.batch)'[s][t]
                   = FillAt(View(head, blocks)[s][t], batch[s][t])
    BY <2>2, <2>5 DEF Promise!Overwritten, Promise!FilledIn, OverAt, FillAt
  <2>7. StatementDone'
    <3>1. ASSUME overwrite PROVE View(head', blocks') = Promise!Overwritten(stmt.batch)'
      <4>1. \A s \in Series, t \in Time : View(head', blocks')[s][t]
                                            = Promise!Overwritten(stmt.batch)'[s][t]
        BY <2>3, <2>6, <3>1
      <4> QED BY <4>1 DEF View, Promise!Overwritten
    <3>2. ASSUME ~overwrite, exact' PROVE View(head', blocks') = Promise!FilledIn(stmt.batch)'
      <4>1. \A s \in Series, t \in Time : View(head', blocks')[s][t]
                                            = Promise!FilledIn(stmt.batch)'[s][t]
        BY <2>3, <2>6, <3>2
      <4> QED BY <4>1 DEF View, Promise!FilledIn
    <3>3. ASSUME ~overwrite, NEW s \in Series, NEW t \in Time
          PROVE  View(head', blocks')[s][t] \in {Promise!FilledIn(stmt.batch)'[s][t],
                                                Promise!Overwritten(stmt.batch)'[s][t]}
      BY <2>3, <2>6, <3>3
    <3> QED BY <2>5, <3>1, <3>2, <3>3 DEF StatementDone
  <2>8. ChangesAreNew'
    <3>1. ASSUME exact', NEW t \in Time
          PROVE  changes'[t] = Cardinality({s \in Series : Added(s, t)'})
      BY <2>2, <2>3, <3>1 DEF Added
    <3> QED BY <3>1 DEF ChangesAreNew
  <2> QED BY <2>4, <2>7, <2>8 DEF KInv
<1>2. ASSUME NEW batch \in Batches, RejectBatch(batch) PROVE KInv'
  <2>1. PICK bound \in ColdBound : /\ coldKnown' = TRUE /\ coldMax' = bound
                                  /\ exact' = (exact \/ ~coldKnown)
    BY <1>2 DEF RejectBatch, KeepsBound
  <2>2. stmt = Idle /\ UNCHANGED <<head, blocks, changes, stmt, saved>>
    BY <1>2 DEF RejectBatch
  <2>3. exact' => BoundBy(blocks, TRUE, bound)
    BY <1>0, <2>1, LookedUpBound
  <2>4. /\ exact' => BoundBy(blocks', coldKnown', coldMax')
        /\ exact' => BoundBy(saved'.blocks, coldKnown', coldMax')
    BY <1>0, <2>1, <2>2, <2>3
  <2> QED BY <1>0, <1>b, <2>2, <2>4 DEF KInv
<1>3. ASSUME NEW s \in Series, NEW t \in Time, NEW v \in Values, InsertSample(s, t, v)
      PROVE  KInv'
  <2> DEFINE new == OneSample(s, t, v)
             st == [op |-> "insert", batch |-> new, cutoff |-> 0]
  <2>1. Begin(st) /\ UNCHANGED <<blocks, coldKnown, coldMax, exact>>
    BY <1>3 DEF InsertSample, OneSample
  <2>2. /\ stmt' = st /\ saved'.head = head /\ saved'.blocks = blocks
        /\ View(saved'.head, saved'.blocks) = View(head, blocks)
    BY <2>1, <1>a
  <2>3. \A r \in Series, u \in Time :
            View(head', blocks')[r][u] = OverAt(View(head, blocks)[r][u], new[r][u])
    BY <1>0, <1>3, InsertDone
  <2> HIDE DEF new
  <2>4. stmt'.op = "insert" /\ stmt'.batch = new
    BY <2>2 DEF new
  <2>5. View(head', blocks') = Promise!Overwritten(stmt.batch)'
    <3>1. \A r \in Series, u \in Time : Promise!Overwritten(stmt.batch)'[r][u]
                                          = OverAt(View(head, blocks)[r][u], new[r][u])
      BY <2>2, <2>4 DEF Promise!Overwritten, OverAt
    <3>2. \A r \in Series, u \in Time : View(head', blocks')[r][u]
                                          = Promise!Overwritten(stmt.batch)'[r][u]
      BY <2>3, <3>1
    <3> QED BY <3>2 DEF View, Promise!Overwritten
  <2>6. ChangesAreNew' /\ StatementDone'
    BY <2>4, <2>5 DEF ChangesAreNew, StatementDone
  <2> QED BY <1>0, <2>1, <2>2, <2>6 DEF KInv
<1>4. ASSUME NEW cutoff \in Cutoffs, NEW limit \in Limits,
             CompactHotSlice(cutoff, limit) \/ CompactOverlappingBlock(cutoff, limit)
      PROVE  KInv'
  <2>1. Begin(CompactStatement(cutoff))
    BY <1>4 DEF CompactHotSlice, CompactOverlappingBlock
  <2>2. stmt'.op = "compact" /\ saved'.blocks = blocks
    BY <2>1, <1>a DEF CompactStatement
  <2>3. limit \in Nat \ {0}
    BY TableAssumption
  <2>4. \E s \in Series, t \in Time, bucket \in Time, row \in Row, taken \in SUBSET Time,
           kept \in SUBSET blocks : \E first : Compacts(s, t, bucket, row, taken, kept, first)
    <3>1. CASE CompactHotSlice(cutoff, limit)
      BY <1>0, <2>3, <3>1, CompactHotSliceShape
    <3>2. CASE CompactOverlappingBlock(cutoff, limit)
      BY <1>0, <2>3, <3>2, CompactOverlappingBlockShape
    <3> QED BY <1>4, <3>1, <3>2
  <2>5. exact' = exact
    BY <1>4 DEF CompactHotSlice, CompactOverlappingBlock
  <2>6. exact' => BoundBy(blocks \cup blocks', coldKnown', coldMax')
    BY <1>0, <2>4, <2>5, CompactBound
  <2> QED BY <1>b, <1>c, <2>2, <2>6 DEF KInv
<1>5. ASSUME NEW cutoff \in Cutoffs, DeleteBefore(cutoff) PROVE KInv'
  <2>1. Begin([op |-> "delete", batch |-> NoRows, cutoff |-> cutoff])
    BY <1>5 DEF DeleteBefore
  <2>2. stmt'.op = "delete" /\ saved'.blocks = blocks
    BY <2>1, <1>a
  <2>3. exact' => BoundBy(blocks \cup blocks', coldKnown', coldMax')
    BY <1>0, <1>5, DeleteBound DEF DeleteBefore
  <2> QED BY <1>b, <1>c, <2>2, <2>3 DEF KInv
<1>6. ASSUME NEW cutoff \in Cutoffs, NEW limit \in Limits, ExpireBatch(cutoff, limit)
      PROVE  KInv'
  <2> DEFINE st == [op |-> "expire", batch |-> NoRows, cutoff |-> Aligned(cutoff)]
  <2>1. Begin(st) /\ UNCHANGED <<coldKnown, coldMax, exact>> /\ blocks' \subseteq blocks
    BY <1>6 DEF ExpireBatch
  <2>2. /\ stmt' = st /\ saved'.head = head /\ saved'.blocks = blocks
        /\ View(saved'.head, saved'.blocks) = View(head, blocks)
    BY <2>1, <1>a
  <2>3. stmt'.op = "expire" /\ stmt'.cutoff = Aligned(cutoff)
    BY <2>2
  <2>4. ASSUME NEW s \in Series, NEW t \in Time,
               View(head', blocks')[s][t] # View(saved'.head, saved'.blocks)[s][t]
        PROVE  /\ t < stmt'.cutoff
               /\ View(saved'.head, saved'.blocks)[s][t] # Absent
               /\ View(head', blocks')[s][t] # Corrupt
    <3>1. cutoff \in Nat
      BY TableAssumption DEF Cutoffs
    <3> QED BY <1>0, <1>6, <2>2, <2>3, <2>4, <3>1, AlignedType, ExpireDone
  <2>5. ChangesAreNew' /\ StatementDone'
    BY <2>3, <2>4 DEF ChangesAreNew, StatementDone
  <2>6. /\ exact' => BoundBy(blocks', coldKnown', coldMax')
        /\ exact' => BoundBy(saved'.blocks, coldKnown', coldMax')
    BY <1>0, <2>1, <2>2 DEF BoundBy
  <2> QED BY <2>5, <2>6 DEF KInv
<1>7. CASE Commit
  <2>1. /\ stmt' = Idle /\ saved'.blocks = blocks
        /\ UNCHANGED <<blocks, coldKnown, coldMax, exact>>
    BY <1>7 DEF Commit
  <2> QED BY <1>0, <1>b, <2>1 DEF KInv
<1>8. CASE Rollback
  <2>1. stmt' = Idle /\ blocks' = saved.blocks
        /\ UNCHANGED <<saved, coldKnown, coldMax, exact>>
    BY <1>8 DEF Rollback
  <2> QED BY <1>0, <1>b, <2>1 DEF KInv
<1>9. CASE Reopen
  <2>1. /\ stmt' = Idle /\ blocks' = saved.blocks /\ saved' = saved
        /\ exact' = (saved.blocks = {})
    BY <1>9 DEF Reopen
  <2> QED BY <1>0, <1>b, <2>1 DEF KInv, BoundBy
<1>10. CASE DamageBlock
  <2>1. PICK b \in blocks :
            /\ blocks' = (blocks \ {b}) \cup {[b EXCEPT !.ok = FALSE]}
            /\ saved' = [saved EXCEPT !.blocks = blocks']
            /\ stmt = Idle /\ UNCHANGED <<coldKnown, coldMax, stmt, exact>>
    BY <1>10 DEF DamageBlock
  <2>2. b \in Block /\ saved'.blocks = blocks'
    BY <1>0, <2>1 DEF TypeOK
  <2>3. Points([b EXCEPT !.ok = FALSE]) = Points(b)
    BY <2>2 DEF Points, Block
  <2>4. exact' => BoundBy(blocks', coldKnown', coldMax')
    BY <1>0, <2>1, <2>3 DEF BoundBy
  <2> QED BY <1>0, <1>b, <2>1, <2>2, <2>4 DEF KInv
<1>11. CASE UNCHANGED vars
  <2>1. UNCHANGED <<head, blocks, coldKnown, coldMax, changes, stmt, saved, exact>>
    BY <1>11 DEF vars
  <2>2. View(head', blocks') = View(head, blocks)
        /\ View(saved'.head, saved'.blocks) = View(saved.head, saved.blocks)
    BY <2>1
  <2>3. ChangesAreNew'
    BY <2>1, <2>2 DEF KInv, ChangesAreNew, Added
  <2>4. StatementDone'
    BY <2>1, <2>2 DEF KInv, StatementDone, Promise!Overwritten, Promise!FilledIn
  <2>5. /\ exact' => BoundBy(blocks', coldKnown', coldMax')
        /\ exact' => BoundBy(saved'.blocks, coldKnown', coldMax')
    BY <2>1 DEF KInv
  <2> QED BY <2>3, <2>4, <2>5 DEF KInv
<1> QED
  BY <1>1, <1>2, <1>3, <1>4, <1>5, <1>6, <1>7, <1>8, <1>9, <1>10, <1>11 DEF Next
--------------------------------------------------------------------------------
(***************************************************************************)
(* The committed contents behave as the map of SampleMap.                  *)
(***************************************************************************)
\* What queries of good tables find is a map from series and timestamps to values.
LEMMA ViewType ==
    ASSUME NEW h \in Table, NEW bs, GoodBlocks(bs)
    PROVE  View(h, bs) \in [Series -> Promise!Row]
<1>1. \A s \in Series, t \in Time : Salvaged(h, bs, s, t) \in Values \cup {Absent}
  BY SalvagedType
<1> QED BY <1>1 DEF View, Promise!Row

\* The initial states map to initial states.
LEMMA InitRefines == Init => Promise!Init
<1> SUFFICES ASSUME Init PROVE Promise!Init
  OBVIOUS
<1>1. saved.head = NoRows /\ saved.blocks = {} /\ stmt = Idle
  BY DEF Init
<1>2. \A s \in Series, t \in Time : /\ Salvaged(NoRows, {}, s, t) = Absent
                                      /\ ~Undecodable({}, s, t)
  BY DEF Salvaged, NoRows, NoRow, ColdValue, ColdIn, PointAt, Undecodable
<1>3. View(NoRows, {}) = [s \in Series |-> [t \in Time |-> Absent]]
  BY <1>2 DEF View
<1>4. exact = TRUE
  BY DEF Init
<1> QED BY <1>1, <1>3, <1>4 DEF Promise!Init

\* Beginning a transaction announces its statement and changes no committed sample.
LEMMA BeginRefines ==
    ASSUME IInv, NEW st \in Statement, Begin(st), exact' \in {exact, TRUE}
    PROVE  Promise!Begin
<1>1. stmt = Idle /\ stmt' = st /\ saved' = [head |-> head, blocks |-> blocks]
  BY DEF Begin
<1>2. saved.head = head /\ saved.blocks = blocks
  BY <1>1 DEF IInv
<1>3. saved'.head = saved.head /\ saved'.blocks = saved.blocks
  BY <1>1, <1>2
<1> QED BY <1>1, <1>3 DEF Promise!Begin

\* A commit makes the effect of the statement the committed contents.
LEMMA CommitRefines ==
    ASSUME IInv, KInv, Commit
    PROVE  Promise!Commit
<1>1. /\ stmt # Idle /\ stmt' = Idle
      /\ saved'.head = head /\ saved'.blocks = blocks /\ exact' = exact
  BY DEF Commit
<1>2. stmt \in Statement
  BY <1>1 DEF IInv, TypeOK
<1>3. stmt.op \in {"ingest", "import", "insert", "compact", "delete", "expire"}
  BY <1>2 DEF Statement
<1>4. View(head, blocks) \in [Series -> Promise!Row]
  BY ViewType DEF IInv, TypeOK
<1>5. View(saved'.head, saved'.blocks) = View(head, blocks)
  BY <1>1
<1>6. CASE stmt.op \in {"ingest", "insert"}
  <2>1. View(head, blocks) = Promise!Overwritten(stmt.batch)
    BY <1>6 DEF KInv, StatementDone
  <2> QED BY <1>1, <1>4, <1>5, <1>6, <2>1 DEF Promise!Commit
<1>7. CASE stmt.op = "import"
  <2>1. CASE exact
    <3>1. View(head, blocks) = Promise!FilledIn(stmt.batch)
      BY <1>7, <2>1 DEF KInv, StatementDone
    <3> QED BY <1>1, <1>4, <1>5, <1>7, <2>1, <3>1 DEF Promise!Commit
  <2>2. CASE ~exact
    <3>1. Promise!PartlyFilledIn(stmt.batch)
      BY <1>5, <1>7 DEF KInv, StatementDone, Promise!PartlyFilledIn
    <3> QED BY <1>1, <1>4, <1>5, <1>7, <2>2, <3>1 DEF Promise!Commit
  <2> QED BY <2>1, <2>2
<1>8. CASE stmt.op = "compact"
  <2>1. \A s \in Series, t \in Time : Promise!Kept(s, t)
    BY <1>5, <1>8 DEF IInv, CompactionKeepsSamples, Promise!Kept
  <2> QED BY <1>1, <1>4, <1>5, <1>8, <2>1 DEF Promise!Commit, Promise!Compacted
<1>9. CASE stmt.op = "delete"
  <2>1. Promise!Trimmed(stmt.cutoff)
    BY <1>5, <1>9 DEF IInv, RetentionExact, Promise!Kept, Promise!Trimmed
  <2> QED BY <1>1, <1>4, <1>5, <1>9, <2>1 DEF Promise!Commit
<1>10. CASE stmt.op = "expire"
  <2>1. Promise!PartlyTrimmed(stmt.cutoff)
    BY <1>5, <1>10 DEF KInv, StatementDone, Promise!PartlyTrimmed
  <2> QED BY <1>1, <1>4, <1>5, <1>10, <2>1 DEF Promise!Commit
<1> QED BY <1>3, <1>6, <1>7, <1>8, <1>9, <1>10

\* A block that stops decoding makes samples of its series unreadable and changes no
\* other.
LEMMA DamageRefines ==
    ASSUME IInv, DamageBlock
    PROVE  Promise!Lose
<1>1. PICK b \in blocks :
          /\ blocks' = (blocks \ {b}) \cup {[b EXCEPT !.ok = FALSE]}
          /\ saved' = [saved EXCEPT !.blocks = blocks']
          /\ b.ok /\ CanDamage /\ stmt = Idle /\ stmt' = stmt /\ exact' = exact
  BY DEF DamageBlock
<1>2. /\ b \in Block /\ GoodBlocks(blocks) /\ head \in Table
      /\ saved.head = head /\ saved.blocks = blocks
      /\ saved \in [head : Table, blocks : SUBSET Block]
  BY <1>1 DEF IInv, TypeOK
<1>3. saved'.head = head /\ saved'.blocks = blocks'
  BY <1>1, <1>2
<1>4. GoodBlocks(blocks')
  BY <1>1, <1>2, DamageGood
<1>5. View(saved'.head, saved'.blocks) \in [Series -> Promise!Row]
  BY <1>2, <1>3, <1>4, ViewType
<1> DEFINE d == [b EXCEPT !.ok = FALSE]
<1>6. d.ok = FALSE /\ b.series \in Series
  BY <1>2 DEF Block
<1>7. blocks' = (blocks \ {b}) \cup {d}
  BY <1>1
<1> HIDE DEF d
<1>8. d.series = b.series /\ d.pts = b.pts
  BY <1>2 DEF Block, d
<1>9. \A t \in Time : Covers(d, t) <=> Covers(b, t)
  BY <1>8 DEF Covers, Points
<1>10. ASSUME NEW r \in Series, NEW t \in Time,
              View(head, blocks')[r][t] # View(head, blocks)[r][t]
       PROVE  r = b.series /\ View(head, blocks')[r][t] = Corrupt
  <2>1. Undecodable(blocks', r, t)
            <=> Undecodable(blocks, r, t) \/ (r = b.series /\ Covers(b, t))
    BY <1>1, <1>6, <1>7, <1>8, <1>9 DEF Undecodable
  <2>2. ASSUME ~Undecodable(blocks', r, t) PROVE FALSE
    <3>1. Salvaged(head, blocks', r, t) # Salvaged(head, blocks, r, t)
      BY <1>10, <2>1, <2>2 DEF View
    <3>2. ColdIn(blocks', r, t) = ColdIn(blocks, r, t) \ {b}
      BY <1>6, <1>7 DEF ColdIn
    <3>3. ColdIn(blocks', r, t) # ColdIn(blocks, r, t)
      BY <3>1 DEF Salvaged, ColdValue
    <3>4. b.series = r /\ b.pts[t] # Absent
      BY <3>2, <3>3 DEF ColdIn
    <3>5. t \in Points(b) /\ t <= t
      BY <3>4, TimeFinite DEF Points
    <3> QED BY <2>1, <2>2, <3>4, <3>5 DEF Covers
  <2>3. View(head, blocks')[r][t] = Corrupt
    BY <2>2 DEF View
  <2>4. ASSUME r # b.series PROVE FALSE
    <3>1. Undecodable(blocks, r, t)
      BY <2>1, <2>2, <2>4
    <3> QED BY <1>10, <2>3, <3>1 DEF View
  <2> QED BY <2>3, <2>4
<1>11. \A r \in Series, t \in Time :
          View(saved'.head, saved'.blocks)[r][t] # View(saved.head, saved.blocks)[r][t] =>
              r = b.series /\ View(saved'.head, saved'.blocks)[r][t] = Corrupt
  BY <1>2, <1>3, <1>10
<1> QED BY <1>1, <1>5, <1>6, <1>11 DEF Promise!Lose

\* A connection to a table with blocks finds a sample, or fails over one.
LEMMA ReconnectRefines ==
    ASSUME IInv, JInv, Reopen
    PROVE  Promise!Reconnect
<1>1. stmt' = Idle /\ saved' = saved /\ exact' = (saved.blocks = {})
  BY DEF Reopen
<1>2. ASSUME saved.blocks # {}
      PROVE  \E s \in Series, t \in Time : View(saved.head, saved.blocks)[s][t] # Absent
  <2>1. PICK b \in saved.blocks : Cardinality(Points(b)) \in 1..MaxBlockPoints
    BY <1>2 DEF JInv, WellKept, Sized
  <2>2. PICK t : t \in Points(b)
    <3>1. CASE Points(b) = {}
      BY <2>1, <3>1, FS_EmptySet
    <3> QED BY <3>1
  <2>3. GoodBlocks(saved.blocks) /\ b \in Block /\ saved.head \in Table
    BY DEF IInv, TypeOK
  <2>4. /\ t \in Time /\ b.pts[t] # Absent /\ b.series \in Series /\ t <= t
        /\ Corrupt # Absent
    BY <2>2, <2>3, TimeFinite, TableAssumption DEF Points, Block
  <2>5. CASE b.ok
    <3>1. b \in ColdIn(saved.blocks, b.series, t)
      BY <2>4, <2>5 DEF ColdIn
    <3>2. ColdValue(saved.blocks, b.series, t) # Absent
      BY <2>3, <2>4, <3>1, ColdUnique
    <3>3. View(saved.head, saved.blocks)[b.series][t] # Absent
      BY <2>4, <3>2 DEF View, Salvaged
    <3> QED BY <2>4, <3>3
  <2>6. CASE ~b.ok
    <3>1. Undecodable(saved.blocks, b.series, t)
      BY <2>2, <2>4, <2>6 DEF Undecodable, Covers
    <3>2. View(saved.head, saved.blocks)[b.series][t] # Absent
      BY <2>4, <3>1 DEF View
    <3> QED BY <2>4, <3>2
  <2> QED BY <2>5, <2>6
<1> QED BY <1>1, <1>2 DEF Promise!Reconnect

\* Every step of the table maps to a step of the map or to none.
LEMMA StepRefines ==
    ASSUME IInv, JInv, KInv, [Next]_vars
    PROVE  [Promise!Next]_(Promise!vars)
<1>1. ASSUME NEW st \in Statement, Begin(st), exact' \in {exact, TRUE} PROVE Promise!Next
  BY <1>1, BeginRefines DEF Promise!Next
<1>2. ASSUME saved' = saved, stmt' = stmt, exact' = exact PROVE UNCHANGED Promise!vars
  BY <1>2 DEF Promise!vars
<1>3. NoRows \in Table /\ \A cutoff \in Cutoffs : cutoff \in Nat
  BY NoRowsType, TableAssumption DEF Cutoffs
<1>4. ASSUME NEW batch \in Batches, NEW overwrite \in BOOLEAN, IngestBatch(batch, overwrite)
      PROVE  Promise!Next
  <2> DEFINE st == [op |-> IF overwrite THEN "ingest" ELSE "import", batch |-> batch,
                    cutoff |-> 0]
  <2>1. st \in Statement
    BY DEF Statement, Batches
  <2>2. Begin(st) /\ exact' \in {exact, TRUE}
    BY <1>4 DEF IngestBatch, KeepsBound, IInv, TypeOK
  <2> QED BY <1>1, <2>1, <2>2
<1>5. ASSUME NEW batch \in Batches, RejectBatch(batch) PROVE [Promise!Next]_(Promise!vars)
  <2>1. stmt = Idle /\ saved' = saved /\ stmt' = stmt /\ exact' \in {exact, TRUE}
    BY <1>5 DEF RejectBatch, KeepsBound, IInv, TypeOK
  <2>2. CASE exact' = exact
    BY <1>2, <2>1, <2>2
  <2>3. CASE exact' = TRUE
    BY <2>1, <2>3 DEF Promise!Next, Promise!LookUp
  <2> QED BY <2>1, <2>2, <2>3
<1>6. ASSUME NEW s \in Series, NEW t \in Time, NEW v \in Values, InsertSample(s, t, v)
      PROVE  Promise!Next
  <2> DEFINE new == [NoRows EXCEPT ![s] = [NoRow EXCEPT ![t] = v]]
             st == [op |-> "insert", batch |-> new, cutoff |-> 0]
  <2>1. new \in Table
    BY DEF NoRows, NoRow, Table, Row
  <2>2. st \in Statement
    BY <2>1 DEF Statement
  <2>3. Begin(st) /\ exact' = exact
    BY <1>6 DEF InsertSample
  <2> QED BY <1>1, <2>2, <2>3
<1>7. ASSUME NEW cutoff \in Cutoffs, NEW limit \in Limits,
             CompactHotSlice(cutoff, limit) \/ CompactOverlappingBlock(cutoff, limit)
      PROVE  Promise!Next
  <2>1. CompactStatement(cutoff) \in Statement
    BY <1>3 DEF CompactStatement, Statement
  <2>2. Begin(CompactStatement(cutoff)) /\ exact' = exact
    BY <1>7 DEF CompactHotSlice, CompactOverlappingBlock
  <2> QED BY <1>1, <2>1, <2>2
<1>8. ASSUME NEW cutoff \in Cutoffs, DeleteBefore(cutoff) PROVE Promise!Next
  <2> DEFINE st == [op |-> "delete", batch |-> NoRows, cutoff |-> cutoff]
  <2>1. st \in Statement
    BY <1>3 DEF Statement
  <2>2. Begin(st) /\ exact' = exact
    BY <1>8 DEF DeleteBefore
  <2> QED BY <1>1, <2>1, <2>2
<1>9. ASSUME NEW cutoff \in Cutoffs, NEW limit \in Limits, ExpireBatch(cutoff, limit)
      PROVE  Promise!Next
  <2> DEFINE st == [op |-> "expire", batch |-> NoRows, cutoff |-> Aligned(cutoff)]
  <2>1. Aligned(cutoff) \in Nat
    BY <1>3, AlignedType
  <2>2. st \in Statement
    BY <1>3, <2>1 DEF Statement
  <2>3. Begin(st) /\ exact' = exact
    BY <1>9 DEF ExpireBatch
  <2> QED BY <1>1, <2>2, <2>3
<1>10. CASE Commit
  BY <1>10, CommitRefines DEF Promise!Next
<1>11. CASE Rollback
  <2>1. stmt # Idle /\ stmt' = Idle /\ saved' = saved /\ exact' = exact
    BY <1>11 DEF Rollback
  <2> QED BY <2>1 DEF Promise!Next, Promise!Abort
<1>12. CASE Reopen
  BY <1>12, ReconnectRefines DEF Promise!Next
<1>13. CASE DamageBlock
  BY <1>13, DamageRefines DEF Promise!Next
<1>14. CASE UNCHANGED vars
  BY <1>2, <1>14 DEF vars
<1> QED
  BY <1>4, <1>5, <1>6, <1>7, <1>8, <1>9, <1>10, <1>11, <1>12, <1>13, <1>14 DEF Next

\* All three invariants hold in every state.
THEOREM ThirdInvariance == Spec => [](IInv /\ JInv /\ KInv)
<1>1. Init => KInv
  BY KInvInit
<1>2. IInv /\ IInv' /\ KInv /\ [Next]_vars => KInv'
  BY StepKInv
<1> QED BY <1>1, <1>2, SecondInvariance, PTL DEF Spec

\* samples_changes counts exactly what a batch added, over every restart and rollback,
\* on each connection that looked the bound up before it wrote a block.
THEOREM ChangesStayNew == Spec => []ChangesAreNew
<1>1. KInv => ChangesAreNew
  BY DEF KInv
<1> QED BY <1>1, ThirdInvariance, PTL

\* The table implements the map: a transaction that commits has the whole effect of
\* its statement on the samples, one that does not has none, and maintenance shows
\* nothing but what its statement says.
THEOREM TableImplementsMap == Spec => Implements
<1>1. Init => Promise!Init
  BY InitRefines
<1>2. (IInv /\ JInv /\ KInv) /\ [Next]_vars => [Promise!Next]_(Promise!vars)
  BY StepRefines
<1>3. Spec => Promise!Spec
  BY <1>1, <1>2, ThirdInvariance, PTL DEF Spec, Promise!Spec
<1> QED BY <1>3 DEF Implements
================================================================================
