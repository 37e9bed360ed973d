------------------------------ MODULE ChunkVfsProofs ------------------------------
(***************************************************************************)
(* Proofs about ChunkVfs, for chunks, caches, databases and numbers of     *)
(* transactions and faults of every size: what SQLite reads when it is     *)
(* idle, and what the desktop's file is made of, is the last commit or,    *)
(* after a crash, the transaction in flight.                               *)
(***************************************************************************)
EXTENDS ChunkVfs, Sums

(***************************************************************************)
(* What the chunks hold, page by page: of an open file m over a stored     *)
(* file d, and of the stored file alone.  A file that is open is typed by  *)
(* the set S of what its pages may be.                                     *)
(***************************************************************************)
Slots == 0..PerChunk - 1
Pages(d, m) == [p \in Nat |-> LoadChunk(d, m, ChunkOf(p))[p % PerChunk]]
OnDisk(d) == Pages(d, Opened(d))
SizeOf(d) == Opened(d).size

ChunkMaps(S) == UNION {[C -> [Slots -> S]] : C \in SUBSET Nat}
StoredFile(S) == [meta : Nat \cup {Null}, chunks : ChunkMaps(S)]
OpenFile(S) == [size : Nat, metaDirty : BOOLEAN, cache : ChunkMaps(S), dirty : Seq(Nat)]

\* The chunks that a flush has yet to write when it has written w.
Unflushed(m, w) == {m.dirty[i] : i \in w + 1..Len(m.dirty)}

\* What is cached is dirty or as stored, and so is the size.
Fits(d, m, w) ==
    /\ \A c \in DOMAIN m.cache :
           c \in Unflushed(m, w) \/ (c \in DOMAIN d.chunks /\ d.chunks[c] = m.cache[c])
    /\ \A i \in DOMAIN m.dirty : m.dirty[i] \in DOMAIN m.cache /\ m.dirty[i] < ChunkCount(m.size)
    /\ ~m.metaDirty => d.meta = m.size

-----------------------------------------------------------------------------
(* Pages and chunks.                                                       *)

\* A page is in a slot of its chunk, and no other page is in that slot.
LEMMA PageInSlot ==
    /\ \A p \in Nat : ChunkOf(p) \in Nat /\ p % PerChunk \in Slots
    /\ \A p, q \in Nat : ChunkOf(p) = ChunkOf(q) /\ p % PerChunk = q % PerChunk => p = q
    /\ ChunkOf(0) = 0 /\ 0 % PerChunk = 0
<1> DEFINE k == PerChunk
<1>0. k \in Nat /\ k > 0
  BY ChunkAssumption
<1>1. \A p \in Nat : ChunkOf(p) \in Nat /\ p % PerChunk \in Slots
  BY <1>0, DivMod DEF ChunkOf, Slots
<1>2. ASSUME NEW p \in Nat, NEW q \in Nat, ChunkOf(p) = ChunkOf(q), p % PerChunk = q % PerChunk
      PROVE  p = q
  <2>1. p = k * (p \div k) + (p % k) /\ q = k * (q \div k) + (q % k)
    BY <1>0, DivMod
  <2> QED BY <1>2, <2>1 DEF ChunkOf
<1>3. 0 \div k = 0 /\ 0 % k = 0
  <2>1. 0 \div k \in Nat /\ 0 % k \in 0..k - 1 /\ 0 = k * (0 \div k) + (0 % k)
    BY <1>0, DivMod
  <2> DEFINE q == 0 \div k
             r == 0 % k
  <2>2. q \in Nat /\ r \in 0..k - 1 /\ 0 = k * q + r
    BY <2>1
  <2> HIDE DEF q, r, k
  <2>3. q # 0 => q >= 1 /\ k * q >= k
    BY <1>0, <2>2
  <2>4. q = 0 /\ r = 0
    BY <1>0, <2>2, <2>3
  <2> QED BY <2>4 DEF q, r, k
<1> QED BY <1>1, <1>2, <1>3 DEF ChunkOf

\* The chunks of a file of a size are those of its pages.
LEMMA ChunksOfSize ==
    /\ \A s \in Nat : ChunkCount(s) \in Nat /\ (ChunkCount(s) = 0 <=> s = 0)
    /\ \A s, p \in Nat : p < s => ChunkOf(p) < ChunkCount(s)
    /\ \A s, t \in Nat : s <= t => ChunkCount(s) <= ChunkCount(t)
<1> DEFINE k == PerChunk
<1>0. k \in Nat /\ k > 0
  BY ChunkAssumption
<1>1. \A n \in Nat : /\ n \div k \in Nat /\ n % k \in 0..k - 1
                     /\ n = k * (n \div k) + (n % k)
  <2> HIDE DEF k
  <2> QED BY <1>0, DivMod
<1>2. \A a, b \in Nat : a < b => k * a + k <= k * b
  <2>1. TAKE a, b \in Nat
  <2>2. HAVE a < b
  <2>3. b = a + 1 + (b - a - 1) /\ b - a - 1 \in Nat
    BY <2>2
  <2>4. \A e \in Nat : k * (a + 1 + e) = k * a + k + k * e /\ k * e >= 0
    BY <1>0
  <2> QED BY <1>0, <2>3, <2>4
<1>3. ASSUME NEW s \in Nat PROVE ChunkCount(s) \in Nat /\ (ChunkCount(s) = 0 <=> s = 0)
  <2>1. s + k - 1 \in Nat
    BY <1>0
  <2> DEFINE q == (s + k - 1) \div k
             r == (s + k - 1) % k
  <2>2. q \in Nat /\ r \in 0..k - 1 /\ s + k - 1 = k * q + r
    BY <1>1, <2>1, Zenon
  <2>3. ASSUME q = 0 PROVE s = 0
    <3>1. k * q = 0
      BY <1>0, <2>3
    <3> HIDE DEF q, r, k
    <3> QED BY <1>0, <2>2, <3>1
  <2>4. ASSUME s = 0 PROVE q = 0
    <3>1. q # 0 => k * 0 + k <= k * q
      BY <1>2, <2>2
    <3>2. k * 0 = 0
      BY <1>0
    <3> HIDE DEF q, r, k
    <3> QED BY <1>0, <2>2, <2>4, <3>1, <3>2
  <2> QED BY <2>2, <2>3, <2>4 DEF ChunkCount
<1>4. ASSUME NEW s \in Nat, NEW p \in Nat, p < s PROVE ChunkOf(p) < ChunkCount(s)
  <2>1. s + k - 1 \in Nat
    BY <1>0
  <2> DEFINE q == (s + k - 1) \div k
             r == (s + k - 1) % k
             c == p \div k
             e == p % k
  <2>2. q \in Nat /\ r \in 0..k - 1 /\ s + k - 1 = k * q + r
    BY <1>1, <2>1, Zenon
  <2>3. c \in Nat /\ e \in 0..k - 1 /\ p = k * c + e
    BY <1>1
  <2>4. q <= c => k * q <= k * c
    <3>1. q < c => k * q + k <= k * c
      BY <1>2, <2>2, <2>3
    <3>2. k * q \in Nat /\ k * c \in Nat
      BY <1>0, <2>2, <2>3
    <3> HIDE DEF q, c, k, r, e
    <3> QED BY <1>0, <2>2, <2>3, <3>1, <3>2
  <2>5. k * q \in Nat /\ k * c \in Nat
    BY <1>0, <2>2, <2>3
  <2>6. c < q
    <3> HIDE DEF q, c, k, r, e
    <3> QED BY <1>0, <1>4, <2>2, <2>3, <2>4, <2>5
  <2> QED BY <2>6 DEF ChunkOf, ChunkCount
<1>5. ASSUME NEW s \in Nat, NEW t \in Nat, s <= t PROVE ChunkCount(s) <= ChunkCount(t)
  <2>1. s + k - 1 \in Nat /\ t + k - 1 \in Nat
    BY <1>0
  <2> DEFINE q == (s + k - 1) \div k
             r == (s + k - 1) % k
             c == (t + k - 1) \div k
             e == (t + k - 1) % k
  <2>2. q \in Nat /\ r \in 0..k - 1 /\ s + k - 1 = k * q + r
    BY <1>1, <2>1, Zenon
  <2>3. c \in Nat /\ e \in 0..k - 1 /\ t + k - 1 = k * c + e
    BY <1>1, <2>1, Zenon
  <2>4. c < q => k * c + k <= k * q
    BY <1>2, <2>2, <2>3
  <2>5. k * q \in Nat /\ k * c \in Nat
    BY <1>0, <2>2, <2>3
  <2>6. q <= c
    <3> HIDE DEF q, c, k, r, e
    <3> QED BY <1>0, <1>5, <2>2, <2>3, <2>4, <2>5
  <2> QED BY <2>6 DEF ChunkCount
<1> QED BY <1>3, <1>4, <1>5

-----------------------------------------------------------------------------
(* Maps of chunks.                                                         *)

Put(m, c, k) == [x \in DOMAIN m \cup {c} |-> IF x = c THEN k ELSE m[x]]

\* A map of chunks gives pages of S.
LEMMA MapAt ==
    ASSUME NEW S, NEW m \in ChunkMaps(S)
    PROVE  /\ DOMAIN m \subseteq Nat
           /\ \A c \in DOMAIN m : m[c] \in [Slots -> S]
<1>1. PICK C \in SUBSET Nat : m \in [C -> [Slots -> S]]
  BY DEF ChunkMaps
<1> QED BY <1>1

\* A chunk is put in a map of chunks.
LEMMA MapPut ==
    ASSUME NEW S, NEW m \in ChunkMaps(S), NEW c \in Nat, NEW k \in [Slots -> S]
    PROVE  Put(m, c, k) \in ChunkMaps(S)
<1>1. Put(m, c, k) \in [DOMAIN m \cup {c} -> [Slots -> S]]
  BY MapAt DEF Put
<1>2. DOMAIN m \cup {c} \in SUBSET Nat
  BY MapAt
<1> QED BY <1>1, <1>2 DEF ChunkMaps

\* A part of a map of chunks is one.
LEMMA MapPart ==
    ASSUME NEW S, NEW m \in ChunkMaps(S), NEW K \in SUBSET DOMAIN m
    PROVE  [x \in K |-> m[x]] \in ChunkMaps(S)
<1>1. [x \in K |-> m[x]] \in [K -> [Slots -> S]]
  BY MapAt
<1>2. K \in SUBSET Nat
  BY MapAt
<1> QED BY <1>1, <1>2 DEF ChunkMaps

\* A loaded chunk is a chunk.
LEMMA LoadTyped ==
    ASSUME NEW S, Zero \in S, NEW d \in StoredFile(S), NEW m \in OpenFile(S), NEW c
    PROVE  LoadChunk(d, m, c) \in [Slots -> S]
<1>1. ZeroChunk \in [Slots -> S]
  BY DEF ZeroChunk, Slots
<1>2. d.chunks \in ChunkMaps(S) /\ m.cache \in ChunkMaps(S)
  BY DEF StoredFile, OpenFile
<1> QED BY <1>1, <1>2, MapAt DEF LoadChunk

\* The pages of a file are what its chunks may hold.
LEMMA PagesTyped ==
    ASSUME NEW S, Zero \in S, NEW d \in StoredFile(S), NEW m \in OpenFile(S)
    PROVE  Pages(d, m) \in [Nat -> S]
  BY LoadTyped, PageInSlot DEF Pages

\* An opened file is what is stored.
LEMMA OpenedFits ==
    ASSUME NEW S, NEW d \in StoredFile(S)
    PROVE  /\ Opened(d) \in OpenFile(S)
           /\ Fits(d, Opened(d), 0)
           /\ Opened(d).size = SizeOf(d) /\ SizeOf(d) \in Nat
           /\ d.meta # Null => SizeOf(d) = d.meta
           /\ d.meta = Null => SizeOf(d) = 0
           /\ Opened(d).dirty = <<>>
           /\ Opened(d).metaDirty <=> d.meta = Null
           /\ Opened(d).cache = [c \in {} |-> ZeroChunk]
<1> DEFINE e == [c \in {} |-> ZeroChunk]
           s == IF d.meta = Null THEN 0 ELSE d.meta
           no == d.meta = Null
<1>1. e \in ChunkMaps(S)
  <2>1. e \in [{} -> [Slots -> S]]
    OBVIOUS
  <2> QED BY <2>1 DEF ChunkMaps
<1>2. s \in Nat /\ DOMAIN e = {}
  BY DEF StoredFile
<1>3. Opened(d) = [size |-> s, metaDirty |-> no, cache |-> e, dirty |-> <<>>]
  BY Zenon DEF Opened
<1>5. no \in BOOLEAN
  OBVIOUS
<1> HIDE DEF e, s, no
<1>6. /\ Opened(d).size = s /\ Opened(d).cache = e /\ Opened(d).dirty = <<>>
      /\ Opened(d).metaDirty = no
  BY <1>3
<1>4. /\ Opened(d).size = s /\ Opened(d).cache = e /\ Opened(d).dirty = <<>>
      /\ Opened(d).metaDirty <=> d.meta = Null
  BY <1>6, Zenon DEF no
<1>7. Opened(d) \in OpenFile(S)
  BY <1>1, <1>2, <1>3, <1>5 DEF OpenFile
<1>8. Fits(d, Opened(d), 0)
  <2>1. DOMAIN Opened(d).dirty = {}
    BY <1>4
  <2>2. ~Opened(d).metaDirty => d.meta = Opened(d).size
    BY <1>4 DEF s
  <2> QED BY <1>2, <1>4, <2>1, <2>2, Zenon DEF Fits
<1> QED BY <1>2, <1>4, <1>7, <1>8 DEF SizeOf, e, s

\* What is on disk, chunk by chunk.
LEMMA DiskPages ==
    ASSUME NEW S, NEW d \in StoredFile(S), NEW p \in Nat
    PROVE  OnDisk(d)[p] = IF ChunkOf(p) \in DOMAIN d.chunks
                          THEN d.chunks[ChunkOf(p)][p % PerChunk] ELSE Zero
<1>1. DOMAIN Opened(d).cache = {}
  BY OpenedFits
<1>2. p % PerChunk \in Slots
  BY PageInSlot
<1>3. LoadChunk(d, Opened(d), ChunkOf(p)) =
        IF ChunkOf(p) \in DOMAIN d.chunks THEN d.chunks[ChunkOf(p)] ELSE ZeroChunk
  BY <1>1 DEF LoadChunk
<1>4. ZeroChunk[p % PerChunk] = Zero
  BY <1>2 DEF ZeroChunk, Slots
<1> QED BY <1>3, <1>4 DEF OnDisk, Pages

\* When nothing is left to flush, the pages are those on disk.
LEMMA FlushedPages ==
    ASSUME NEW S, NEW d \in StoredFile(S), NEW m \in OpenFile(S), NEW w, Fits(d, m, w),
           Unflushed(m, w) = {}
    PROVE  Pages(d, m) = OnDisk(d)
<1>1. DOMAIN Opened(d).cache = {}
  BY OpenedFits
<1>2. ASSUME NEW c PROVE LoadChunk(d, m, c) = LoadChunk(d, Opened(d), c)
  <2>1. c \in DOMAIN m.cache => c \in DOMAIN d.chunks /\ d.chunks[c] = m.cache[c]
    BY DEF Fits
  <2> QED BY <1>1, <2>1 DEF LoadChunk
<1> QED BY <1>2, Zenon DEF OnDisk, Pages

\* A flush has written all the dirty chunks when none is left.
LEMMA NoneUnflushed ==
    ASSUME NEW m, NEW w \in Nat, m.dirty \in Seq(Nat), ~(w < Len(m.dirty))
    PROVE  Unflushed(m, w) = {}
  BY DEF Unflushed

\* A file without dirty chunks has nothing to flush.
LEMMA CleanUnflushed ==
    ASSUME NEW m, m.dirty = <<>>
    PROVE  Unflushed(m, 0) = {}
<1>1. Len(m.dirty) = 0
  OBVIOUS
<1>2. \A i \in 0 + 1..Len(m.dirty) : FALSE
  BY <1>1
<1> QED BY <1>2, Zenon DEF Unflushed

\* A flush that starts over has more left to do.
LEMMA FitsFromStart ==
    ASSUME NEW d, NEW m, NEW w \in Nat, Fits(d, m, w), m.dirty \in Seq(Nat)
    PROVE  Fits(d, m, 0)
<1>1. w + 1..Len(m.dirty) \subseteq 0 + 1..Len(m.dirty)
  OBVIOUS
<1>2. Unflushed(m, w) \subseteq Unflushed(m, 0)
  BY <1>1, Zenon DEF Unflushed
<1> QED BY <1>2 DEF Fits

-----------------------------------------------------------------------------
(* Writes.                                                                 *)

Dirty(m) == {m.dirty[i] : i \in DOMAIN m.dirty}

\* x is m after a write of page.
Written(d, m, x, page, content) ==
    /\ Fits(d, x, 0)
    /\ \A p \in Nat : Pages(d, x)[p] = IF p = page THEN content ELSE Pages(d, m)[p]
    /\ x.size = IF page < m.size THEN m.size ELSE page + 1
    /\ page < m.size => x.metaDirty = m.metaDirty
    /\ ~(page < m.size) => x.metaDirty
    /\ Dirty(x) = Dirty(m) \cup {ChunkOf(page)}
    /\ DOMAIN m.cache \subseteq DOMAIN x.cache

\* xWrite of one page: that page changes and no other, and the file still fits.
LEMMA WriteOne ==
    ASSUME NEW S, Zero \in S, NEW d \in StoredFile(S), NEW m \in OpenFile(S), Fits(d, m, 0),
           NEW page \in Nat, NEW content \in S
    PROVE  /\ WritePage(d, m, page, content) \in OpenFile(S)
           /\ Written(d, m, WritePage(d, m, page, content), page, content)
<1> DEFINE c == ChunkOf(page)
           slot == page % PerChunk
           base == LoadChunk(d, m, c)
           chunk == [base EXCEPT ![slot] = content]
           known == \E i \in DOMAIN m.dirty : m.dirty[i] = c
           dirty == IF known THEN m.dirty ELSE Append(m.dirty, c)
           size == IF page < m.size THEN m.size ELSE page + 1
           meta == m.metaDirty \/ page >= m.size
           cache == Put(m.cache, c, chunk)
           x == WritePage(d, m, page, content)
<1>1. x = [m EXCEPT !.cache = cache, !.dirty = dirty, !.size = size, !.metaDirty = meta]
  BY Zenon DEF WritePage, BaseChunk, Put
<1>2. /\ c \in Nat /\ slot \in Slots /\ base \in [Slots -> S]
      /\ m.cache \in ChunkMaps(S) /\ m.dirty \in Seq(Nat) /\ m.size \in Nat
      /\ m.metaDirty \in BOOLEAN
  BY PageInSlot, LoadTyped DEF OpenFile
<1>3. chunk \in [Slots -> S]
  BY <1>2
<1>4. cache \in ChunkMaps(S)
  <2> HIDE DEF chunk, c
  <2> QED BY <1>2, <1>3, MapPut
<1>5. dirty \in Seq(Nat) /\ size \in Nat /\ meta \in BOOLEAN
  BY <1>2
<1>15. /\ page < m.size => size = m.size /\ (meta <=> m.metaDirty)
       /\ ~(page < m.size) => size = page + 1 /\ meta
  <2>1. page >= m.size <=> ~(page < m.size)
    BY <1>2
  <2> QED BY <2>1, Zenon
<1>6. /\ x.cache = cache /\ x.dirty = dirty /\ x.size = size /\ x.metaDirty = meta
      /\ x \in OpenFile(S)
  <2> HIDE DEF cache, dirty, size, meta, x
  <2> QED BY <1>1, <1>4, <1>5 DEF OpenFile
<1>7. DOMAIN cache = DOMAIN m.cache \cup {c} /\ cache[c] = chunk
      /\ \A e \in DOMAIN m.cache : e # c => cache[e] = m.cache[e]
  BY DEF Put
<1>8. Dirty(x) = Dirty(m) \cup {c}
  <2>1. CASE known
    <3>1. x.dirty = m.dirty
      BY <1>6, <2>1
    <3> QED BY <2>1, <3>1 DEF Dirty
  <2>2. CASE ~known
    <3>1. x.dirty = Append(m.dirty, c)
      BY <1>6, <2>2
    <3>2. DOMAIN x.dirty = 1..Len(m.dirty) + 1 /\ DOMAIN m.dirty = 1..Len(m.dirty) /\ Len(m.dirty) \in Nat
      BY <1>2, <3>1
    <3>3. x.dirty[Len(m.dirty) + 1] = c /\ \A i \in DOMAIN m.dirty : x.dirty[i] = m.dirty[i]
      BY <1>2, <3>1
    <3> HIDE DEF c, x
    <3> QED BY <3>2, <3>3 DEF Dirty
  <2> QED BY <2>1, <2>2
<1> HIDE DEF cache, dirty, size, meta, x
<1>9. \A o \in OpenFile(S) : Unflushed(o, 0) = Dirty(o)
  <2>1. TAKE o \in OpenFile(S)
  <2>2. DOMAIN o.dirty = 0 + 1..Len(o.dirty)
    BY DEF OpenFile
  <2> QED BY <2>2, Zenon DEF Unflushed, Dirty
<1>10. Fits(d, x, 0)
  <2>1. ASSUME NEW e \in DOMAIN x.cache
        PROVE  e \in Unflushed(x, 0) \/ (e \in DOMAIN d.chunks /\ d.chunks[e] = x.cache[e])
    <3>1. CASE e = c
      BY <1>6, <1>8, <1>9, <3>1
    <3>2. CASE e # c
      <4>1. e \in DOMAIN m.cache /\ x.cache[e] = m.cache[e]
        BY <1>6, <1>7, <2>1, <3>2
      <4>2. e \in Unflushed(m, 0) \/ (e \in DOMAIN d.chunks /\ d.chunks[e] = m.cache[e])
        BY <4>1 DEF Fits
      <4> QED BY <1>6, <1>8, <1>9, <4>1, <4>2
    <3> QED BY <3>1, <3>2
  <2>2. \A i \in DOMAIN x.dirty : x.dirty[i] \in DOMAIN x.cache /\ x.dirty[i] < ChunkCount(x.size)
    <3>1. \A e \in Dirty(m) : e \in DOMAIN m.cache /\ e < ChunkCount(m.size)
      BY DEF Fits, Dirty
    <3>2. x.size \in Nat /\ m.size <= x.size /\ page < x.size
      BY <1>2, <1>6 DEF size
    <3>3. ChunkCount(m.size) <= ChunkCount(x.size) /\ c < ChunkCount(x.size)
          /\ ChunkCount(m.size) \in Nat /\ ChunkCount(x.size) \in Nat
      BY <1>2, <3>2, ChunksOfSize DEF c
    <3>4. \A e \in Dirty(m) : e \in Nat
      BY <1>2, <3>1, MapAt
    <3>5. \A e \in Dirty(x) : e \in DOMAIN x.cache /\ e < ChunkCount(x.size)
      BY <1>6, <1>7, <1>8, <3>1, <3>3, <3>4
    <3> QED BY <3>5 DEF Dirty
  <2>3. ~x.metaDirty => d.meta = x.size
    <3>1. x.metaDirty <=> meta
      BY <1>6
    <3>2. x.size = size
      BY <1>6
    <3> QED BY <1>15, <3>1, <3>2, Zenon DEF Fits
  <2> QED BY <2>1, <2>2, <2>3, Zenon DEF Fits
<1>11. ASSUME NEW p \in Nat
       PROVE  Pages(d, x)[p] = IF p = page THEN content ELSE Pages(d, m)[p]
  <2> DEFINE e == ChunkOf(p)
  <2>1. /\ Pages(d, x)[p] = LoadChunk(d, x, e)[p % PerChunk]
        /\ Pages(d, m)[p] = LoadChunk(d, m, e)[p % PerChunk]
    BY DEF Pages
  <2>2. p % PerChunk \in Slots
    BY PageInSlot
  <2>3. CASE e = c
    <3>1. LoadChunk(d, x, e) = chunk
      BY <1>6, <1>7, <2>3 DEF LoadChunk
    <3>2. p = page <=> p % PerChunk = slot
      BY <2>3, PageInSlot
    <3>3. chunk[p % PerChunk] = IF p % PerChunk = slot THEN content ELSE base[p % PerChunk]
      BY <1>2, <2>2
    <3> QED BY <2>1, <2>3, <3>1, <3>2, <3>3
  <2>4. CASE e # c
    <3>1. LoadChunk(d, x, e) = LoadChunk(d, m, e)
      BY <1>6, <1>7, <2>4 DEF LoadChunk
    <3>2. p # page
      BY <2>4
    <3> QED BY <2>1, <3>1, <3>2
  <2> QED BY <2>3, <2>4
<1>12. /\ x.size = IF page < m.size THEN m.size ELSE page + 1
       /\ page < m.size => x.metaDirty = m.metaDirty
       /\ ~(page < m.size) => x.metaDirty
  <2>1. x.size = IF page < m.size THEN m.size ELSE page + 1
    BY <1>6, Zenon DEF size
  <2>2. x.metaDirty <=> meta
    BY <1>6
  <2>3. /\ page < m.size => (x.metaDirty <=> m.metaDirty)
        /\ ~(page < m.size) => x.metaDirty
    BY <1>15, <2>2, Zenon
  <2>4. m.metaDirty \in BOOLEAN /\ x.metaDirty \in BOOLEAN
    BY <1>6 DEF OpenFile
  <2> QED BY ONLY <2>1, <2>3, <2>4
<1> QED BY <1>6, <1>7, <1>8, <1>10, <1>11, <1>12, Zenon DEF Written, x

\* The recursive function inside WritePages.
WritesStep(d, m, content, g, Q) ==
    IF Q = {} THEN m ELSE WritePage(d, g[Q \ {Max(Q)}], Max(Q), content[Max(Q)])
WritesFcn(d, m, content, P) ==
    CHOOSE g : g = [Q \in SUBSET P |-> WritesStep(d, m, content, g, Q)]

\* WritePages is the recursive function that it names, on its whole domain.
LEMMA WritePagesDef ==
    \A d, m, content :
        WritePages(d, m, content) = WritesFcn(d, m, content, DOMAIN content)[DOMAIN content]
  BY Zenon DEF WritePages, WritesFcn, WritesStep

\* The function of WritePages, one page further.
LEMMA WritesFcnAt ==
    ASSUME NEW d, NEW m, NEW content, NEW P \in SUBSET Nat, IsFiniteSet(P), NEW Q \in SUBSET P
    PROVE  WritesFcn(d, m, content, P)[Q] =
               WritesStep(d, m, content, WritesFcn(d, m, content, P), Q)
<1> DEFINE Step(g, R) == WritesStep(d, m, content, g, R)
           Lev(n) == {R \in SUBSET P : Cardinality(R) <= n}
           T == {n \in Nat : \E g : g = [R \in Lev(n) |-> Step(g, R)]}
<1>0. \A R \in SUBSET P : IsFiniteSet(R) /\ Cardinality(R) \in Nat
  BY FS_Subset, FS_CardinalityType
<1>1. 0 \in T
  <2> DEFINE g == [R \in Lev(0) |-> m]
  <2>1. \A R \in Lev(0) : R = {}
    BY <1>0, FS_EmptySet
  <2>2. \A R \in Lev(0) : Step(g, R) = m
    BY <2>1 DEF WritesStep
  <2>3. g = [R \in Lev(0) |-> Step(g, R)]
    BY <2>2
  <2> QED BY <2>3
<1>2. ASSUME NEW n \in T PROVE n + 1 \in T
  <2>1. PICK g : g = [R \in Lev(n) |-> Step(g, R)]
    OBVIOUS
  <2> DEFINE h == [R \in Lev(n + 1) |-> Step(g, R)]
  <2>2. ASSUME NEW R \in Lev(n + 1) PROVE Step(h, R) = Step(g, R)
    <3>1. CASE R = {}
      BY <3>1 DEF WritesStep
    <3>2. CASE R # {}
      <4> DEFINE last == Max(R)
                 r == R \ {last}
      <4>1. last \in R
        BY <1>0, <3>2, MaxIsGreatest
      <4> HIDE DEF last
      <4>2. r \in Lev(n) /\ r \in Lev(n + 1)
        BY <1>0, <4>1, FS_RemoveElement
      <4>3. h[r] = Step(g, r) /\ g[r] = Step(g, r)
        <5> HIDE DEF Lev, Step, r
        <5> QED BY ONLY <2>1, <4>2
      <4>4. h[r] = g[r]
        BY <4>3
      <4> HIDE DEF h
      <4> QED BY <3>2, <4>4, Zenon DEF WritesStep, last
    <3> QED BY <3>1, <3>2
  <2>3. h = [R \in Lev(n + 1) |-> Step(h, R)]
    <3> HIDE DEF Lev, Step
    <3> QED BY <2>2
  <2>4. \E k : k = [R \in Lev(n + 1) |-> Step(k, R)]
    <3> HIDE DEF h
    <3> QED BY <2>3, Zenon
  <2>5. n + 1 \in Nat
    OBVIOUS
  <2> HIDE DEF Lev
  <2> QED BY <2>4, <2>5, Zenon
<1>3. T = Nat
  <2>1. T \in SUBSET Nat
    OBVIOUS
  <2> HIDE DEF T
  <2> QED BY <1>1, <1>2, <2>1, NaturalInduction, Zenon
<1>4. PICK g : g = [R \in Lev(Cardinality(P)) |-> Step(g, R)]
  <2>1. Cardinality(P) \in T
    BY <1>0, <1>3
  <2> QED BY <2>1
<1>5. Lev(Cardinality(P)) = SUBSET P
  BY FS_Subset
<1>6. g = [R \in SUBSET P |-> Step(g, R)]
  BY <1>4, <1>5
<1> DEFINE f == WritesFcn(d, m, content, P)
<1>7. f = [R \in SUBSET P |-> WritesStep(d, m, content, f, R)]
  BY <1>6, Zenon DEF WritesFcn
<1> HIDE DEF f, Lev, T, Step
<1>8. f[Q] = WritesStep(d, m, content, f, Q)
  BY <1>7
<1> QED BY <1>8 DEF f

\* x is m after the writes of the pages Q.
Wrote(d, m, x, content, Q) ==
    /\ Fits(d, x, 0)
    /\ \A p \in Nat : Pages(d, x)[p] = IF p \in Q THEN content[p] ELSE Pages(d, m)[p]
    /\ m.size <= x.size /\ \A p \in Q : p < x.size
    /\ \A n \in Nat : m.size <= n /\ (\A p \in Q : p < n) => x.size <= n
    /\ Dirty(x) = Dirty(m) \cup {ChunkOf(p) : p \in Q}
    /\ DOMAIN m.cache \subseteq DOMAIN x.cache

\* The writes of several pages: those change and no other.  By induction on the pages.
LEMMA WriteMany ==
    ASSUME NEW S, Zero \in S, NEW d \in StoredFile(S), NEW m \in OpenFile(S), Fits(d, m, 0),
           NEW P \in SUBSET Nat, IsFiniteSet(P), NEW content \in [P -> S]
    PROVE  /\ WritePages(d, m, content) \in OpenFile(S)
           /\ Wrote(d, m, WritePages(d, m, content), content, P)
<1> DEFINE f == WritesFcn(d, m, content, P)
<1>1. \A Q \in SUBSET P : f[Q] = WritesStep(d, m, content, f, Q)
  <2>1. TAKE Q \in SUBSET P
  <2> QED BY WritesFcnAt
<1> HIDE DEF f
<1> DEFINE OK(Q) == f[Q] \in OpenFile(S) /\ Wrote(d, m, f[Q], content, Q)
           F == {Q \in SUBSET P : ~OK(Q)}
<1>0. DOMAIN content = P
  OBVIOUS
<1>2. ASSUME F # {} PROVE FALSE
  <2>1. \A Q \in SUBSET P : IsFiniteSet(Q) /\ Cardinality(Q) \in Nat
    BY FS_Subset, FS_CardinalityType
  <2>2. PICK Q \in F : \A U \in F : Cardinality(Q) <= Cardinality(U)
    <3> HIDE DEF OK
    <3> QED BY <1>2, <2>1, SmallestSet
  <2>3. f[Q] = WritesStep(d, m, content, f, Q)
    BY <1>1
  <2>4. CASE Q = {}
    <3>1. f[Q] = m
      BY <2>3, <2>4 DEF WritesStep
    <3>2. m.size \in Nat
      BY DEF OpenFile
    <3>3. OK(Q)
      BY <2>4, <3>1, <3>2 DEF Wrote
    <3> QED BY <3>3
  <2>5. CASE Q # {}
    <3> DEFINE last == Max(Q)
               R == Q \ {last}
               y == f[R]
               x == f[Q]
    <3>1. last \in Q /\ \A p \in Q : p <= last
      BY <2>1, <2>5, MaxIsGreatest
    <3> HIDE DEF last
    <3>2. R \notin F
      <4>1. Cardinality(R) = Cardinality(Q) - 1
        BY <2>1, <3>1, FS_RemoveElement
      <4>2. Cardinality(Q) \in Nat
        BY <2>1
      <4> HIDE DEF F, R
      <4>3. R \in F => Cardinality(Q) <= Cardinality(R)
        BY <2>2
      <4> QED BY <4>1, <4>2, <4>3
    <3>3. y \in OpenFile(S) /\ Wrote(d, m, y, content, R)
      BY <3>2
    <3>4. x = WritePage(d, y, last, content[last])
      BY <2>3, <2>5 DEF WritesStep, last
    <3>5. last \in Nat /\ content[last] \in S
      BY <3>1
    <3> HIDE DEF R, y, x
    <3>6. x \in OpenFile(S) /\ Written(d, y, x, last, content[last])
      BY <3>3, <3>4, <3>5, WriteOne DEF Wrote
    <3>7. y.size \in Nat /\ x.size \in Nat /\ m.size \in Nat
      BY <3>3, <3>6 DEF OpenFile
    <3>8. Q = R \cup {last}
      BY <3>1 DEF R
    <3>9. Wrote(d, m, x, content, Q)
      <4>1. \A p \in Nat : Pages(d, x)[p] = IF p \in Q THEN content[p] ELSE Pages(d, m)[p]
        BY <3>3, <3>6, <3>8 DEF Wrote, Written
      <4>2. x.size = IF last < y.size THEN y.size ELSE last + 1
        BY <3>6 DEF Written
      <4>3. m.size <= x.size /\ \A p \in Q : p < x.size
        <5>1. m.size <= y.size /\ \A p \in R : p < y.size
          BY <3>3 DEF Wrote
        <5>2. \A p \in Q : p \in Nat
          OBVIOUS
        <5> QED BY <3>5, <3>7, <3>8, <4>2, <5>1, <5>2
      <4>4. ASSUME NEW n \in Nat, m.size <= n, \A p \in Q : p < n PROVE x.size <= n
        <5>1. y.size <= n
          BY <3>3, <3>8, <4>4 DEF Wrote
        <5>2. last < n
          BY <3>1, <4>4
        <5> QED BY <3>5, <3>7, <4>2, <5>1, <5>2
      <4>5. Dirty(x) = Dirty(m) \cup {ChunkOf(p) : p \in Q}
        BY <3>3, <3>6, <3>8 DEF Wrote, Written
      <4>6. DOMAIN m.cache \subseteq DOMAIN x.cache
        BY <3>3, <3>6 DEF Wrote, Written
      <4>7. Fits(d, x, 0)
        BY <3>6 DEF Written
      <4> QED BY <4>1, <4>3, <4>4, <4>5, <4>6, <4>7 DEF Wrote
    <3> QED BY <3>6, <3>9 DEF x
  <2> QED BY <2>4, <2>5
<1>3. P \notin F
  <2> HIDE DEF F
  <2> QED BY <1>2, Zenon
<1>4. OK(P)
  BY <1>3
<1> QED BY <1>0, <1>4, WritePagesDef, Zenon DEF f

-----------------------------------------------------------------------------
(* Truncation, eviction and the two steps of a flush.                      *)

\* What a truncation keeps of the dirty chunks.
LEMMA KeptIs ==
    ASSUME NEW s \in Seq(Nat), NEW n \in Nat
    PROVE  /\ Kept(s, n) \in Seq(Nat)
           /\ \A c : (\E i \in DOMAIN Kept(s, n) : Kept(s, n)[i] = c)
                     <=> c < n /\ \E i \in DOMAIN s : s[i] = c
           /\ s = <<>> => Kept(s, n) = <<>>
<1> DEFINE K == {i \in DOMAIN s : s[i] < n}
           N == Cardinality(K)
           q == [i \in 1..N |-> s[Nth(K, i)]]
<1>1. DOMAIN s = 1..Len(s) /\ Len(s) \in Nat
  OBVIOUS
<1>2. K \in SUBSET Nat /\ IsFiniteSet(K)
  <2>1. IsFiniteSet(1..Len(s))
    BY <1>1, FS_Interval
  <2> QED BY <1>1, <2>1, FS_Subset
<1>3. Kept(s, n) = q
  BY DEF Kept
<1>8. \A i \in K : i \in DOMAIN s /\ s[i] < n /\ s[i] \in Nat
  OBVIOUS
<1>9. \A i \in DOMAIN s : s[i] < n => i \in K
  OBVIOUS
<1>10. s = <<>> => K = {}
  BY <1>1
<1> HIDE DEF K
<1>4. /\ N \in Nat
      /\ \A i \in 1..N : Nth(K, i) \in K
      /\ \A k \in K : \E i \in 1..N : Nth(K, i) = k
  BY <1>2, NthIs
<1> HIDE DEF N
<1>5. q \in Seq(Nat) /\ DOMAIN q = 1..N
  BY <1>4, <1>8
<1>6. ASSUME NEW c PROVE (\E i \in DOMAIN q : q[i] = c) <=> c < n /\ \E i \in DOMAIN s : s[i] = c
  BY <1>4, <1>5, <1>8, <1>9
<1>7. s = <<>> => q = <<>>
  <2>1. s = <<>> => N = 0
    BY <1>10, FS_EmptySet DEF N
  <2> QED BY <1>5, <2>1
<1> HIDE DEF q
<1> QED BY <1>3, <1>5, <1>6, <1>7

\* Chunks are taken away.
LEMMA MapWithout ==
    ASSUME NEW S, NEW m \in ChunkMaps(S), NEW gone
    PROVE  /\ Without(m, gone) \in ChunkMaps(S)
           /\ DOMAIN Without(m, gone) = DOMAIN m \ gone
           /\ \A c \in DOMAIN m \ gone : Without(m, gone)[c] = m[c]
<1>1. DOMAIN m \ gone \in SUBSET DOMAIN m
  OBVIOUS
<1>2. [x \in DOMAIN m \ gone |-> m[x]] \in ChunkMaps(S)
  BY <1>1, MapPart
<1> QED BY <1>2 DEF Without

\* x over e is m over d, cut off at size.
CutTo(d, m, e, x, size) ==
    /\ Fits(e, x, 0)
    /\ e.meta = d.meta
    /\ x.size = IF size >= m.size THEN m.size ELSE size
    /\ \A p \in Nat : p < x.size => Pages(e, x)[p] = Pages(d, m)[p] /\ OnDisk(e)[p] = OnDisk(d)[p]
    /\ \A c \in Nat : c < ChunkCount(x.size) =>
           (c \in DOMAIN e.chunks <=> c \in DOMAIN d.chunks) /\ (c \in DOMAIN x.cache <=> c \in DOMAIN m.cache)
    /\ m.dirty = <<>> => x.dirty = <<>>

\* xTruncate, of the open file and of the stored one.
LEMMA TruncateBoth ==
    ASSUME NEW S, Zero \in S, NEW d \in StoredFile(S), NEW m \in OpenFile(S), Fits(d, m, 0),
           NEW size \in Nat
    PROVE  /\ TruncatedDisk(d, m, size) \in StoredFile(S)
           /\ Truncated(m, size) \in OpenFile(S)
           /\ CutTo(d, m, TruncatedDisk(d, m, size), Truncated(m, size), size)
<1>0. m.size \in Nat /\ m.cache \in ChunkMaps(S) /\ d.chunks \in ChunkMaps(S)
      /\ m.dirty \in Seq(Nat)
  BY DEF OpenFile, StoredFile
<1>1. CASE size >= m.size
  <2>1. TruncatedDisk(d, m, size) = d /\ Truncated(m, size) = m
    BY <1>1 DEF TruncatedDisk, Truncated
  <2>2. d.meta = d.meta /\ m.dirty = <<>> => m.dirty = <<>>
    OBVIOUS
  <2> QED BY <1>1, <2>1, <2>2, Zenon DEF CutTo
<1>2. CASE ~(size >= m.size)
  <2> DEFINE gone == CutOff(m, size)
             cache == Without(m.cache, gone)
             chunks == Without(d.chunks, gone)
             dirty == Kept(m.dirty, ChunkCount(size))
             e == TruncatedDisk(d, m, size)
             x == Truncated(m, size)
  <2>1. e = [d EXCEPT !.chunks = chunks]
    BY <1>2, Zenon DEF TruncatedDisk
  <2>2. x = [m EXCEPT !.size = size, !.metaDirty = TRUE, !.cache = cache, !.dirty = dirty]
    BY <1>2, Zenon DEF Truncated
  <2>3. ChunkCount(size) \in Nat /\ ChunkCount(m.size) \in Nat
    BY <1>0, ChunksOfSize
  <2>4. /\ cache \in ChunkMaps(S) /\ DOMAIN cache = DOMAIN m.cache \ gone
        /\ \A c \in DOMAIN m.cache \ gone : cache[c] = m.cache[c]
        /\ chunks \in ChunkMaps(S) /\ DOMAIN chunks = DOMAIN d.chunks \ gone
        /\ \A c \in DOMAIN d.chunks \ gone : chunks[c] = d.chunks[c]
    <3> HIDE DEF gone
    <3>1. ASSUME NEW u \in ChunkMaps(S)
          PROVE  /\ Without(u, gone) \in ChunkMaps(S)
                 /\ DOMAIN Without(u, gone) = DOMAIN u \ gone
                 /\ \A c \in DOMAIN u \ gone : Without(u, gone)[c] = u[c]
      BY MapWithout
    <3> HIDE DEF cache, chunks
    <3>2. /\ cache \in ChunkMaps(S) /\ DOMAIN cache = DOMAIN m.cache \ gone
          /\ \A c \in DOMAIN m.cache \ gone : cache[c] = m.cache[c]
      BY <1>0, <3>1, Zenon DEF cache
    <3>3. /\ chunks \in ChunkMaps(S) /\ DOMAIN chunks = DOMAIN d.chunks \ gone
          /\ \A c \in DOMAIN d.chunks \ gone : chunks[c] = d.chunks[c]
      BY <1>0, <3>1, Zenon DEF chunks
    <3> QED BY <3>2, <3>3
  <2>5. /\ dirty \in Seq(Nat)
        /\ \A c : (\E i \in DOMAIN dirty : dirty[i] = c)
                  <=> c < ChunkCount(size) /\ \E i \in DOMAIN m.dirty : m.dirty[i] = c
        /\ m.dirty = <<>> => dirty = <<>>
    BY <1>0, <2>3, KeptIs
  <2>6. \A c \in Nat : c < ChunkCount(size) => c \notin gone
    BY <2>3 DEF CutOff
  <2> HIDE DEF gone, cache, chunks, dirty, e, x
  <2>7. /\ e \in StoredFile(S) /\ e.chunks = chunks /\ e.meta = d.meta
    BY <2>1, <2>4 DEF StoredFile
  <2>8. /\ x \in OpenFile(S) /\ x.size = size /\ x.metaDirty /\ x.cache = cache /\ x.dirty = dirty
    BY <2>2, <2>4, <2>5 DEF OpenFile
  <2>9. Unflushed(m, 0) = Dirty(m) /\ Unflushed(x, 0) = Dirty(x)
    <3>1. DOMAIN m.dirty = 0 + 1..Len(m.dirty) /\ DOMAIN x.dirty = 0 + 1..Len(x.dirty)
      BY <1>0, <2>5, <2>8
    <3> QED BY <3>1, Zenon DEF Unflushed, Dirty
  <2>10. Fits(e, x, 0)
    <3>1. ASSUME NEW c \in DOMAIN x.cache
          PROVE  c \in Unflushed(x, 0) \/ (c \in DOMAIN e.chunks /\ e.chunks[c] = x.cache[c])
      <4>1. c \in DOMAIN m.cache /\ c \notin gone /\ x.cache[c] = m.cache[c] /\ c \in Nat
        <5>1. c \in DOMAIN m.cache /\ c \notin gone /\ x.cache[c] = m.cache[c]
          BY <2>4, <2>8, <3>1
        <5> QED BY <1>0, <5>1, MapAt
      <4>2. CASE c \in Dirty(m)
        <5>1. CASE c < ChunkCount(size)
          BY <2>5, <2>8, <2>9, <4>2, <5>1 DEF Dirty
        <5>2. CASE ~(c < ChunkCount(size))
          <6>1. c < ChunkCount(m.size)
            BY <4>2 DEF Fits, Dirty
          <6> QED BY <2>3, <4>1, <5>2, <6>1 DEF gone, CutOff
        <5> QED BY <5>1, <5>2
      <4>3. CASE c \notin Dirty(m)
        <5>1. c \in DOMAIN d.chunks /\ d.chunks[c] = m.cache[c]
          BY <2>9, <4>1, <4>3 DEF Fits
        <5> QED BY <2>4, <2>7, <4>1, <5>1
      <4> QED BY <4>2, <4>3
    <3>2. ASSUME NEW i \in DOMAIN x.dirty
          PROVE  x.dirty[i] \in DOMAIN x.cache /\ x.dirty[i] < ChunkCount(x.size)
      <4>1. \E k \in DOMAIN m.dirty : m.dirty[k] = x.dirty[i]
        BY <2>5, <2>8, <3>2
      <4>2. x.dirty[i] \in DOMAIN m.cache
        BY <4>1 DEF Fits
      <4>3. x.dirty[i] < ChunkCount(size) /\ x.dirty[i] \in Nat
        <5>1. x.dirty[i] < ChunkCount(size)
          BY <2>5, <2>8, <3>2
        <5>2. DOMAIN m.cache \subseteq Nat
          BY <1>0, MapAt
        <5> QED BY <4>2, <5>1, <5>2
      <4> QED BY <2>4, <2>6, <2>8, <4>2, <4>3
    <3> QED BY <2>8, <3>1, <3>2, Zenon DEF Fits
  <2>11. ASSUME NEW c \in Nat, c < ChunkCount(size)
         PROVE  /\ LoadChunk(e, x, c) = LoadChunk(d, m, c)
                /\ LoadChunk(e, Opened(e), c) = LoadChunk(d, Opened(d), c)
                /\ c \in DOMAIN e.chunks <=> c \in DOMAIN d.chunks
                /\ c \in DOMAIN x.cache <=> c \in DOMAIN m.cache
    <3>1. /\ c \in DOMAIN e.chunks <=> c \in DOMAIN d.chunks
          /\ c \in DOMAIN x.cache <=> c \in DOMAIN m.cache
          /\ c \in DOMAIN d.chunks => e.chunks[c] = d.chunks[c]
          /\ c \in DOMAIN m.cache => x.cache[c] = m.cache[c]
      BY <2>4, <2>6, <2>7, <2>8, <2>11
    <3>2. DOMAIN Opened(e).cache = {} /\ DOMAIN Opened(d).cache = {}
      BY <2>7, OpenedFits
    <3> QED BY <3>1, <3>2 DEF LoadChunk
  <2>12. ASSUME NEW p \in Nat, p < size
         PROVE  Pages(e, x)[p] = Pages(d, m)[p] /\ OnDisk(e)[p] = OnDisk(d)[p]
    <3>1. ChunkOf(p) \in Nat /\ ChunkOf(p) < ChunkCount(size)
      BY <2>12, PageInSlot, ChunksOfSize
    <3> QED BY <2>11, <3>1 DEF Pages, OnDisk
  <2>13. CutTo(d, m, e, x, size)
    <3>1. x.size = IF size >= m.size THEN m.size ELSE size
      BY <1>2, <2>8
    <3> QED BY <2>5, <2>7, <2>8, <2>10, <2>11, <2>12, <3>1 DEF CutTo
  <2> QED BY <2>7, <2>8, <2>13 DEF e, x
<1> QED BY <1>1, <1>2

\* What remains of a flushed file when clean chunks are evicted is as stored.
LEMMA EvictedIs ==
    ASSUME NEW S, NEW d \in StoredFile(S), NEW m \in OpenFile(S), NEW w, Fits(d, m, w),
           Unflushed(m, w) = {}, ~m.metaDirty, NEW x \in Evicted(m)
    PROVE  /\ x \in OpenFile(S) /\ Fits(d, x, 0) /\ x.dirty = <<>> /\ ~x.metaDirty
           /\ x.size = m.size /\ d.meta = m.size
           /\ Pages(d, x) = OnDisk(d) /\ Pages(d, m) = OnDisk(d)
           /\ DOMAIN m.cache \subseteq DOMAIN d.chunks
<1> DEFINE clean == [m EXCEPT !.dirty = <<>>]
<1>1. PICK K \in SUBSET DOMAIN m.cache : x = [clean EXCEPT !.cache = [c \in K |-> m.cache[c]]]
  <2>1. clean = [clean EXCEPT !.cache = [c \in DOMAIN m.cache |-> m.cache[c]]]
    <3>1. m.cache = [c \in DOMAIN m.cache |-> m.cache[c]]
      <4>1. m.cache \in ChunkMaps(S)
        BY DEF OpenFile
      <4>2. PICK C : m.cache \in [C -> [Slots -> S]]
        BY <4>1 DEF ChunkMaps
      <4> QED BY <4>2
    <3> QED BY <3>1 DEF OpenFile
  <2>2. kSubset(MaxCached, DOMAIN m.cache) \subseteq SUBSET DOMAIN m.cache
    BY DEF kSubset
  <2>3. CASE Cardinality(DOMAIN m.cache) <= MaxCached
    <3>1. x = clean
      BY <2>3 DEF Evicted
    <3> QED BY <2>1, <3>1
  <2>4. CASE ~(Cardinality(DOMAIN m.cache) <= MaxCached)
    <3>1. PICK K \in kSubset(MaxCached, DOMAIN m.cache) :
              x = [clean EXCEPT !.cache = [c \in K |-> @[c]]]
      BY <2>4, Zenon DEF Evicted
    <3>2. clean.cache = m.cache
      BY DEF OpenFile
    <3> HIDE DEF clean
    <3>3. x = [clean EXCEPT !.cache = [c \in K |-> m.cache[c]]]
      BY <3>1, <3>2, Zenon
    <3> QED BY <2>2, <3>3
  <2> QED BY <2>3, <2>4
<1> DEFINE part == [c \in K |-> m.cache[c]]
<1>2. m.cache \in ChunkMaps(S) /\ part \in ChunkMaps(S)
  <2>1. m.cache \in ChunkMaps(S)
    BY DEF OpenFile
  <2> QED BY <2>1, MapPart
<1>3. DOMAIN part = K /\ \A c \in K : part[c] = m.cache[c]
  OBVIOUS
<1> HIDE DEF part
<1>4. x = [m EXCEPT !.dirty = <<>>, !.cache = part]
  BY <1>1, Zenon DEF part
<1>5. /\ x \in OpenFile(S) /\ x.dirty = <<>> /\ x.size = m.size /\ x.cache = part
      /\ x.metaDirty = m.metaDirty
  <2> DEFINE none == <<>>
  <2>1. none \in Seq(Nat)
    OBVIOUS
  <2>2. x = [m EXCEPT !.dirty = none, !.cache = part]
    BY <1>4
  <2> HIDE DEF none
  <2>3. /\ x \in OpenFile(S) /\ x.dirty = none /\ x.size = m.size /\ x.cache = part
        /\ x.metaDirty = m.metaDirty
    BY <1>2, <2>1, <2>2 DEF OpenFile
  <2> QED BY <2>3 DEF none
<1>6. d.meta = m.size
  BY DEF Fits
<1>7. \A c \in DOMAIN m.cache : c \in DOMAIN d.chunks /\ d.chunks[c] = m.cache[c]
  BY DEF Fits
<1>8. Fits(d, x, 0)
  <2>1. \A c \in DOMAIN x.cache : c \in DOMAIN d.chunks /\ d.chunks[c] = x.cache[c]
    BY <1>3, <1>5, <1>7
  <2>2. DOMAIN x.dirty = {}
    BY <1>5
  <2> QED BY <1>5, <1>6, <2>1, <2>2 DEF Fits
<1>9. Unflushed(x, 0) = {}
  BY <1>5, CleanUnflushed
<1>10. Pages(d, x) = OnDisk(d) /\ Pages(d, m) = OnDisk(d)
  BY <1>5, <1>8, <1>9, FlushedPages
<1> QED BY <1>5, <1>6, <1>7, <1>8, <1>10

\* Files of the same chunks have the same pages.
LEMMA SameChunks ==
    ASSUME NEW S, NEW d \in StoredFile(S), NEW e \in StoredFile(S), e.chunks = d.chunks
    PROVE  OnDisk(e) = OnDisk(d)
<1>1. DOMAIN Opened(d).cache = {} /\ DOMAIN Opened(e).cache = {}
  BY OpenedFits
<1>2. \A c : LoadChunk(e, Opened(e), c) = LoadChunk(d, Opened(d), c)
  BY <1>1 DEF LoadChunk
<1> QED BY <1>2, Zenon DEF OnDisk, Pages

\* A chunk k is written to the disk as number c.
PutChunk(d, c, k) == [d EXCEPT !.chunks = [x \in DOMAIN @ \cup {c} |-> IF x = c THEN k ELSE @[x]]]

ChunkAt(S, d, c, k, e) ==
    /\ e \in StoredFile(S) /\ e.meta = d.meta /\ e.chunks = Put(d.chunks, c, k)
    /\ \A p \in Nat : OnDisk(e)[p] = IF ChunkOf(p) = c THEN k[p % PerChunk] ELSE OnDisk(d)[p]

\* writeFile of one chunk.
LEMMA ChunkStored ==
    ASSUME NEW S, NEW d \in StoredFile(S), NEW c \in Nat, NEW k \in [Slots -> S]
    PROVE  ChunkAt(S, d, c, k, PutChunk(d, c, k))
<1> DEFINE e == PutChunk(d, c, k)
           q == Put(d.chunks, c, k)
<1>1. e = [d EXCEPT !.chunks = q]
  BY Zenon DEF PutChunk, Put
<1>2. d.chunks \in ChunkMaps(S) /\ q \in ChunkMaps(S)
  <2>1. d.chunks \in ChunkMaps(S)
    BY DEF StoredFile
  <2> QED BY <2>1, MapPut
<1>3. DOMAIN q = DOMAIN d.chunks \cup {c} /\ q[c] = k
      /\ \A x \in DOMAIN d.chunks : x # c => q[x] = d.chunks[x]
  BY DEF Put
<1> HIDE DEF q, e
<1>4. e \in StoredFile(S) /\ e.meta = d.meta /\ e.chunks = q
  BY <1>1, <1>2 DEF StoredFile
<1>5. ASSUME NEW p \in Nat
      PROVE  OnDisk(e)[p] = IF ChunkOf(p) = c THEN k[p % PerChunk] ELSE OnDisk(d)[p]
  <2>1. OnDisk(e)[p] = IF ChunkOf(p) \in DOMAIN q THEN q[ChunkOf(p)][p % PerChunk] ELSE Zero
    BY <1>4, DiskPages
  <2>2. OnDisk(d)[p] = IF ChunkOf(p) \in DOMAIN d.chunks
                       THEN d.chunks[ChunkOf(p)][p % PerChunk] ELSE Zero
    BY DiskPages
  <2> QED BY <1>3, <2>1, <2>2
<1> QED BY <1>4, <1>5 DEF q, e, ChunkAt

\* One chunk of a flush.
LEMMA ChunkFlushed ==
    ASSUME NEW S, NEW d \in StoredFile(S), NEW m \in OpenFile(S), NEW w \in Nat, Fits(d, m, w),
           w < Len(m.dirty), NEW c, c = m.dirty[w + 1]
    PROVE  /\ c \in Nat /\ c \in Dirty(m)
           /\ PutChunk(d, c, m.cache[c]) \in StoredFile(S)
           /\ PutChunk(d, c, m.cache[c]).meta = d.meta
           /\ DOMAIN d.chunks \subseteq DOMAIN PutChunk(d, c, m.cache[c]).chunks
           /\ Fits(PutChunk(d, c, m.cache[c]), m, w + 1)
           /\ Pages(PutChunk(d, c, m.cache[c]), m) = Pages(d, m)
           /\ \A p \in Nat : OnDisk(PutChunk(d, c, m.cache[c]))[p] =
                  IF ChunkOf(p) = c THEN Pages(d, m)[p] ELSE OnDisk(d)[p]
<1>1. /\ m.dirty \in Seq(Nat) /\ m.cache \in ChunkMaps(S) /\ m.size \in Nat
      /\ Len(m.dirty) \in Nat /\ w + 1 \in DOMAIN m.dirty
  <2>1. m.dirty \in Seq(Nat) /\ m.cache \in ChunkMaps(S) /\ m.size \in Nat
    BY DEF OpenFile
  <2> QED BY <2>1
<1>2. c \in Nat /\ c \in DOMAIN m.cache /\ c \in Dirty(m)
  BY <1>1 DEF Fits, Dirty
<1> DEFINE k == m.cache[c]
           e == PutChunk(d, c, k)
<1>3. k \in [Slots -> S]
  BY <1>1, <1>2, MapAt
<1> HIDE DEF k
<1>4. /\ e \in StoredFile(S) /\ e.meta = d.meta /\ e.chunks = Put(d.chunks, c, k)
      /\ \A p \in Nat : OnDisk(e)[p] = IF ChunkOf(p) = c THEN k[p % PerChunk] ELSE OnDisk(d)[p]
  <2>1. ChunkAt(S, d, c, k, e)
    BY <1>2, <1>3, ChunkStored
  <2> HIDE DEF e
  <2> QED BY <2>1 DEF ChunkAt
<1> HIDE DEF e
<1>5. DOMAIN e.chunks = DOMAIN d.chunks \cup {c} /\ e.chunks[c] = k
      /\ \A x \in DOMAIN d.chunks : x # c => e.chunks[x] = d.chunks[x]
  BY <1>4 DEF Put
<1>6. ASSUME NEW x PROVE LoadChunk(e, m, x) = LoadChunk(d, m, x)
  BY <1>2, <1>5 DEF LoadChunk, k
<1>7. Pages(e, m) = Pages(d, m)
  BY <1>6, Zenon DEF Pages
<1>8. \A p \in Nat : ChunkOf(p) = c => k[p % PerChunk] = Pages(d, m)[p]
  BY <1>2 DEF Pages, LoadChunk, k
<1>9. Fits(e, m, w + 1)
  <2>1. ASSUME NEW x \in DOMAIN m.cache
        PROVE  x \in Unflushed(m, w + 1) \/ (x \in DOMAIN e.chunks /\ e.chunks[x] = m.cache[x])
    <3>1. CASE x = c
      BY <1>5, <3>1 DEF k
    <3>2. CASE x # c /\ x \in Unflushed(m, w)
      <4>1. PICK i \in w + 1..Len(m.dirty) : m.dirty[i] = x
        BY <3>2 DEF Unflushed
      <4>2. i # w + 1
        BY <3>2, <4>1
      <4>3. i \in w + 1 + 1..Len(m.dirty)
        BY <1>1, <4>2
      <4> QED BY <4>1, <4>3, Zenon DEF Unflushed
    <3>3. CASE x # c /\ x \notin Unflushed(m, w)
      BY <1>5, <3>3 DEF Fits
    <3> QED BY <3>1, <3>2, <3>3
  <2> QED BY <1>4, <2>1, Zenon DEF Fits
<1> QED BY <1>2, <1>4, <1>5, <1>7, <1>8, <1>9, Zenon DEF e, k

\* The meta file, which ends a flush.
Cleared(m) == [m EXCEPT !.dirty = <<>>, !.metaDirty = FALSE]

\* writeFile of the meta file, after all the dirty chunks.
LEMMA MetaFlushed ==
    ASSUME NEW S, NEW d \in StoredFile(S), NEW m \in OpenFile(S), NEW w, Fits(d, m, w),
           Unflushed(m, w) = {}, NEW x, x = Cleared(m)
    PROVE  /\ StoreMeta(d, m) \in StoredFile(S) /\ x \in OpenFile(S) /\ Fits(StoreMeta(d, m), x, 0)
           /\ StoreMeta(d, m).meta = m.size /\ SizeOf(StoreMeta(d, m)) = m.size
           /\ StoreMeta(d, m).chunks = d.chunks
           /\ x.size = m.size /\ x.cache = m.cache /\ x.dirty = <<>> /\ ~x.metaDirty
           /\ OnDisk(StoreMeta(d, m)) = OnDisk(d)
           /\ Pages(d, m) = OnDisk(d) /\ Pages(StoreMeta(d, m), x) = OnDisk(d)
<1> DEFINE e == StoreMeta(d, m)
<1>1. /\ e \in StoredFile(S) /\ e.meta = m.size /\ e.chunks = d.chunks
  BY DEF StoreMeta, StoredFile, OpenFile
<1>2. /\ x \in OpenFile(S) /\ x.size = m.size /\ x.cache = m.cache /\ x.dirty = <<>> /\ ~x.metaDirty
  <2> DEFINE none == <<>>
             no == FALSE
  <2>1. none \in Seq(Nat) /\ no \in BOOLEAN
    OBVIOUS
  <2>2. x = [m EXCEPT !.dirty = none, !.metaDirty = no]
    BY DEF Cleared
  <2> HIDE DEF none, no
  <2>3. x \in OpenFile(S) /\ x.size = m.size /\ x.cache = m.cache /\ x.dirty = none /\ x.metaDirty = no
    BY <2>1, <2>2 DEF OpenFile
  <2> QED BY <2>3 DEF none, no
<1>3. m.size \in Nat
  BY DEF OpenFile
<1> HIDE DEF e
<1>4. SizeOf(e) = m.size
  BY <1>1, <1>3, OpenedFits, ChunkAssumption
<1>5. OnDisk(e) = OnDisk(d)
  BY <1>1, SameChunks
<1>6. Fits(e, x, 0)
  <2>1. \A c \in DOMAIN x.cache : c \in DOMAIN e.chunks /\ e.chunks[c] = x.cache[c]
    BY <1>1, <1>2 DEF Fits
  <2>2. DOMAIN x.dirty = {}
    BY <1>2
  <2> QED BY <1>1, <1>2, <2>1, <2>2, Zenon DEF Fits
<1>7. Unflushed(x, 0) = {}
  BY <1>2, CleanUnflushed
<1>8. Pages(d, m) = OnDisk(d) /\ Pages(e, x) = OnDisk(e)
  BY <1>1, <1>2, <1>6, <1>7, FlushedPages
<1> QED BY <1>1, <1>2, <1>4, <1>5, <1>6, <1>8 DEF e

-----------------------------------------------------------------------------
(* What the files say.  A database is seen through its pages f and its     *)
(* size s; a journal, through its pages k and its size.  Recovered is the  *)
(* database that a reader finds who starts from the stored files alone:    *)
(* the records of a hot journal lie over the pages.                        *)

DbSlot(v) == [v : 0..v, n : Nat] \cup {Zero}
JHeader(v) == [nonce : 0..v, orig : Nat, n : Nat]
JRecord(v) == [nonce : 0..v, page : Nat, was : DbSlot(v)]
JSlot(v) == JHeader(v) \cup JRecord(v) \cup {Zero}
Rest == Nat \ {0}
Journal(k, v) == /\ k[0] \in JHeader(v) \cup {Zero}
                 /\ \A i \in Rest : k[i] \in JRecord(v) \cup {Zero}

Seen(f, s) == IF s = 0 THEN Empty ELSE [i \in 1..f[0].n |-> f[i - 1]]
Whole(f, s) == s # 0 => f[0].n \in 1..s /\ \A p \in 0..f[0].n - 1 : f[p] # Zero

IsHot(k, size) == size # 0 /\ k[0] # Zero
Belongs(k, size, i) == i < size /\ k[i] # Zero /\ k[i].nonce = k[0].nonce
Told(k, size) == {k[i] : i \in {i \in 1..k[0].n : \A j \in 1..i : Belongs(k, size, j)}}
Covers(R, p) == \E r \in R : r.page = p
Was(R, p) == (CHOOSE r \in R : r.page = p).was
Consistent(R) == \A r, q \in R : r.page = q.page => r.was = q.was
Overlay(f, R) == [p \in Nat |-> IF Covers(R, p) THEN Was(R, p) ELSE f[p]]

\* What is found of g, of size s, when f is read with size r.
Agree(f, r, g, s) ==
    /\ \A p \in Nat : p < s => f[p] = g[p]
    /\ s <= r /\ (s = 0 => r = 0)
    /\ Whole(g, s)

D == OnDisk(disk["db"])
DSize == SizeOf(disk["db"])
K == OnDisk(disk["journal"])
KSize == SizeOf(disk["journal"])
O == Pages(disk["db"], open["db"])
OSize == open["db"].size
J == Pages(disk["journal"], open["journal"])
JSize == open["journal"].size

Hot == IsHot(K, KSize)
Stale == Told(K, KSize)
Recovered == IF Hot THEN Overlay(D, Stale) ELSE D
RSize == IF Hot THEN K[0].orig ELSE DSize
Found == Seen(Recovered, RSize)

-----------------------------------------------------------------------------
(* The inductive invariant.                                                *)

Transaction == {"journal", "db", "commit", "undo", "undone"}
Session == {"opened", "idle", "delete", "close", "replay"} \cup Transaction
NotMigrated == disk["db"].meta = Null /\ legacy # Null

Typed ==
    /\ pc \in Stages /\ goal \in {"serve", "seed"} /\ version \in Nat /\ written \in Nat
    /\ missed \in BOOLEAN
    /\ legacy # Null => \E n \in 1..MaxPages : legacy = Image(0, n)
    /\ disk = [f \in Files |-> disk[f]] /\ open = [f \in Files |-> open[f]]
    /\ disk["db"] \in StoredFile(DbSlot(version))
    /\ disk["journal"] \in StoredFile(JSlot(version))
    /\ Journal(K, version)

\* What is stored is whole, and it is what a reader may find.
Sound ==
    /\ Hot => RSize <= DSize /\ Consistent(Stale) /\ \A r \in Stale : r.page < RSize
    /\ Whole(Recovered, RSize)
    /\ pc # "node" =>
        /\ NotMigrated => /\ old \in {Empty, legacy}
                          /\ Hot => missed
                          /\ pc \in Session => missed
        /\ Found \in Allowed \/ (NotMigrated /\ ~missed)

\* The files are open, and a flush has written w of the dirty chunks.
DbOpen(w) == open["db"] \in OpenFile(DbSlot(version)) /\ Fits(disk["db"], open["db"], w)
JournalOpen(w) == /\ open["journal"] \in OpenFile(JSlot(version))
                  /\ Fits(disk["journal"], open["journal"], w)
                  /\ Journal(J, version)

\* A reader would find the database as it is open.
Matches == Agree(Recovered, RSize, O, OSize) /\ (Hot => RSize = OSize)

\* The records that the transaction wrote tell what is in the pages.
Tells(k) == \A i \in Rest : k[i] # Zero /\ k[i].nonce = version =>
                k[i].page < OSize /\ k[i].was = O[k[i].page]

\* All the chunks of the database are there, where it was opened to seed a file.
AllThere == goal = "seed" =>
    \A c \in Nat : c < ChunkCount(OSize) => c \in DOMAIN disk["db"].chunks \cup DOMAIN open["db"].cache

AtMigrate ==
    /\ legacy # Null /\ disk["db"].meta = Null
    /\ \A c \in Nat : c < written =>
        c \in DOMAIN disk["db"].chunks /\ disk["db"].chunks[c] = Slice(legacy, c)
AtOpened == written = 0 /\ DbOpen(0) /\ open["db"] = Opened(disk["db"]) /\ AllThere
AtIdle ==
    /\ written = 0 /\ DbOpen(0) /\ open["db"].dirty = <<>> /\ Matches /\ ~Hot /\ AllThere
    /\ open["journal"] # Null => JournalOpen(0)
AtClose == DbOpen(written) /\ Matches /\ ~Hot /\ AllThere
AtDelete ==
    /\ DbOpen(0) /\ open["db"].dirty = <<>> /\ DSize = OSize /\ Matches /\ AllThere
    /\ open["journal"] = Null
    /\ disk["journal"].meta # Null /\ (written > 0 => K[0] = Zero)
AtReplay == DbOpen(written) /\ Matches /\ Hot /\ AllThere

\* The transaction has its journal, and none of its pages.
AtJournal ==
    /\ goal = "serve" /\ DbOpen(0) /\ open["db"].dirty = <<>> /\ Matches /\ Seen(O, OSize) = old
    /\ JournalOpen(written) /\ Tells(J) /\ Tells(K) /\ (Hot => K[0] = J[0])
    /\ J[0] # Zero /\ J[0].nonce = version /\ J[0].orig = OSize /\ J[0].n < JSize
    /\ \A i \in Rest : i <= J[0].n <=> J[i] # Zero /\ J[i].nonce = version
    /\ \E n \in Rest :
        /\ new \in [1..n -> DbSlot(version) \ {Zero}] /\ new[1] = [v |-> version, n |-> n]
        /\ \A p \in 0..n - 1 :
            \/ new[p + 1].v = version /\ (p >= OSize \/ \E i \in 1..J[0].n : J[i].page = p)
            \/ new[p + 1].v # version /\ p < OSize /\ new[p + 1] = O[p]

\* The journal is stored: it tells all that the pages being stored replace.
AtDb ==
    /\ goal = "serve" /\ DbOpen(written) /\ Whole(O, OSize) /\ OSize # 0 /\ Seen(O, OSize) = new
    /\ JournalOpen(0) /\ open["journal"].dirty = <<>> /\ JSize = KSize
    /\ Hot /\ K[0].nonce = version /\ Found = old /\ RSize <= OSize
    /\ \A i \in Rest : K[i] # Zero /\ K[i].nonce = version => K[i] \in Stale
    /\ \A p \in Nat : p < RSize => O[p] = D[p] \/ Covers(Stale, p)

\* The pages are stored, and the header of the journal is about to be cleared.
AtCommit ==
    /\ goal = "serve" /\ DbOpen(0) /\ open["db"].dirty = <<>> /\ ~open["db"].metaDirty
    /\ Whole(O, OSize) /\ OSize # 0 /\ Seen(O, OSize) = new
    /\ JournalOpen(written) /\ J[0] = Zero /\ Dirty(open["journal"]) \subseteq {0}

\* The transaction is undone in the pages, and the journal may still be stored in part.
AtUndo ==
    /\ goal = "serve" /\ DbOpen(written) /\ Matches /\ Seen(O, OSize) = old
    /\ JournalOpen(0) /\ Tells(J) /\ Tells(K) /\ (Hot => K[0].nonce = version)
AtUndone ==
    /\ goal = "serve" /\ DbOpen(0) /\ open["db"].dirty = <<>> /\ ~open["db"].metaDirty
    /\ Matches /\ Seen(O, OSize) = old
    /\ JournalOpen(written) /\ Tells(J) /\ Tells(K) /\ (Hot => K[0].nonce = version)
    /\ J[0] = Zero
AtSeeding == goal = "seed" =>
    /\ disk["db"].meta # Null /\ ~Hot
    /\ \A c \in Nat : c < ChunkCount(disk["db"].meta) => c \in DOMAIN disk["db"].chunks

Staged ==
    /\ pc \in {"down", "migrate", "forget", "opened"} => open["journal"] = Null
    /\ pc = "down" => written = 0
    /\ pc = "migrate" => AtMigrate
    /\ pc = "forget" => written = 0 /\ disk["db"].meta # Null
    /\ pc = "opened" => AtOpened
    /\ pc = "idle" => AtIdle
    /\ pc = "delete" => AtDelete
    /\ pc = "close" => AtClose
    /\ pc = "replay" => AtReplay
    /\ pc = "journal" => AtJournal
    /\ pc = "db" => AtDb
    /\ pc = "commit" => AtCommit
    /\ pc = "undo" => AtUndo
    /\ pc = "undone" => AtUndone
    /\ pc = "seeding" => AtSeeding

IInv == Typed /\ Sound /\ Staged

-----------------------------------------------------------------------------
(* Facts about what the files say.                                         *)

\* What the pages of a database and of a journal may be.
LEMMA Slots0 ==
    ASSUME NEW v \in Nat
    PROVE  /\ Zero \in DbSlot(v) /\ Zero \in JSlot(v)
           /\ \A x \in DbSlot(v) : x # Zero => x.v \in 0..v /\ x.n \in Nat
           /\ \A x \in JHeader(v) : x # Zero /\ x.nonce \in 0..v /\ x.orig \in Nat /\ x.n \in Nat
           /\ \A x \in JRecord(v) : x # Zero /\ x.nonce \in 0..v /\ x.page \in Nat /\ x.was \in DbSlot(v)
<1>1. /\ \A x \in DbSlot(v) : x # Zero => x.v \in 0..v /\ x.n \in Nat
      /\ \A x \in JHeader(v) : x.nonce \in 0..v /\ x.orig \in Nat /\ x.n \in Nat
      /\ \A x \in JRecord(v) : x.nonce \in 0..v /\ x.page \in Nat /\ x.was \in DbSlot(v)
  BY DEF DbSlot, JHeader, JRecord
<1>2. 0..v \subseteq Nat /\ DbSlot(v) \subseteq DbPage \cup {Zero}
  BY DEF DbSlot, DbPage
<1>3. JHeader(v) \subseteq Header /\ JRecord(v) \subseteq Record
  <2> DEFINE T == DbSlot(v)
             U == DbPage \cup {Zero}
  <2>1. T \subseteq U
    BY <1>2
  <2>2. JRecord(v) = [nonce : 0..v, page : Nat, was : T] /\ Record = [nonce : Nat, page : Nat, was : U]
    BY DEF JRecord, Record
  <2> HIDE DEF T, U
  <2>3. ASSUME NEW r \in JRecord(v) PROVE r \in Record
    <3>1. r \in [nonce : 0..v, page : Nat, was : T]
      BY <2>2
    <3>2. r = [nonce |-> r.nonce, page |-> r.page, was |-> r.was]
          /\ r.nonce \in Nat /\ r.page \in Nat /\ r.was \in U
      BY <1>2, <2>1, <3>1
    <3> QED BY <2>2, <3>2
  <2> QED BY <1>2, <2>3 DEF JHeader, Header
<1>4. Zero \notin JHeader(v) /\ Zero \notin JRecord(v)
  BY <1>3, ChunkAssumption
<1>5. Zero \in DbSlot(v) /\ Zero \in JSlot(v)
  BY DEF DbSlot, JSlot
<1> QED BY <1>1, <1>4, <1>5

\* Files whose pages are in a set are files whose pages are in a larger set.
LEMMA Widened ==
    ASSUME NEW S, NEW T, S \subseteq T
    PROVE  StoredFile(S) \subseteq StoredFile(T) /\ OpenFile(S) \subseteq OpenFile(T)
<1>1. ChunkMaps(S) \subseteq ChunkMaps(T)
  <2>1. [Slots -> S] \subseteq [Slots -> T]
    OBVIOUS
  <2>2. \A C : [C -> [Slots -> S]] \subseteq [C -> [Slots -> T]]
    BY <2>1
  <2> QED BY <2>2 DEF ChunkMaps
<1>2. \A x : x \in ChunkMaps(S) => x \in ChunkMaps(T)
  BY <1>1
<1>3. ASSUME NEW x \in StoredFile(S) PROVE x \in StoredFile(T)
  BY <1>2 DEF StoredFile
<1>4. ASSUME NEW x \in OpenFile(S) PROVE x \in OpenFile(T)
  BY <1>2 DEF OpenFile
<1> QED BY <1>3, <1>4

\* The next transaction may write what the ones before could.
LEMMA NextSlots ==
    ASSUME NEW v \in Nat
    PROVE  /\ DbSlot(v) \subseteq DbSlot(v + 1) /\ JSlot(v) \subseteq JSlot(v + 1)
           /\ JHeader(v) \subseteq JHeader(v + 1) /\ JRecord(v) \subseteq JRecord(v + 1)
<1>1. 0..v \subseteq 0..v + 1
  OBVIOUS
<1>2. DbSlot(v) \subseteq DbSlot(v + 1)
  BY <1>1 DEF DbSlot
<1>3. JHeader(v) \subseteq JHeader(v + 1)
  BY <1>1 DEF JHeader
<1>4. JRecord(v) \subseteq JRecord(v + 1)
  <2> DEFINE S == DbSlot(v)
             T == DbSlot(v + 1)
             a == 0..v
             b == 0..v + 1
  <2>1. S \subseteq T /\ a \subseteq b
    BY <1>1, <1>2
  <2>2. JRecord(v) = [nonce : a, page : Nat, was : S]
        /\ JRecord(v + 1) = [nonce : b, page : Nat, was : T]
    BY DEF JRecord
  <2> HIDE DEF S, T, a, b
  <2>3. ASSUME NEW r \in JRecord(v) PROVE r \in JRecord(v + 1)
    <3>1. r = [nonce |-> r.nonce, page |-> r.page, was |-> r.was]
          /\ r.nonce \in b /\ r.page \in Nat /\ r.was \in T
      BY <2>1, <2>2
    <3> QED BY <2>2, <3>1
  <2> QED BY <2>3
<1> QED BY <1>2, <1>3, <1>4 DEF JSlot

\* A database that is read beyond its size is read the same.
LEMMA Agreed ==
    ASSUME NEW f, NEW r \in Nat, NEW g, NEW s \in Nat, Agree(f, r, g, s)
    PROVE  Whole(f, r) /\ Seen(f, r) = Seen(g, s)
<1>1. CASE s = 0
  <2>1. r = 0
    BY <1>1 DEF Agree
  <2> QED BY <1>1, <2>1 DEF Whole, Seen
<1>2. CASE s # 0
  <2> DEFINE n == g[0].n
  <2>1. n \in 1..s /\ \A p \in 0..n - 1 : g[p] # Zero
    BY <1>2 DEF Agree, Whole
  <2>2. \A p \in 0..n - 1 : f[p] = g[p]
    <3>1. \A p \in Nat : p < s => f[p] = g[p]
      BY DEF Agree
    <3> HIDE DEF n
    <3> QED BY <2>1, <3>1
  <2>3. f[0] = g[0]
    <3> HIDE DEF n
    <3> QED BY <2>1, <2>2
  <2>4. s <= r /\ r # 0
    BY <1>2 DEF Agree
  <2>5. Whole(f, r)
    <3>1. f[0].n = n
      BY <2>3
    <3> HIDE DEF n
    <3> QED BY <2>1, <2>2, <2>4, <3>1 DEF Whole
  <2>6. [i \in 1..n |-> f[i - 1]] = [i \in 1..n |-> g[i - 1]]
    <3> HIDE DEF n
    <3>1. \A i \in 1..n : i - 1 \in 0..n - 1
      BY <2>1
    <3> QED BY <2>2, <3>1
  <2> QED BY <1>2, <2>3, <2>4, <2>5, <2>6 DEF Seen
<1> QED BY <1>1, <1>2

\* A page under the records of a journal.
LEMMA OverlayAt ==
    ASSUME NEW f, NEW R, NEW p \in Nat
    PROVE  /\ Overlay(f, R)[p] = IF Covers(R, p) THEN Was(R, p) ELSE f[p]
           /\ Covers(R, p) => \E r \in R : r.page = p /\ Was(R, p) = r.was
           /\ Consistent(R) => \A r \in R : r.page = p => Covers(R, p) /\ Was(R, p) = r.was
<1>1. Overlay(f, R)[p] = IF Covers(R, p) THEN Was(R, p) ELSE f[p]
  BY DEF Overlay
<1>2. ASSUME Covers(R, p) PROVE \E r \in R : r.page = p /\ Was(R, p) = r.was
  <2> DEFINE c == CHOOSE r \in R : r.page = p
  <2>1. c \in R /\ c.page = p
    BY <1>2 DEF Covers
  <2>2. Was(R, p) = c.was
    BY DEF Was
  <2> QED BY <2>1, <2>2
<1>3. ASSUME Consistent(R), NEW r \in R, r.page = p PROVE Covers(R, p) /\ Was(R, p) = r.was
  <2>1. Covers(R, p)
    BY <1>3 DEF Covers
  <2>2. PICK q \in R : q.page = p /\ Was(R, p) = q.was
    BY <1>2, <2>1
  <2> QED BY <1>3, <2>1, <2>2 DEF Consistent
<1> QED BY <1>1, <1>2, <1>3

\* The records that belong to the header of a journal.
LEMMA ToldIs ==
    ASSUME NEW v \in Nat, NEW k, Journal(k, v), NEW size \in Nat, k[0] # Zero
    PROVE  /\ k[0].n \in Nat /\ k[0].nonce \in 0..v /\ k[0].orig \in Nat
           /\ \A r \in Told(k, size) : \E i \in Rest :
                  r = k[i] /\ r \in JRecord(v) /\ r # Zero /\ r.nonce = k[0].nonce
                  /\ i <= k[0].n /\ i < size
           /\ \A r \in Told(k, size) : r.page \in Nat /\ r.was \in DbSlot(v)
           /\ (\A i \in Rest : i <= k[0].n => Belongs(k, size, i)) =>
                  \A i \in Rest : i <= k[0].n => k[i] \in Told(k, size)
           /\ IsFiniteSet(Told(k, size))
<1>1. k[0] \in JHeader(v)
  BY DEF Journal
<1>2. k[0].n \in Nat /\ k[0].nonce \in 0..v /\ k[0].orig \in Nat
  BY <1>1, Slots0
<1> DEFINE n == k[0].n
           I == {i \in 1..n : \A j \in 1..i : Belongs(k, size, j)}
<1>3. ASSUME NEW r \in Told(k, size)
      PROVE  \E i \in Rest : r = k[i] /\ r \in JRecord(v) /\ r # Zero /\ r.nonce = k[0].nonce
                             /\ i <= k[0].n /\ i < size
  <2>1. PICK i \in 1..n : r = k[i] /\ \A j \in 1..i : Belongs(k, size, j)
    BY DEF Told
  <2>2. i \in Rest /\ i \in 1..i /\ i <= n
    <3> HIDE DEF n
    <3> QED BY <1>2 DEF Rest, n
  <2>3. Belongs(k, size, i)
    BY <2>1, <2>2
  <2>4. k[i] \in JRecord(v) \cup {Zero}
    BY <2>2 DEF Journal
  <2> QED BY <2>1, <2>2, <2>3, <2>4 DEF Belongs
<1>4. \A r \in Told(k, size) : r.page \in Nat /\ r.was \in DbSlot(v)
  BY <1>3, Slots0
<1>5. ASSUME \A i \in Rest : i <= n => Belongs(k, size, i), NEW i \in Rest, i <= n
      PROVE  k[i] \in Told(k, size)
  <2>1. i \in 1..n /\ \A j \in 1..i : j \in Rest /\ j <= n
    <3> HIDE DEF n
    <3> QED BY <1>2, <1>5 DEF Rest, n
  <2>2. i \in I
    BY <1>5, <2>1
  <2> HIDE DEF n
  <2> QED BY <2>2 DEF Told, n
<1>6. IsFiniteSet(Told(k, size))
  <2>1. IsFiniteSet(I)
    <3>1. IsFiniteSet(1..n)
      <4>1. n \in Int /\ 1 \in Int
        BY <1>2
      <4> HIDE DEF n
      <4> QED BY <4>1, FS_Interval
    <3> QED BY <3>1, FS_Subset
  <2>2. Told(k, size) = {k[i] : i \in I}
    BY DEF Told
  <2> HIDE DEF I
  <2>3. IsFiniteSet({k[i] : i \in I})
    <3> DEFINE g == [i \in I |-> k[i]]
               F == {k[i] : i \in I}
    <3>1. g \in Surjection(I, F)
      BY DEF Surjection
    <3> HIDE DEF g, F
    <3>2. IsFiniteSet(F)
      BY <2>1, <3>1, FS_Surjection
    <3> QED BY <3>2 DEF F
  <2> QED BY <2>2, <2>3
<1> QED BY <1>2, <1>3, <1>4, <1>5, <1>6

-----------------------------------------------------------------------------
(* What SQLite reads and plays back.                                       *)

\* xRead gives the page, below the size of the file.
LEMMA ReadIs ==
    ASSUME NEW d, NEW m, NEW p \in Nat
    PROVE  ReadPage(d, m, p) = IF p < m.size THEN Pages(d, m)[p] ELSE Zero
  BY DEF ReadPage, Pages

\* What SQLite reads of a whole file is what is seen in its pages.
LEMMA ViewIs ==
    ASSUME NEW d, NEW m, m.size \in Nat, Whole(Pages(d, m), m.size)
    PROVE  View(d, m) = Seen(Pages(d, m), m.size)
<1> DEFINE f == Pages(d, m)
           s == m.size
<1>1. \A p \in Nat : ReadPage(d, m, p) = IF p < s THEN f[p] ELSE Zero
  BY ReadIs
<1>2. CASE s = 0
  BY <1>2 DEF View, Seen
<1>3. CASE s # 0
  <2> HIDE DEF f, s
  <2>1. /\ f[0].n \in 1..s /\ \A p \in 0..f[0].n - 1 : f[p] # Zero
    BY <1>3 DEF Whole, f, s
  <2> DEFINE n == f[0].n
  <2>2. s \in Nat /\ n \in 1..s
    BY <2>1 DEF s
  <2>3. ReadPage(d, m, 0) = f[0] /\ f[0] # Zero
    <3> HIDE DEF n
    <3>1. 0 \in 0..n - 1 /\ 0 < s
      BY <2>2
    <3> QED BY <1>1, <2>1, <3>1 DEF n
  <2>4. View(d, m) = [i \in 1..n |-> ReadPage(d, m, i - 1)]
    BY <1>3, <2>3 DEF View, s
  <2>5. ASSUME NEW i \in 1..n PROVE ReadPage(d, m, i - 1) = f[i - 1]
    <3> HIDE DEF n
    <3>1. i - 1 \in Nat /\ i - 1 < s
      BY <2>2
    <3> QED BY <1>1, <3>1
  <2>6. [i \in 1..n |-> ReadPage(d, m, i - 1)] = [i \in 1..n |-> f[i - 1]]
    <3> HIDE DEF n
    <3> QED BY <2>5
  <2>7. Seen(f, s) = [i \in 1..n |-> f[i - 1]]
    BY <1>3 DEF Seen
  <2> QED BY <2>4, <2>6, <2>7 DEF f, s
<1> QED BY <1>2, <1>3

\* The records that SQLite reads in a journal are those it tells.
LEMMA RecordsAre ==
    ASSUME NEW v \in Nat, NEW d, NEW m, Journal(Pages(d, m), v), m.size \in Nat, m.size # 0,
           Pages(d, m)[0] # Zero
    PROVE  /\ Records(d, m) = Told(Pages(d, m), m.size)
           /\ ReadPage(d, m, 0) = Pages(d, m)[0]
<1> DEFINE f == Pages(d, m)
           s == m.size
           h == ReadPage(d, m, 0)
           good(i) == ReadPage(d, m, i) # Zero /\ ReadPage(d, m, i).nonce = h.nonce
           A == {i \in 1..h.n : \A k \in 1..i : good(k)}
           B == {i \in 1..f[0].n : \A k \in 1..i : Belongs(f, s, k)}
<1>1. \A p \in Nat : ReadPage(d, m, p) = IF p < s THEN f[p] ELSE Zero
  BY ReadIs
<1>2. h = f[0]
  BY <1>1
<1>3. f[0].n \in Nat
  BY ToldIs
<1>4. ASSUME NEW k \in Nat PROVE good(k) <=> Belongs(f, s, k)
  BY <1>1, <1>2 DEF Belongs
<1>5. A = B
  <2>1. \A i \in 1..f[0].n : \A k \in 1..i : k \in Nat
    BY <1>3
  <2> HIDE DEF f, s, good, h
  <2> QED BY <1>2, <1>4, <2>1
<1>6. ASSUME NEW i \in B PROVE ReadPage(d, m, i) = f[i]
  <2>1. i \in Nat /\ i \in 1..i /\ Belongs(f, s, i)
    BY <1>3
  <2>2. i < s
    BY <2>1 DEF Belongs
  <2> QED BY <1>1, <2>1, <2>2
<1>7. Records(d, m) = {ReadPage(d, m, i) : i \in A}
  BY Zenon DEF Records
<1>8. Told(f, s) = {f[i] : i \in B}
  BY DEF Told
<1>9. {ReadPage(d, m, i) : i \in A} = {f[i] : i \in B}
  <2> HIDE DEF A, B, f
  <2> QED BY <1>5, <1>6
<1> QED BY <1>2, <1>7, <1>8, <1>9

\* The records R are written back, and the size orig is restored.
Restored(d, m, R) ==
    WritePages(d, m, [p \in {r.page : r \in R} |-> (CHOOSE r \in R : r.page = p).was])

\* The playback lays the records over the pages and restores the size.
LEMMA PlayedBack ==
    ASSUME NEW S, Zero \in S, NEW d \in StoredFile(S), NEW m \in OpenFile(S), NEW w \in Nat,
           Fits(d, m, w), NEW orig \in Nat, orig <= m.size, NEW R, IsFiniteSet(R), Consistent(R),
           \A r \in R : r.page \in Nat /\ r.page < orig /\ r.was \in S,
           NEW e, e = TruncatedDisk(d, Restored(d, m, R), orig),
           NEW y, y = Truncated(Restored(d, m, R), orig)
    PROVE  /\ e \in StoredFile(S) /\ y \in OpenFile(S) /\ Fits(e, y, 0)
           /\ e.meta = d.meta /\ y.size = orig
           /\ \A p \in Nat : p < orig => /\ Pages(e, y)[p] = Overlay(Pages(d, m), R)[p]
                                         /\ OnDisk(e)[p] = OnDisk(d)[p]
           /\ \A c \in Nat : c < ChunkCount(orig) /\ c \in DOMAIN d.chunks \cup DOMAIN m.cache =>
                  c \in DOMAIN e.chunks \cup DOMAIN y.cache
<1> DEFINE P == {r.page : r \in R}
           content == [p \in P |-> (CHOOSE r \in R : r.page = p).was]
           x == WritePages(d, m, content)
<1>1. P \in SUBSET Nat /\ IsFiniteSet(P)
  <2>1. P \in SUBSET Nat
    OBVIOUS
  <2> DEFINE g == [r \in R |-> r.page]
  <2>2. g \in Surjection(R, P)
    BY DEF Surjection
  <2> HIDE DEF g, P
  <2> QED BY <2>1, <2>2, FS_Surjection
<1>2. \A p \in P : content[p] = Was(R, p) /\ Covers(R, p)
  BY DEF Was, Covers
<1>3. \A p \in Nat : p \in P <=> Covers(R, p)
  BY DEF Covers
<1>4. content \in [P -> S]
  <2>1. ASSUME NEW p \in P PROVE content[p] \in S
    BY <1>1, <1>2, OverlayAt
  <2> QED BY <2>1
<1>5. Fits(d, m, 0)
  <2>1. m.dirty \in Seq(Nat)
    BY DEF OpenFile
  <2> QED BY <2>1, FitsFromStart
<1> HIDE DEF content
<1>6. x \in OpenFile(S) /\ Wrote(d, m, x, content, P)
  <2> HIDE DEF P
  <2> QED BY <1>1, <1>4, <1>5, WriteMany
<1>7. x = Restored(d, m, R)
  BY DEF Restored, content
<1> HIDE DEF x
<1>8. m.size \in Nat /\ x.size \in Nat
  BY <1>6 DEF OpenFile
<1>9. x.size = m.size
  <2>1. \A p \in P : p < m.size /\ p \in Nat
    BY <1>8
  <2> HIDE DEF P
  <2> QED BY <1>6, <1>8, <2>1 DEF Wrote
<1>10. Fits(d, x, 0)
  BY <1>6 DEF Wrote
<1>11. e \in StoredFile(S) /\ y \in OpenFile(S) /\ CutTo(d, x, e, y, orig)
  BY <1>6, <1>7, <1>10, TruncateBoth
<1>12. y.size = orig
  BY <1>8, <1>9, <1>11 DEF CutTo
<1>13. ASSUME NEW p \in Nat, p < orig
       PROVE  /\ Pages(e, y)[p] = Overlay(Pages(d, m), R)[p]
              /\ OnDisk(e)[p] = OnDisk(d)[p]
  <2>1. Pages(e, y)[p] = Pages(d, x)[p] /\ OnDisk(e)[p] = OnDisk(d)[p]
    BY <1>11, <1>12, <1>13 DEF CutTo
  <2>2. Pages(d, x)[p] = IF p \in P THEN content[p] ELSE Pages(d, m)[p]
    BY <1>6 DEF Wrote
  <2>3. Overlay(Pages(d, m), R)[p] = IF Covers(R, p) THEN Was(R, p) ELSE Pages(d, m)[p]
    BY OverlayAt
  <2> HIDE DEF P
  <2> QED BY <1>2, <1>3, <2>1, <2>2, <2>3
<1>14. ASSUME NEW c \in Nat, c < ChunkCount(orig), c \in DOMAIN d.chunks \cup DOMAIN m.cache
       PROVE  c \in DOMAIN e.chunks \cup DOMAIN y.cache
  <2>1. c \in DOMAIN d.chunks \cup DOMAIN x.cache
    BY <1>6, <1>14 DEF Wrote
  <2> QED BY <1>11, <1>12, <1>14, <2>1 DEF CutTo
<1>15. Fits(e, y, 0) /\ e.meta = d.meta
  BY <1>11 DEF CutTo
<1> QED BY <1>11, <1>12, <1>13, <1>14, <1>15

-----------------------------------------------------------------------------
(* The invariant under the steps, one lemma per action.                    *)

\* A file is replaced among the two.
LEMMA OneFile ==
    ASSUME NEW a, a = [f \in Files |-> a[f]], NEW b, NEW x,
           b = [a EXCEPT !["db"] = x] \/ b = [a EXCEPT !["journal"] = x]
    PROVE  /\ b = [f \in Files |-> b[f]]
           /\ b = [a EXCEPT !["db"] = x] => b["db"] = x /\ b["journal"] = a["journal"]
           /\ b = [a EXCEPT !["journal"] = x] => b["journal"] = x /\ b["db"] = a["db"]
<1>1. DOMAIN a = Files /\ "db" \in Files /\ "journal" \in Files
  BY DEF Files
<1>2. DOMAIN b = Files
  BY <1>1
<1>3. b = [f \in Files |-> b[f]]
  BY <1>1, <1>2
<1> QED BY <1>1, <1>3

\* A step that leaves the stored journal alone leaves what it tells.
LEMMA SameJournal ==
    ASSUME disk'["journal"] = disk["journal"]
    PROVE  K' = K /\ KSize' = KSize /\ (Hot' <=> Hot) /\ Stale' = Stale
<1>1. K' = K /\ KSize' = KSize
  BY DEF K, KSize
<1> QED BY <1>1 DEF Hot, Stale

\* A step that leaves the stored files alone leaves what a reader would find.
LEMMA SameDisk ==
    ASSUME disk' = disk
    PROVE  /\ D' = D /\ DSize' = DSize /\ K' = K /\ KSize' = KSize
           /\ (Hot' <=> Hot) /\ Stale' = Stale
           /\ Recovered' = Recovered /\ RSize' = RSize /\ Found' = Found
<1>1. D' = D /\ DSize' = DSize
  BY DEF D, DSize
<1>2. K' = K /\ KSize' = KSize /\ (Hot' <=> Hot) /\ Stale' = Stale
  BY SameJournal
<1>3. Recovered' = Recovered /\ RSize' = RSize
  <2>1. CASE Hot
    BY <1>1, <1>2, <2>1, Zenon DEF Recovered, RSize
  <2>2. CASE ~Hot
    BY <1>1, <1>2, <2>2, Zenon DEF Recovered, RSize
  <2> QED BY <2>1, <2>2
<1>4. Found' = Found
  BY <1>3 DEF Found
<1> QED BY <1>1, <1>2, <1>3, <1>4

\* Nothing is found on disk but what was, and the reader expects the same.
LEMMA SoundStays ==
    ASSUME Sound, disk' = disk, pc # "node", NotMigrated' => NotMigrated,
           NotMigrated' => legacy' = legacy /\ old' = old /\ (missed => missed'),
           pc' \in Session /\ NotMigrated' => missed',
           pc' # "node" => Found \in Allowed' \/ (NotMigrated' /\ ~missed')
    PROVE  Sound'
<1>1. /\ Hot' <=> Hot
      /\ Stale' = Stale /\ Recovered' = Recovered /\ RSize' = RSize /\ Found' = Found
      /\ DSize' = DSize
  BY SameDisk
<1>2. Hot' => RSize' <= DSize' /\ Consistent(Stale') /\ \A r \in Stale' : r.page < RSize'
  BY <1>1 DEF Sound
<1>3. Whole(Recovered', RSize')
  BY <1>1 DEF Sound
<1>4. ASSUME NotMigrated' PROVE old' \in {Empty, legacy'} /\ (Hot' => missed')
  BY <1>1, <1>4 DEF Sound
<1>5. pc' # "node" => Found' \in Allowed' \/ (NotMigrated' /\ ~missed')
  BY <1>1
<1> QED BY <1>2, <1>3, <1>4, <1>5 DEF Sound

\* The types that a step on the stage alone keeps.
LEMMA TypedStays ==
    ASSUME Typed, disk' = disk, version' = version, pc' \in Stages, goal' \in {"serve", "seed"},
           written' \in Nat, missed' \in BOOLEAN, legacy' = legacy \/ legacy' = Null,
           open' = [f \in Files |-> open'[f]]
    PROVE  Typed'
<1>1. K' = K
  BY SameDisk
<1>2. legacy' # Null => \E n \in 1..MaxPages : legacy' = Image(0, n)
  BY DEF Typed
<1>3. /\ disk' = [f \in Files |-> disk'[f]]
      /\ disk'["db"] \in StoredFile(DbSlot(version'))
      /\ disk'["journal"] \in StoredFile(JSlot(version'))
      /\ Journal(K', version')
      /\ version' \in Nat
  BY <1>1 DEF Typed
<1> QED BY <1>2, <1>3 DEF Typed

\* What the sizes are, and that nothing is found where no size was ever stored.
LEMMA Sizes ==
    ASSUME Typed, Sound
    PROVE  /\ DSize \in Nat /\ KSize \in Nat /\ RSize \in Nat
           /\ disk["db"].meta = Null => DSize = 0
           /\ disk["db"].meta # Null => DSize = disk["db"].meta
           /\ DSize = 0 => RSize = 0
           /\ RSize = 0 => Found = Empty
<1>1. /\ DSize \in Nat /\ KSize \in Nat
      /\ disk["db"].meta = Null => DSize = 0
      /\ disk["db"].meta # Null => DSize = disk["db"].meta
  BY OpenedFits DEF Typed, DSize, KSize
<1>2. RSize \in Nat
  <2>1. Hot => K[0].orig \in Nat
    BY <1>1, ToldIs DEF Typed, Hot, IsHot
  <2> QED BY <1>1, <2>1 DEF RSize
<1>3. DSize = 0 => RSize = 0
  BY <1>1, <1>2 DEF Sound, RSize
<1>4. RSize = 0 => Found = Empty
  BY DEF Found, Seen
<1> QED BY <1>1, <1>2, <1>3, <1>4

\* A database is opened at a start.
LEMMA OpenStep ==
    ASSUME Typed, Sound, Typed', OpenDatabase(goal'), disk' = disk, written' = 0,
           open["journal"] = Null,
           goal' = "seed" => StoredImage(disk["db"]) # Null
    PROVE  Staged'
<1>1. pc' = "opened" /\ open' = [open EXCEPT !["db"] = Opened(disk["db"])]
  BY DEF OpenDatabase
<1>2. open'["db"] = Opened(disk["db"]) /\ open'["journal"] = Null
  BY <1>1, OneFile DEF Typed
<1>3. DbOpen(0)' /\ open'["db"].size = SizeOf(disk["db"])
  BY <1>2, OpenedFits DEF DbOpen, Typed
<1>4. ASSUME goal' = "seed", NEW c \in Nat, c < ChunkCount(OSize') PROVE c \in DOMAIN disk["db"].chunks
  <2>1. disk["db"].meta # Null
        /\ ~\E b \in 0..ChunkCount(disk["db"].meta) - 1 : b \notin DOMAIN disk["db"].chunks
    BY <1>4 DEF StoredImage
  <2>2. OSize' = disk["db"].meta /\ OSize' \in Nat
    BY <1>3, <2>1, OpenedFits DEF OSize, Typed
  <2>3. ChunkCount(OSize') \in Nat
    BY <2>2, ChunksOfSize
  <2>4. c \in 0..ChunkCount(OSize') - 1
    BY <1>4, <2>3
  <2> QED BY <2>1, <2>2, <2>4
<1>5. AllThere'
  BY <1>4 DEF AllThere
<1>6. AtOpened'
  BY <1>2, <1>3, <1>5 DEF AtOpened
<1> QED BY <1>1, <1>2, <1>6 DEF Staged

\* The pages of the snapshot of an older version.
LEMMA LegacyPages ==
    ASSUME NEW v \in Nat, NEW n \in Nat, NEW image, image = Image(0, n), n > 0
    PROVE  /\ Len(image) = n /\ image # Empty
           /\ \A c \in Nat : Slice(image, c) \in [Slots -> DbSlot(v)]
           /\ \A p \in Nat : p < n => Slice(image, ChunkOf(p))[p % PerChunk] = image[p + 1]
           /\ \A p \in Nat : p < n => image[p + 1] # Zero /\ image[p + 1].n = n
<1> DEFINE page == [v |-> 0, n |-> n]
<1>1. image = [i \in 1..n |-> page]
  BY DEF Image
<1>2. page \in DbSlot(v) /\ page \in DbPage
  BY DEF DbSlot, DbPage
<1>3. Len(image) = n /\ \A i \in 1..n : image[i] = page
  <2> HIDE DEF page
  <2> QED BY <1>1
<1>4. page # Zero /\ page.n = n
  BY <1>2, ChunkAssumption
<1> HIDE DEF page
<1>5. image # Empty
  BY <1>3 DEF Empty
<1>6. ASSUME NEW c \in Nat PROVE Slice(image, c) \in [Slots -> DbSlot(v)]
  <2>1. ASSUME NEW s \in Slots
        PROVE  (IF c * PerChunk + s + 1 <= Len(image) THEN image[c * PerChunk + s + 1] ELSE Zero)
                   \in DbSlot(v)
    <3> DEFINE i == c * PerChunk + s + 1
    <3>1. s \in Nat /\ c * PerChunk \in Nat
      BY ChunkAssumption DEF Slots
    <3>2. i \in Nat /\ i >= 1
      BY <3>1
    <3> HIDE DEF i
    <3>3. (IF i <= Len(image) THEN image[i] ELSE Zero) \in DbSlot(v)
      BY <1>2, <1>3, <3>2, Slots0
    <3> QED BY <3>3 DEF i
  <2> QED BY <2>1 DEF Slice, Slots
<1>7. ASSUME NEW p \in Nat, p < n PROVE Slice(image, ChunkOf(p))[p % PerChunk] = image[p + 1]
  <2> DEFINE c == ChunkOf(p)
             s == p % PerChunk
  <2>1. PerChunk \in Nat /\ PerChunk > 0
    BY ChunkAssumption
  <2>2. c \in Nat /\ s \in Slots /\ p = PerChunk * c + s
    <3>1. p = PerChunk * (p \div PerChunk) + (p % PerChunk)
      BY <2>1, DivMod
    <3> QED BY <3>1, PageInSlot DEF ChunkOf
  <2> HIDE DEF c, s
  <2>3. c * PerChunk + s + 1 = p + 1
    <3>1. c * PerChunk = PerChunk * c /\ PerChunk * c \in Nat /\ s \in Nat
      BY <2>1, <2>2 DEF Slots
    <3> QED BY <2>2, <3>1
  <2>4. Slice(image, c)[s] = IF c * PerChunk + s + 1 <= Len(image)
                             THEN image[c * PerChunk + s + 1] ELSE Zero
    BY <2>2 DEF Slice, Slots
  <2>5. Slice(image, c)[s] = image[p + 1]
    BY <1>3, <1>7, <2>3, <2>4
  <2> QED BY <2>5 DEF c, s
<1>8. \A p \in Nat : p < n => p + 1 \in 1..n
  OBVIOUS
<1> QED BY <1>3, <1>4, <1>5, <1>6, <1>7, <1>8

\* A new vault, or one with a snapshot, satisfies the invariant.
LEMMA InitStep == Init => IInv
<1>1. HAVE Init
<1> DEFINE none == [c \in {} |-> Zero]
<1>2. disk = [f \in Files |-> NoFile] /\ open = [f \in Files |-> Null]
      /\ disk["db"] = NoFile /\ disk["journal"] = NoFile
  BY <1>1 DEF Init, Files
<1>3. none \in ChunkMaps(DbSlot(0)) /\ none \in ChunkMaps(JSlot(0)) /\ DOMAIN none = {}
  <2>1. \A S : none \in [{} -> [Slots -> S]]
    OBVIOUS
  <2> QED BY <2>1 DEF ChunkMaps
<1>4. NoFile.meta = Null /\ NoFile.chunks = none /\ NoFile = [meta |-> Null, chunks |-> none]
  BY DEF NoFile
<1> HIDE DEF none
<1>5. NoFile \in StoredFile(DbSlot(0)) /\ NoFile \in StoredFile(JSlot(0))
  BY <1>3, <1>4 DEF StoredFile
<1>6. version = 0 /\ pc = "down" /\ written = 0 /\ goal = "serve" /\ missed = FALSE
  BY <1>1 DEF Init
<1>7. KSize = 0 /\ DSize = 0
  BY <1>2, <1>4, <1>5, OpenedFits DEF KSize, DSize
<1>8. ~Hot /\ RSize = 0 /\ Found = Empty
  BY <1>7 DEF Hot, IsHot, RSize, Found, Seen
<1>9. Journal(K, 0)
  <2>1. \A p \in Nat : K[p] = Zero
    BY <1>2, <1>3, <1>4, <1>5, DiskPages DEF K
  <2> QED BY <2>1 DEF Journal, Rest
<1>10. legacy # Null => \E n \in 1..MaxPages : legacy = Image(0, n)
  BY <1>1 DEF Init
<1>11. Typed
  <2>1. disk = [f \in Files |-> disk[f]] /\ open = [f \in Files |-> open[f]]
    BY <1>2
  <2> QED BY <1>2, <1>5, <1>6, <1>9, <1>10, <2>1 DEF Typed, Stages, SyncStages
<1>12. Sound
  <2>1. Whole(Recovered, RSize)
    BY <1>8 DEF Whole
  <2>2. NotMigrated => old = legacy
    BY <1>1 DEF Init, NotMigrated
  <2>3. legacy = Null => old = Empty
    BY <1>1 DEF Init
  <2>4. disk["db"].meta = Null
    BY <1>2, <1>4
  <2>5. pc \notin Session
    BY <1>6 DEF Session, Transaction
  <2> QED BY <1>6, <1>8, <2>1, <2>2, <2>3, <2>4, <2>5 DEF Sound, Allowed, NotMigrated
<1>13. Staged
  <2>1. open["journal"] = Null
    BY <1>2 DEF Files
  <2> QED BY <1>6, <2>1 DEF Staged
<1> QED BY <1>11, <1>12, <1>13 DEF IInv

\* The stages of a session, and those that are not.
LEMMA StagesAre == Session \subseteq Stages /\ "down" \in Stages /\ "migrate" \in Stages
                   /\ "forget" \in Stages /\ "seeding" \in Stages /\ "node" \in Stages
                   /\ "down" \notin Session /\ "migrate" \notin Session /\ "forget" \notin Session
                   /\ "seeding" \notin Session /\ "node" \notin Session
  BY DEF Session, Transaction, Stages, SyncStages

\* A start on the chunks opens the database, or takes the snapshot over.
LEMMA StartOnChunksStep == IInv /\ StartOnChunks => IInv'
<1> SUFFICES ASSUME IInv, StartOnChunks PROVE IInv'
  OBVIOUS
<1> USE DEF IInv
<1>1. /\ pc = "down" /\ disk' = disk /\ legacy' = legacy /\ old' = old /\ new' = new
      /\ version' = version /\ missed' = missed /\ written = 0
      /\ open["journal"] = Null
  BY DEF StartOnChunks, Staged
<1>2. CASE legacy # Null /\ disk["db"].meta = Null
  <2>1. pc' = "migrate" /\ written' = 0 /\ open' = open /\ goal' = goal
    BY <1>2 DEF StartOnChunks
  <2>2. Typed'
    BY <1>1, <2>1, TypedStays, StagesAre DEF Typed
  <2>3. Sound'
    BY <1>1, <2>1, SoundStays, StagesAre DEF Sound, NotMigrated, Allowed
  <2>4. AtMigrate'
    BY <1>1, <1>2, <2>1 DEF AtMigrate
  <2>5. Staged'
    BY <1>1, <2>1, <2>4 DEF Staged
  <2> QED BY <2>2, <2>3, <2>5
<1>3. CASE ~(legacy # Null /\ disk["db"].meta = Null)
  <2>1. OpenDatabase("serve") /\ written' = written
    BY <1>3 DEF StartOnChunks
  <2>2. pc' = "opened" /\ goal' = "serve" /\ open' = [f \in Files |-> open'[f]]
    BY <2>1, OneFile DEF OpenDatabase, Typed
  <2>3. "opened" \in Session
    BY DEF Session
  <2>4. Typed'
    BY <1>1, <2>1, <2>2, <2>3, TypedStays, StagesAre DEF Typed
  <2>5. Sound'
    BY <1>1, <1>3, <2>2, SoundStays, StagesAre DEF Sound, NotMigrated, Allowed
  <2>6. Staged'
    BY <1>1, <2>1, <2>2, <2>4, OpenStep
  <2> QED BY <2>4, <2>5, <2>6
<1> QED BY <1>2, <1>3

\* A start on the desktop's file opens the chunks when all of them are there.
LEMMA StartOnNodeStep == IInv /\ StartOnNode => IInv'
<1> SUFFICES ASSUME IInv, StartOnNode PROVE IInv'
  OBVIOUS
<1> USE DEF IInv
<1>1. /\ pc = "down" /\ disk' = disk /\ legacy' = legacy /\ old' = old /\ new' = new
      /\ version' = version /\ missed' = missed /\ written = 0 /\ written' = written
      /\ open["journal"] = Null
  BY DEF StartOnNode, Staged
<1>2. CASE pc' \in {"node", "seeding"} /\ open' = open /\ (goal' = goal \/ goal' = "serve")
           /\ (pc' = "seeding" => goal' = "serve")
  <2>1. Typed'
    BY <1>1, <1>2, TypedStays, StagesAre DEF Typed
  <2>2. Sound'
    BY <1>1, <1>2, SoundStays, StagesAre DEF Sound, NotMigrated, Allowed
  <2>3. Staged'
    BY <1>2 DEF Staged, AtSeeding
  <2> QED BY <2>1, <2>2, <2>3
<1>3. CASE OpenDatabase("seed") /\ legacy = Null /\ StoredImage(disk["db"]) \notin {Null, Empty}
  <2>2. pc' = "opened" /\ goal' = "seed" /\ open' = [f \in Files |-> open'[f]]
    BY <1>3, OneFile DEF OpenDatabase, Typed
  <2>3. "opened" \in Session
    BY DEF Session
  <2>4. Typed'
    BY <1>1, <2>2, <2>3, TypedStays, StagesAre DEF Typed
  <2>5. Sound'
    BY <1>1, <1>3, <2>2, SoundStays, StagesAre DEF Sound, NotMigrated, Allowed
  <2>6. Staged'
    BY <1>1, <1>3, <2>2, <2>4, OpenStep
  <2> QED BY <2>4, <2>5, <2>6
<1>4. \/ pc' \in {"node", "seeding"} /\ open' = open /\ (goal' = goal \/ goal' = "serve")
         /\ (pc' = "seeding" => goal' = "serve")
      \/ OpenDatabase("seed") /\ legacy = Null /\ StoredImage(disk["db"]) \notin {Null, Empty}
  <2>1. CASE node # Null
    BY <2>1 DEF StartOnNode
  <2>2. CASE node = Null /\ legacy # Null
    BY <2>2 DEF StartOnNode
  <2>3. CASE node = Null /\ legacy = Null /\ StoredImage(disk["db"]) \in {Null, Empty}
    BY <2>3 DEF StartOnNode
  <2>4. CASE node = Null /\ legacy = Null /\ StoredImage(disk["db"]) \notin {Null, Empty}
    BY <2>4 DEF StartOnNode
  <2> QED BY <2>1, <2>2, <2>3, <2>4
<1> QED BY <1>2, <1>3, <1>4

\* A database that is not there yet may change as it likes.
LEMMA SoundUnborn ==
    ASSUME Typed, Sound, disk'["journal"] = disk["journal"], DSize = 0, DSize' = 0, pc # "node",
           old' = old, new' = new, legacy' = legacy, missed' = missed, pc' \notin Session,
           NotMigrated, NotMigrated'
    PROVE  Sound'
<1>1. K' = K /\ KSize' = KSize /\ (Hot' <=> Hot) /\ Stale' = Stale
  BY SameJournal
<1>2. RSize = 0 /\ Found = Empty
  BY Sizes
<1>3. RSize' = 0
  <2>1. CASE Hot
    BY <1>1, <1>2, <2>1 DEF RSize
  <2>2. CASE ~Hot
    BY <1>1, <2>2 DEF RSize
  <2> QED BY <2>1, <2>2
<1>4. Found' = Empty /\ Whole(Recovered', RSize')
  BY <1>3 DEF Found, Seen, Whole
<1>5. Hot' => RSize' <= DSize' /\ Consistent(Stale') /\ \A r \in Stale' : r.page < RSize'
  BY <1>1, <1>2, <1>3 DEF Sound
<1>6. NotMigrated' => old' \in {Empty, legacy'} /\ (Hot' => missed')
  BY <1>1 DEF Sound
<1>7. Found' \in Allowed' \/ (NotMigrated' /\ ~missed')
  BY <1>4 DEF Allowed
<1> QED BY <1>4, <1>5, <1>6, <1>7 DEF Sound

\* The migration writes a chunk: the database does not exist before its meta does.
LEMMA MigrateChunkStep == IInv /\ MigrateChunk => IInv'
<1> SUFFICES ASSUME IInv, MigrateChunk PROVE IInv'
  OBVIOUS
<1> USE DEF IInv
<1> DEFINE d == disk["db"]
           e == PutChunk(d, written, Slice(legacy, written))
<1>1. /\ pc = "migrate" /\ pc' = "migrate" /\ legacy' = legacy /\ old' = old /\ new' = new
      /\ version' = version /\ missed' = missed /\ open' = open /\ goal' = goal
      /\ written' = written + 1 /\ open["journal"] = Null
  BY DEF MigrateChunk, Staged
<1>2. disk' = [disk EXCEPT !["db"] = e]
  <2>1. disk' = [disk EXCEPT !["db"].chunks = [x \in DOMAIN @ \cup {written} |->
            IF x = written THEN Slice(legacy, written) ELSE @[x]]]
    BY DEF MigrateChunk
  <2> QED BY <2>1 DEF PutChunk
<1>3. AtMigrate /\ legacy # Null /\ d.meta = Null /\ version \in Nat /\ written \in Nat
  BY <1>1 DEF Staged, AtMigrate, Typed
<1>4. disk'["db"] = e /\ disk'["journal"] = disk["journal"] /\ disk' = [f \in Files |-> disk'[f]]
  <2> HIDE DEF e, d
  <2> QED BY <1>2, OneFile DEF Typed
<1>5. PICK n \in Nat : legacy = Image(0, n) /\ n > 0
  BY <1>3, ChunkAssumption DEF Typed
<1>6. Slice(legacy, written) \in [Slots -> DbSlot(version)]
  BY <1>3, <1>5, LegacyPages
<1>7. /\ e \in StoredFile(DbSlot(version)) /\ e.meta = Null
      /\ e.chunks = Put(d.chunks, written, Slice(legacy, written))
  <2> DEFINE S == DbSlot(version)
             k == Slice(legacy, written)
  <2>1. d \in StoredFile(S) /\ written \in Nat /\ k \in [Slots -> S] /\ d.meta = Null
    BY <1>3, <1>6 DEF Typed, AtMigrate
  <2>2. e = PutChunk(d, written, k)
    OBVIOUS
  <2> HIDE DEF d, e, S, k
  <2>3. ChunkAt(S, d, written, k, e)
    BY <2>1, <2>2, ChunkStored
  <2> QED BY <2>1, <2>3 DEF ChunkAt, S, k
<1> HIDE DEF e, d
<1>8. K' = K
  BY <1>4, SameJournal
<1>9. Typed'
  BY <1>1, <1>3, <1>4, <1>7, <1>8, StagesAre DEF Typed
<1>10. DSize = 0 /\ DSize' = 0
  BY <1>3, <1>4, <1>7, OpenedFits DEF DSize, Typed, d
<1>11. Sound'
  BY <1>1, <1>3, <1>4, <1>7, <1>10, SoundUnborn, StagesAre DEF NotMigrated, d
<1>12. AtMigrate'
  <2>1. ASSUME NEW c \in Nat, c < written'
        PROVE  c \in DOMAIN e.chunks /\ e.chunks[c] = Slice(legacy, c)
    <3>1. CASE c = written
      BY <1>7, <3>1 DEF Put
    <3>2. CASE c # written
      <4>1. c < written
        BY <1>1, <1>3, <2>1, <3>2
      <4>2. c \in DOMAIN d.chunks /\ d.chunks[c] = Slice(legacy, c)
        BY <1>3, <4>1 DEF AtMigrate, d
      <4> QED BY <1>7, <3>2, <4>2 DEF Put
    <3> QED BY <3>1, <3>2
  <2> QED BY <1>1, <1>3, <1>4, <1>7, <2>1 DEF AtMigrate
<1>13. Staged'
  BY <1>1, <1>12 DEF Staged
<1> QED BY <1>9, <1>11, <1>13

\* The migration writes the meta: from here on the chunks hold the snapshot.
LEMMA MigrateMetaStep == IInv /\ MigrateMeta => IInv'
<1> SUFFICES ASSUME IInv, MigrateMeta PROVE IInv'
  OBVIOUS
<1> USE DEF IInv
<1> DEFINE d == disk["db"]
           n == Len(legacy)
           e == [d EXCEPT !.meta = n]
<1>1. /\ pc = "migrate" /\ pc' = "forget" /\ legacy' = legacy /\ new' = new
      /\ version' = version /\ missed' = missed /\ open' = open /\ goal' = goal
      /\ written' = 0 /\ written = ChunkCount(n)
      /\ old' = (IF old = Empty THEN legacy ELSE old) /\ open["journal"] = Null
  BY DEF MigrateMeta, Staged
<1>2. disk' = [disk EXCEPT !["db"] = e]
  BY DEF MigrateMeta
<1>3. AtMigrate /\ legacy # Null /\ d.meta = Null /\ version \in Nat /\ written \in Nat
  BY <1>1 DEF Staged, AtMigrate, Typed
<1>4. disk'["db"] = e /\ disk'["journal"] = disk["journal"] /\ disk' = [f \in Files |-> disk'[f]]
  <2> HIDE DEF e, d
  <2> QED BY <1>2, OneFile DEF Typed
<1>5. n \in Nat /\ n > 0 /\ legacy = Image(0, n)
  <2>1. PICK k \in Nat : legacy = Image(0, k) /\ k > 0
    BY <1>3, ChunkAssumption DEF Typed
  <2>2. k = n
    BY <1>3, <2>1, LegacyPages
  <2> QED BY <2>1, <2>2
<1> HIDE DEF n
<1>6. /\ legacy # Empty
      /\ \A p \in Nat : p < n => Slice(legacy, ChunkOf(p))[p % PerChunk] = legacy[p + 1]
      /\ \A p \in Nat : p < n => legacy[p + 1] # Zero /\ legacy[p + 1].n = n
  BY <1>3, <1>5, LegacyPages
<1>7. e \in StoredFile(DbSlot(version)) /\ e.meta = n /\ e.chunks = d.chunks
      /\ d \in StoredFile(DbSlot(version))
  BY <1>5 DEF Typed, StoredFile
<1> HIDE DEF e, d
<1>8. K' = K /\ KSize' = KSize /\ (Hot' <=> Hot) /\ Stale' = Stale
  BY <1>4, SameJournal
<1>9. Typed'
  BY <1>1, <1>3, <1>4, <1>7, <1>8, StagesAre DEF Typed
<1>10. DSize = 0 /\ DSize' = n /\ n # Null
  BY <1>3, <1>4, <1>5, <1>7, OpenedFits, ChunkAssumption DEF DSize, d
<1>11. RSize = 0 /\ Found = Empty
  BY <1>10, Sizes
<1>12. ASSUME NEW p \in Nat, p < n PROVE D'[p] = legacy[p + 1]
  <2>1. ChunkOf(p) \in Nat /\ ChunkOf(p) < written
    BY <1>1, <1>5, <1>12, PageInSlot, ChunksOfSize
  <2>2. ChunkOf(p) \in DOMAIN d.chunks /\ d.chunks[ChunkOf(p)] = Slice(legacy, ChunkOf(p))
    BY <1>3, <2>1 DEF AtMigrate, d
  <2>3. D'[p] = d.chunks[ChunkOf(p)][p % PerChunk]
    BY <1>4, <1>7, <2>2, DiskPages DEF D
  <2> QED BY <1>6, <1>12, <2>2, <2>3
<1>13. old' = legacy
  <2>1. NotMigrated
    BY <1>3 DEF NotMigrated, d
  <2>2. old \in {Empty, legacy}
    BY <1>1, <2>1 DEF Sound
  <2> QED BY <1>1, <2>2
<1>14. ~NotMigrated'
  BY <1>4, <1>7, <1>10 DEF NotMigrated
<1>15. CASE Hot
  <2>1. missed
    BY <1>1, <1>3, <1>15 DEF Sound, NotMigrated, d
  <2>2. RSize' = 0
    BY <1>8, <1>11, <1>15 DEF RSize
  <2>3. Found' = Empty /\ Whole(Recovered', RSize')
    BY <2>2 DEF Found, Seen, Whole
  <2>4. Hot' => RSize' <= DSize' /\ Consistent(Stale') /\ \A r \in Stale' : r.page < RSize'
    BY <1>5, <1>8, <1>10, <1>11, <2>2 DEF Sound
  <2>5. Sound'
    BY <1>1, <1>14, <2>1, <2>3, <2>4 DEF Sound, Allowed
  <2> QED BY <2>5, <1>1, <1>4, <1>7, <1>9, <1>10 DEF Staged
<1>16. CASE ~Hot
  <2>1. ~Hot' /\ Recovered' = D' /\ RSize' = n
    BY <1>8, <1>10, <1>16 DEF Recovered, RSize
  <2>2. \A p \in 0..n - 1 : p \in Nat /\ p < n
    BY <1>5
  <2>3. D'[0].n = n /\ \A p \in 0..n - 1 : D'[p] # Zero
    <3>1. \A p \in Nat : p < n => D'[p] # Zero /\ D'[p].n = n
      BY <1>6, <1>12
    <3> QED BY <1>5, <2>2, <3>1
  <2>4. Whole(Recovered', RSize')
    BY <1>5, <2>1, <2>3 DEF Whole
  <2>5. Found' = legacy
    <3>1. Found' = [i \in 1..n |-> D'[i - 1]]
      BY <1>5, <2>1, <2>3 DEF Found, Seen
    <3>2. legacy = [i \in 1..n |-> legacy[i]]
      BY <1>5 DEF Image
    <3>3. \A i \in 1..n : D'[i - 1] = legacy[i]
      <4>1. \A i \in 1..n : i - 1 \in Nat /\ i - 1 < n /\ (i - 1) + 1 = i
        BY <1>5
      <4> QED BY <1>12, <4>1
    <3> QED BY <3>1, <3>2, <3>3
  <2>6. Sound'
    BY <1>13, <1>14, <2>1, <2>4, <2>5 DEF Sound, Allowed
  <2> QED BY <2>6, <1>1, <1>4, <1>7, <1>9, <1>10 DEF Staged
<1> QED BY <1>15, <1>16

\* The snapshot is removed, or that fails; the chunks do not change.
LEMMA MigrateRemovesStep == IInv /\ MigrateRemoves => IInv'
<1> SUFFICES ASSUME IInv, MigrateRemoves PROVE IInv'
  OBVIOUS
<1> USE DEF IInv
<1>1. /\ pc = "forget" /\ disk' = disk /\ old' = old /\ new' = new
      /\ version' = version /\ missed' = missed /\ written' = written
      /\ (legacy' = legacy \/ legacy' = Null) /\ OpenDatabase("serve")
  BY DEF MigrateRemoves
<1>2. written = 0 /\ disk["db"].meta # Null /\ open["journal"] = Null
  BY <1>1 DEF Staged
<1>3. pc' = "opened" /\ goal' = "serve" /\ open' = [f \in Files |-> open'[f]]
  BY <1>1, OneFile DEF OpenDatabase, Typed
<1>4. "opened" \in Session
  BY DEF Session
<1>5. Typed'
  BY <1>1, <1>2, <1>3, <1>4, TypedStays, StagesAre DEF Typed
<1>6. ~NotMigrated /\ ~NotMigrated'
  BY <1>1, <1>2 DEF NotMigrated
<1>7. Sound'
  BY <1>1, <1>6, SoundStays DEF Sound, Allowed
<1>8. Staged'
  BY <1>1, <1>2, <1>3, <1>5, OpenStep
<1> QED BY <1>5, <1>7, <1>8

\* A failing migration leaves a database that does not exist yet.
LEMMA MigrateFailsStep == IInv /\ MigrateFails => IInv'
<1> SUFFICES ASSUME IInv, MigrateFails PROVE IInv'
  OBVIOUS
<1> USE DEF IInv
<1>1. /\ pc = "migrate" /\ disk' = disk /\ old' = Empty /\ new' = new
      /\ version' = version /\ missed' = TRUE /\ written' = 0
      /\ legacy' = legacy /\ OpenDatabase("serve")
  BY DEF MigrateFails
<1>2. disk["db"].meta = Null /\ open["journal"] = Null
  BY <1>1 DEF Staged, AtMigrate
<1>3. pc' = "opened" /\ goal' = "serve" /\ open' = [f \in Files |-> open'[f]]
  BY <1>1, OneFile DEF OpenDatabase, Typed
<1>4. "opened" \in Session
  BY DEF Session
<1>5. Typed'
  BY <1>1, <1>3, <1>4, TypedStays, StagesAre DEF Typed
<1>6. Found = Empty
  BY <1>2, Sizes
<1>7. Sound'
  <2>1. /\ (Hot' <=> Hot) /\ Stale' = Stale
        /\ Recovered' = Recovered /\ RSize' = RSize /\ Found' = Found /\ DSize' = DSize
    BY <1>1, SameDisk
  <2> QED BY <1>1, <1>6, <2>1 DEF Sound, Allowed
<1>8. Staged'
  BY <1>1, <1>2, <1>3, <1>5, OpenStep
<1> QED BY <1>5, <1>7, <1>8

\* Once the desktop's file is made the chunks are of no concern.
LEMMA SeedNodeStep == IInv /\ SeedNode => IInv'
<1> SUFFICES ASSUME IInv, SeedNode PROVE IInv'
  OBVIOUS
<1> USE DEF IInv
<1>1. /\ pc = "seeding" /\ pc' = "node" /\ disk' = disk /\ old' = old /\ new' = new
      /\ version' = version /\ missed' = missed /\ written' = written /\ open' = open
      /\ goal' = goal /\ (legacy' = legacy \/ legacy' = Null)
  BY DEF SeedNode
<1>2. Typed'
  BY <1>1, TypedStays, StagesAre DEF Typed
<1>3. Sound'
  <2>1. /\ (Hot' <=> Hot) /\ Stale' = Stale
        /\ Recovered' = Recovered /\ RSize' = RSize /\ DSize' = DSize
    BY <1>1, SameDisk
  <2> QED BY <1>1, <2>1 DEF Sound
<1>4. Staged'
  BY <1>1 DEF Staged
<1> QED BY <1>2, <1>3, <1>4

\* A crash: what is stored is sound at every stage.
LEMMA CrashStep == IInv /\ Crash => IInv'
<1> SUFFICES ASSUME IInv, Crash PROVE IInv'
  OBVIOUS
<1> USE DEF IInv
<1>1. /\ pc \notin {"down", "node"} /\ pc' = "down" /\ disk' = disk /\ old' = old /\ new' = new
      /\ version' = version /\ missed' = missed /\ written' = 0 /\ open' = [f \in Files |-> Null]
      /\ goal' = goal /\ legacy' = legacy
  BY DEF Crash
<1>2. Typed'
  BY <1>1, TypedStays, StagesAre DEF Typed
<1>3. Sound'
  BY <1>1, SoundStays, StagesAre DEF Sound, NotMigrated, Allowed
<1>4. Staged'
  BY <1>1 DEF Staged, Files
<1> QED BY <1>2, <1>3, <1>4

\* The sizes of the stored files, and of what a reader would find.
LEMMA SizesTyped == Typed => DSize \in Nat /\ KSize \in Nat /\ RSize \in Nat
<1> SUFFICES ASSUME Typed PROVE DSize \in Nat /\ KSize \in Nat /\ RSize \in Nat
  OBVIOUS
<1>1. DSize \in Nat /\ KSize \in Nat
  BY OpenedFits DEF Typed, DSize, KSize
<1>2. Hot => K[0].orig \in Nat
  BY <1>1, ToldIs DEF Typed, Hot, IsHot
<1> QED BY <1>1, <1>2 DEF RSize

\* When a reader would find the database as it is open, that is what is found.
LEMMA MatchesFinds ==
    Typed /\ Matches /\ OSize \in Nat => Whole(Recovered, RSize) /\ Found = Seen(O, OSize)
<1> SUFFICES ASSUME Typed, Matches, OSize \in Nat
             PROVE  Whole(Recovered, RSize) /\ Found = Seen(O, OSize)
  OBVIOUS
<1>1. RSize \in Nat
  BY SizesTyped
<1> QED BY <1>1, Agreed DEF Matches, Found

\* The same after a step.
LEMMA MatchesFindsNext ==
    ASSUME Typed', Matches', OSize' \in Nat
    PROVE  Whole(Recovered', RSize') /\ Found' = Seen(O', OSize')
<1>1. (Typed /\ Matches /\ OSize \in Nat => Whole(Recovered, RSize) /\ Found = Seen(O, OSize))'
  BY MatchesFinds, PTL
<1> QED BY <1>1

\* In a session, a step that leaves a reader what is open, and what is open as it was read.
LEMMA SessionSound ==
    ASSUME Typed, Sound, Matches, OSize \in Nat, pc \in Session, pc' \in Session,
           Typed', Matches', OSize' \in Nat, Seen(O', OSize') = Seen(O, OSize),
           Hot' => RSize' <= DSize' /\ Consistent(Stale') /\ \A r \in Stale' : r.page < RSize',
           NotMigrated' => NotMigrated,
           legacy' = legacy, old' = old, new' = new, missed' = missed
    PROVE  Sound'
<1>1. Found = Seen(O, OSize) /\ Found' = Seen(O', OSize') /\ Whole(Recovered', RSize')
  BY MatchesFinds, MatchesFindsNext
<1>2. pc # "node" /\ Allowed' = Allowed
  BY StagesAre DEF Allowed
<1>3. NotMigrated => old \in {Empty, legacy} /\ missed
  BY <1>2 DEF Sound
<1>4. Found \in Allowed
  BY <1>2, <1>3 DEF Sound
<1> QED BY <1>1, <1>2, <1>3, <1>4 DEF Sound

\* The disk is rewritten where the journal covers it, or beyond what is read.
LEMMA Rewritten ==
    ASSUME Typed, Sound, disk'["journal"] = disk["journal"], DSize' \in Nat,
           IF Hot THEN RSize <= DSize' ELSE DSize' = DSize,
           \A p \in Nat : p < RSize => D'[p] = D[p] \/ (Hot /\ Covers(Stale, p))
    PROVE  /\ RSize' = RSize /\ Found' = Found /\ Whole(Recovered', RSize')
           /\ Hot' => RSize' <= DSize' /\ Consistent(Stale') /\ \A r \in Stale' : r.page < RSize'
           /\ \A p \in Nat : p < RSize => Recovered'[p] = Recovered[p]
<1>1. K' = K /\ KSize' = KSize /\ (Hot' <=> Hot) /\ Stale' = Stale
  BY SameJournal
<1>2. RSize' = RSize
  <2>1. CASE Hot
    BY <1>1, <2>1 DEF RSize
  <2>2. CASE ~Hot
    BY <1>1, <2>2 DEF RSize
  <2> QED BY <2>1, <2>2
<1>3. ASSUME NEW p \in Nat, p < RSize PROVE Recovered'[p] = Recovered[p]
  <2>1. CASE Hot
    <3>1. Recovered' = Overlay(D', Stale) /\ Recovered = Overlay(D, Stale)
      BY <1>1, <2>1 DEF Recovered
    <3>2. /\ Overlay(D', Stale)[p] = IF Covers(Stale, p) THEN Was(Stale, p) ELSE D'[p]
          /\ Overlay(D, Stale)[p] = IF Covers(Stale, p) THEN Was(Stale, p) ELSE D[p]
      BY OverlayAt
    <3>3. D'[p] = D[p] \/ Covers(Stale, p)
      BY <1>3
    <3> QED BY <3>1, <3>2, <3>3
  <2>2. CASE ~Hot
    <3>1. Recovered' = D' /\ Recovered = D
      BY <1>1, <2>2 DEF Recovered
    <3> QED BY <1>3, <2>2, <3>1
  <2> QED BY <2>1, <2>2
<1>4. RSize \in Nat
  BY SizesTyped
<1>5. Agree(Recovered', RSize, Recovered, RSize)
  BY <1>3, <1>4 DEF Agree, Sound
<1>6. Whole(Recovered', RSize) /\ Seen(Recovered', RSize) = Seen(Recovered, RSize)
  BY <1>4, <1>5, Agreed
<1>7. Hot' => RSize' <= DSize' /\ Consistent(Stale') /\ \A r \in Stale' : r.page < RSize'
  BY <1>1, <1>2 DEF Sound
<1> QED BY <1>2, <1>3, <1>6, <1>7 DEF Found

\* One chunk of the database is flushed.
LEMMA DbChunk ==
    ASSUME Typed, DbOpen(written), FlushChunk, Flushed = "db"
    PROVE  /\ Typed' /\ DbOpen(written)' /\ disk'["journal"] = disk["journal"] /\ O' = O
           /\ OSize' = OSize /\ OSize \in Nat /\ DSize' = DSize
           /\ \A p \in Nat : D'[p] \in {D[p], O[p]}
           /\ disk'["db"].meta = disk["db"].meta
           /\ AllThere => AllThere'
<1> DEFINE d == disk["db"]
           m == open["db"]
           c == m.dirty[written + 1]
           e == PutChunk(d, c, m.cache[c])
<1>1. /\ written < Len(m.dirty) /\ written' = written + 1 /\ open' = open
      /\ pc' = pc /\ goal' = goal /\ legacy' = legacy /\ version' = version /\ missed' = missed
  BY DEF FlushChunk, ChunksLeft
<1>2. disk' = [disk EXCEPT !["db"] = e]
  <2>1. disk' = [disk EXCEPT !["db"].chunks =
            [x \in DOMAIN @ \cup {c} |-> IF x = c THEN m.cache[c] ELSE @[x]]]
    BY DEF FlushChunk
  <2> QED BY <2>1 DEF PutChunk
<1>3. /\ d \in StoredFile(DbSlot(version)) /\ m \in OpenFile(DbSlot(version))
      /\ Fits(d, m, written) /\ written \in Nat /\ version \in Nat
  BY DEF Typed, DbOpen
<1>0. c = m.dirty[written + 1]
  OBVIOUS
<1> HIDE DEF c, d, m
<1>4. /\ e \in StoredFile(DbSlot(version)) /\ e.meta = d.meta
      /\ DOMAIN d.chunks \subseteq DOMAIN e.chunks
      /\ Fits(e, m, written + 1) /\ Pages(e, m) = Pages(d, m)
      /\ \A p \in Nat : OnDisk(e)[p] = IF ChunkOf(p) = c THEN Pages(d, m)[p] ELSE OnDisk(d)[p]
  <2> DEFINE S == DbSlot(version)
             w == written
  <2>1. /\ e = PutChunk(d, c, m.cache[c]) /\ c = m.dirty[w + 1] /\ w \in Nat /\ w < Len(m.dirty)
        /\ d \in StoredFile(S) /\ m \in OpenFile(S) /\ Fits(d, m, w)
    BY <1>0, <1>1, <1>3 DEF m
  <2> HIDE DEF e, S, w
  <2>2. /\ c \in Dirty(m) /\ e \in StoredFile(S) /\ e.meta = d.meta
        /\ DOMAIN d.chunks \subseteq DOMAIN e.chunks
        /\ Fits(e, m, w + 1) /\ Pages(e, m) = Pages(d, m)
        /\ \A p \in Nat : OnDisk(e)[p] = IF ChunkOf(p) = c THEN Pages(d, m)[p] ELSE OnDisk(d)[p]
    BY <2>1, ChunkFlushed
  <2> QED BY <2>2 DEF S, w
<1> HIDE DEF e
<1>5. disk'["db"] = e /\ disk'["journal"] = disk["journal"] /\ disk' = [f \in Files |-> disk'[f]]
  <2>1. disk = [f \in Files |-> disk[f]]
    BY DEF Typed
  <2>2. DOMAIN disk = Files /\ "db" \in Files /\ "journal" \in Files
    BY <2>1 DEF Files
  <2> QED BY <1>2, <2>2
<1>6. K' = K
  BY <1>5, SameJournal
<1>7. Typed'
  BY <1>1, <1>3, <1>4, <1>5, <1>6 DEF Typed
<1> USE DEF d, m
<1>8. O' = O /\ OSize' = OSize /\ OSize \in Nat
  BY <1>1, <1>3, <1>4, <1>5 DEF O, OSize, OpenFile
<1>9. DSize' = DSize
  BY <1>4, <1>5, Zenon DEF DSize, SizeOf, Opened, d
<1>10. \A p \in Nat : D'[p] \in {D[p], O[p]}
  BY <1>4, <1>5 DEF D, O
<1>11. DbOpen(written)'
  BY <1>1, <1>3, <1>4, <1>5 DEF DbOpen
<1>12. AllThere => AllThere'
  BY <1>1, <1>4, <1>5, <1>8 DEF AllThere
<1> QED BY <1>4, <1>5, <1>7, <1>8, <1>9, <1>10, <1>11, <1>12

\* A chunk of the database does not change what a reader would find.
LEMMA DbChunkMatches ==
    ASSUME Typed, Sound, Matches, DbOpen(written), FlushChunk, Flushed = "db", pc \in Session
    PROVE  Matches' /\ Sound' /\ (Hot' <=> Hot)
<1>1. /\ Typed' /\ DbOpen(written)' /\ disk'["journal"] = disk["journal"] /\ O' = O
      /\ OSize' = OSize /\ OSize \in Nat /\ DSize' = DSize
      /\ \A p \in Nat : D'[p] \in {D[p], O[p]}
      /\ disk'["db"].meta = disk["db"].meta
  BY DbChunk
<1>2. K' = K /\ KSize' = KSize /\ (Hot' <=> Hot) /\ Stale' = Stale
  BY <1>1, SameJournal
<1>3. RSize' = RSize
  <2>1. CASE Hot
    BY <1>2, <2>1 DEF RSize
  <2>2. CASE ~Hot
    BY <1>1, <1>2, <2>2 DEF RSize
  <2> QED BY <2>1, <2>2
<1>4. ASSUME NEW p \in Nat, p < OSize PROVE Recovered'[p] = O[p]
  <2>0. Recovered[p] = O[p]
    BY <1>4 DEF Matches, Agree
  <2>1. CASE Hot
    <3>1. Recovered' = Overlay(D', Stale) /\ Recovered = Overlay(D, Stale)
      BY <1>2, <2>1 DEF Recovered
    <3>2. /\ Overlay(D', Stale)[p] = IF Covers(Stale, p) THEN Was(Stale, p) ELSE D'[p]
          /\ Overlay(D, Stale)[p] = IF Covers(Stale, p) THEN Was(Stale, p) ELSE D[p]
      BY OverlayAt
    <3> QED BY <1>1, <2>0, <3>1, <3>2
  <2>2. CASE ~Hot
    <3>1. Recovered' = D' /\ Recovered = D
      BY <1>2, <2>2 DEF Recovered
    <3> QED BY <1>1, <2>0, <3>1
  <2> QED BY <2>1, <2>2
<1>5. Matches'
  BY <1>1, <1>2, <1>3, <1>4 DEF Matches, Agree
<1>6. Hot' => RSize' <= DSize' /\ Consistent(Stale') /\ \A r \in Stale' : r.page < RSize'
  BY <1>1, <1>2, <1>3 DEF Sound
<1>7. pc' = pc /\ legacy' = legacy /\ old' = old /\ new' = new /\ missed' = missed
  BY DEF FlushChunk
<1>8. NotMigrated' => NotMigrated
  BY <1>1, <1>7 DEF NotMigrated
<1>9. Sound'
  BY <1>1, <1>5, <1>6, <1>7, <1>8, SessionSound
<1> QED BY <1>2, <1>5, <1>9

\* A step that leaves the files of the journal alone leaves its pages.
LEMMA SameJournalOpen ==
    ASSUME disk'["journal"] = disk["journal"], open'["journal"] = open["journal"],
           version' = version
    PROVE  /\ J' = J /\ JSize' = JSize
           /\ JournalOpen(0) => JournalOpen(0)'
  BY DEF J, JSize, JournalOpen

\* A step that leaves the files of the database alone leaves its pages.
LEMMA SameDbOpen ==
    ASSUME disk'["db"] = disk["db"], open'["db"] = open["db"], version' = version, goal' = goal
    PROVE  /\ D' = D /\ DSize' = DSize /\ O' = O /\ OSize' = OSize
           /\ DbOpen(0) => DbOpen(0)'
           /\ AllThere => AllThere'
  BY DEF D, DSize, O, OSize, DbOpen, AllThere

\* The stages at which the database is flushed, and those of the journal.
LEMMA FlushedFile ==
    /\ pc \in {"journal", "commit", "undone"} => Flushed = "journal"
    /\ pc \in {"db", "undo", "replay", "close"} => Flushed = "db"
    /\ Flushing <=> pc \in {"journal", "db", "commit", "undo", "undone", "replay", "close"}
  BY DEF Flushed, Flushing, SyncStages

\* A flush of the database writes a chunk, at each stage that flushes it.
LEMMA DbChunkStep ==
    ASSUME IInv, FlushChunk, pc \in {"db", "undo", "replay", "close"}
    PROVE  IInv'
<1>1. Typed /\ Sound /\ Flushed = "db" /\ pc' = pc /\ pc \in Session
  BY FlushedFile DEF IInv, FlushChunk, Session, Transaction
<1>2. DbOpen(written)
  BY DEF IInv, Staged, AtDb, AtUndo, AtReplay, AtClose
<1>3. /\ Typed' /\ DbOpen(written)' /\ disk'["journal"] = disk["journal"] /\ O' = O
      /\ OSize' = OSize /\ OSize \in Nat /\ DSize' = DSize
      /\ \A p \in Nat : D'[p] \in {D[p], O[p]}
      /\ disk'["db"].meta = disk["db"].meta
      /\ AllThere => AllThere'
  BY <1>1, <1>2, DbChunk
<1>4. /\ goal' = goal /\ open' = open /\ version' = version /\ old' = old /\ new' = new
      /\ legacy' = legacy /\ missed' = missed
  BY DEF FlushChunk
<1>5. K' = K /\ KSize' = KSize /\ (Hot' <=> Hot) /\ Stale' = Stale
  BY <1>3, SameJournal
<1>6. J' = J /\ JSize' = JSize /\ (JournalOpen(0) => JournalOpen(0)')
  BY <1>3, <1>4, SameJournalOpen
<1>7. CASE pc = "db"
  <2>1. AtDb
    BY <1>7 DEF IInv, Staged
  <2>2. \A p \in Nat : p < RSize => D'[p] = D[p] \/ (Hot /\ Covers(Stale, p))
    BY <1>3, <2>1 DEF AtDb
  <2>3. RSize <= DSize'
    BY <1>1, <1>3, <2>1 DEF AtDb, Sound
  <2>4. Hot
    BY <2>1 DEF AtDb
  <2>5. DSize' \in Nat
    BY <1>1, <1>3, SizesTyped
  <2>6. /\ RSize' = RSize /\ Found' = Found /\ Whole(Recovered', RSize')
        /\ Hot' => RSize' <= DSize' /\ Consistent(Stale') /\ \A r \in Stale' : r.page < RSize'
    BY <1>1, <1>3, <2>2, <2>3, <2>4, <2>5, Rewritten
  <2>7. Sound'
    <3>1. Allowed' = Allowed /\ (NotMigrated' <=> NotMigrated)
      BY <1>3, <1>4 DEF Allowed, NotMigrated
    <3> QED BY <1>1, <1>4, <1>5, <2>6, <3>1 DEF Sound
  <2>8. AtDb'
    <3>1. \A p \in Nat : p < RSize' => O'[p] = D'[p] \/ Covers(Stale', p)
      BY <1>3, <1>5, <2>1, <2>6 DEF AtDb
    <3> QED BY <1>3, <1>4, <1>5, <1>6, <2>1, <2>6, <3>1 DEF AtDb
  <2> QED BY <1>1, <1>3, <1>7, <2>7, <2>8 DEF IInv, Staged
<1>8. CASE pc # "db"
  <2>1. Matches
    BY <1>8 DEF IInv, Staged, AtUndo, AtReplay, AtClose
  <2>2. Matches' /\ Sound' /\ (Hot' <=> Hot)
    BY <1>1, <1>2, <2>1, DbChunkMatches
  <2>3. CASE pc = "undo"
    <3>1. AtUndo
      BY <2>3 DEF IInv, Staged
    <3>2. AtUndo'
      BY <1>3, <1>4, <1>5, <1>6, <2>2, <3>1 DEF AtUndo, Tells
    <3> QED BY <1>1, <1>3, <2>2, <2>3, <3>2 DEF IInv, Staged
  <2>4. CASE pc = "replay"
    BY <1>1, <1>3, <2>2, <2>4 DEF IInv, Staged, AtReplay
  <2>5. CASE pc = "close"
    BY <1>1, <1>3, <2>2, <2>5 DEF IInv, Staged, AtClose
  <2> QED BY <1>8, <2>3, <2>4, <2>5
<1> QED BY <1>7, <1>8

\* One chunk of the journal is flushed.
LEMMA JournalChunk ==
    ASSUME Typed, JournalOpen(written), FlushChunk, Flushed = "journal"
    PROVE  /\ Typed' /\ JournalOpen(written)' /\ disk'["db"] = disk["db"] /\ J' = J
           /\ JSize' = JSize /\ JSize \in Nat /\ KSize' = KSize /\ KSize \in Nat
           /\ Journal(K', version)
           /\ \E c \in Dirty(open["journal"]) :
                  \A p \in Nat : K'[p] = IF ChunkOf(p) = c THEN J[p] ELSE K[p]
<1> DEFINE d == disk["journal"]
           m == open["journal"]
           c == m.dirty[written + 1]
           e == PutChunk(d, c, m.cache[c])
<1>1. /\ written < Len(m.dirty) /\ written' = written + 1 /\ open' = open
      /\ pc' = pc /\ goal' = goal /\ legacy' = legacy /\ version' = version /\ missed' = missed
  BY DEF FlushChunk, ChunksLeft
<1>2. disk' = [disk EXCEPT !["journal"] = e]
  <2>1. disk' = [disk EXCEPT !["journal"].chunks =
            [x \in DOMAIN @ \cup {c} |-> IF x = c THEN m.cache[c] ELSE @[x]]]
    BY DEF FlushChunk
  <2> QED BY <2>1 DEF PutChunk
<1>3. /\ d \in StoredFile(JSlot(version)) /\ m \in OpenFile(JSlot(version))
      /\ Fits(d, m, written) /\ written \in Nat /\ version \in Nat
      /\ Journal(J, version) /\ Journal(K, version)
  BY DEF Typed, JournalOpen
<1>0. c = m.dirty[written + 1]
  OBVIOUS
<1> HIDE DEF c, d, m
<1>4. /\ e \in StoredFile(JSlot(version)) /\ e.meta = d.meta
      /\ c \in Dirty(m)
      /\ Fits(e, m, written + 1) /\ Pages(e, m) = Pages(d, m)
      /\ \A p \in Nat : OnDisk(e)[p] = IF ChunkOf(p) = c THEN Pages(d, m)[p] ELSE OnDisk(d)[p]
  <2> DEFINE S == JSlot(version)
             w == written
  <2>1. /\ e = PutChunk(d, c, m.cache[c]) /\ c = m.dirty[w + 1] /\ w \in Nat /\ w < Len(m.dirty)
        /\ d \in StoredFile(S) /\ m \in OpenFile(S) /\ Fits(d, m, w)
    BY <1>0, <1>1, <1>3 DEF m
  <2> HIDE DEF e, S, w
  <2>2. /\ c \in Dirty(m) /\ e \in StoredFile(S) /\ e.meta = d.meta
        /\ DOMAIN d.chunks \subseteq DOMAIN e.chunks
        /\ Fits(e, m, w + 1) /\ Pages(e, m) = Pages(d, m)
        /\ \A p \in Nat : OnDisk(e)[p] = IF ChunkOf(p) = c THEN Pages(d, m)[p] ELSE OnDisk(d)[p]
    BY <2>1, ChunkFlushed
  <2> QED BY <2>2 DEF S, w
<1> HIDE DEF e
<1>5. disk'["journal"] = e /\ disk'["db"] = disk["db"] /\ disk' = [f \in Files |-> disk'[f]]
  <2>1. disk = [f \in Files |-> disk[f]]
    BY DEF Typed
  <2>2. DOMAIN disk = Files /\ "db" \in Files /\ "journal" \in Files
    BY <2>1 DEF Files
  <2> QED BY <1>2, <2>2
<1> USE DEF d, m
<1>6. \A p \in Nat : K'[p] = IF ChunkOf(p) = c THEN J[p] ELSE K[p]
  BY <1>4, <1>5 DEF K, J
<1>7. Journal(K', version)
  BY <1>3, <1>6 DEF Journal, Rest
<1>8. Typed'
  BY <1>1, <1>3, <1>4, <1>5, <1>7 DEF Typed
<1>9. J' = J /\ JSize' = JSize /\ JSize \in Nat
  BY <1>1, <1>3, <1>4, <1>5 DEF J, JSize, OpenFile
<1>10. KSize' = KSize /\ KSize \in Nat
  <2>1. KSize' = KSize
    BY <1>4, <1>5, Zenon DEF KSize, SizeOf, Opened, d
  <2> QED BY <2>1, SizesTyped
<1>11. JournalOpen(written)'
  BY <1>1, <1>3, <1>4, <1>5, <1>9 DEF JournalOpen
<1> QED BY <1>4, <1>5, <1>6, <1>7, <1>8, <1>9, <1>10, <1>11

\* Records that tell the pages of f lie over f unseen.
LEMMA TellsAgree ==
    ASSUME NEW v \in Nat, NEW k, Journal(k, v), NEW size \in Nat, IsHot(k, size), k[0].nonce = v,
           NEW f, NEW s \in Nat,
           \A i \in Rest : k[i] # Zero /\ k[i].nonce = v => k[i].page < s /\ k[i].was = f[k[i].page]
    PROVE  /\ Consistent(Told(k, size))
           /\ \A r \in Told(k, size) : r.page < s /\ r.page \in Nat
           /\ \A p \in Nat : Overlay(f, Told(k, size))[p] = f[p]
<1> DEFINE R == Told(k, size)
<1>1. k[0] # Zero
  BY DEF IsHot
<1>2. ASSUME NEW r \in R PROVE r.page < s /\ r.page \in Nat /\ r.was = f[r.page]
  <2>1. PICK i \in Rest : r = k[i] /\ r # Zero /\ r.nonce = k[0].nonce
    BY <1>1, ToldIs
  <2>2. r.page \in Nat
    BY <1>1, ToldIs
  <2> QED BY <2>1, <2>2
<1> HIDE DEF R
<1>3. Consistent(R)
  BY <1>2 DEF Consistent
<1>4. ASSUME NEW p \in Nat PROVE Overlay(f, R)[p] = f[p]
  <2>1. CASE Covers(R, p)
    <3>1. PICK r \in R : r.page = p /\ Was(R, p) = r.was
      BY <2>1, OverlayAt
    <3> QED BY <1>2, <2>1, <3>1, OverlayAt
  <2>2. CASE ~Covers(R, p)
    BY <2>2, OverlayAt
  <2> QED BY <2>1, <2>2
<1> QED BY <1>2, <1>3, <1>4 DEF R

\* The database is as stored when it has nothing dirty.
LEMMA CleanIsStored ==
    ASSUME Typed, DbOpen(0), open["db"].dirty = <<>>
    PROVE  O = D /\ OSize \in Nat /\ (~open["db"].metaDirty => DSize = OSize /\ disk["db"].meta # Null)
<1>1. /\ disk["db"] \in StoredFile(DbSlot(version)) /\ open["db"] \in OpenFile(DbSlot(version))
      /\ Fits(disk["db"], open["db"], 0)
  BY DEF Typed, DbOpen
<1>2. Unflushed(open["db"], 0) = {}
  BY CleanUnflushed
<1>3. O = D
  BY <1>1, <1>2, FlushedPages DEF O, D
<1>4. OSize \in Nat
  BY <1>1 DEF OSize, OpenFile
<1>5. ASSUME ~open["db"].metaDirty PROVE DSize = OSize /\ disk["db"].meta # Null
  <2>1. disk["db"].meta = OSize
    BY <1>1, <1>5 DEF Fits, OSize
  <2>2. disk["db"].meta # Null
    BY <1>4, <2>1, ChunkAssumption
  <2> QED BY <1>1, <2>1, <2>2, OpenedFits DEF DSize
<1> QED BY <1>3, <1>4, <1>5

\* The journal changes on disk, and what it tells is what is open.
LEMMA JournalRewritten ==
    ASSUME Typed, Sound, Matches, OSize \in Nat, O = D, pc \in Session, pc' \in Session,
           Typed', disk'["db"] = disk["db"], open'["db"] = open["db"], version' = version,
           goal' = goal, Hot' => K'[0].nonce = version /\ K'[0].orig = OSize,
           \A i \in Rest : K'[i] # Zero /\ K'[i].nonce = version =>
               K'[i].page < OSize /\ K'[i].was = O[K'[i].page],
           ~Hot' => OSize <= DSize /\ (OSize = 0 => DSize = 0),
           legacy' = legacy, old' = old, new' = new, missed' = missed
    PROVE  Matches' /\ Sound'
<1>1. D' = D /\ DSize' = DSize /\ O' = O /\ OSize' = OSize
  BY SameDbOpen
<1>2. Whole(O, OSize)
  BY DEF Matches, Agree
<1>3. OSize <= DSize
  <2>1. CASE Hot
    BY <2>1 DEF Matches, Sound
  <2>2. CASE ~Hot
    BY <2>2 DEF Matches, Agree, RSize
  <2> QED BY <2>1, <2>2
<1>4. CASE Hot'
  <2>1. IsHot(K', KSize') /\ KSize' \in Nat /\ version \in Nat /\ Journal(K', version)
    <3>1. (Typed => KSize \in Nat)'
      BY SizesTyped, PTL
    <3> QED BY <1>4, <3>1 DEF Typed, Hot
  <2> DEFINE k == K'
             size == KSize'
  <2>2. /\ Consistent(Told(k, size))
        /\ \A r \in Told(k, size) : r.page < OSize /\ r.page \in Nat
        /\ \A p \in Nat : Overlay(O, Told(k, size))[p] = O[p]
    <3>1. \A i \in Rest : k[i] # Zero /\ k[i].nonce = version => k[i].page < OSize /\ k[i].was = O[k[i].page]
      OBVIOUS
    <3>2. k[0].nonce = version
      BY <1>4
    <3>3. IsHot(k, size) /\ size \in Nat /\ version \in Nat /\ Journal(k, version)
      BY <2>1
    <3> HIDE DEF k, size
    <3>4. ASSUME NEW f, NEW s \in Nat, NEW v \in Nat, k[0].nonce = v, Journal(k, v),
                 \A i \in Rest : k[i] # Zero /\ k[i].nonce = v => k[i].page < s /\ k[i].was = f[k[i].page]
          PROVE  /\ Consistent(Told(k, size))
                 /\ \A r \in Told(k, size) : r.page < s /\ r.page \in Nat
                 /\ \A p \in Nat : Overlay(f, Told(k, size))[p] = f[p]
      BY <3>3, <3>4, TellsAgree
    <3> QED BY <3>1, <3>2, <3>3, <3>4
  <2>3. Stale' = Told(k, size)
    BY DEF Stale
  <2>4. Recovered' = Overlay(O, Stale') /\ RSize' = OSize
    BY <1>1, <1>4 DEF Recovered, RSize
  <2>5. Matches'
    BY <1>1, <1>2, <2>2, <2>3, <2>4 DEF Matches, Agree
  <2>6. Hot' => RSize' <= DSize' /\ Consistent(Stale') /\ \A r \in Stale' : r.page < RSize'
    BY <1>1, <1>3, <2>2, <2>3, <2>4
  <2>7. NotMigrated' => NotMigrated
    BY DEF NotMigrated
  <2> QED BY <1>1, <2>5, <2>6, <2>7, SessionSound
<1>5. CASE ~Hot'
  <2>1. Recovered' = O /\ RSize' = DSize
    BY <1>1, <1>5 DEF Recovered, RSize
  <2>2. Matches'
    BY <1>1, <1>2, <1>5, <2>1 DEF Matches, Agree
  <2>3. NotMigrated' => NotMigrated
    BY DEF NotMigrated
  <2> QED BY <1>1, <1>5, <2>2, <2>3, SessionSound
<1> QED BY <1>4, <1>5

\* A database whose journal is done with is as it is stored.
LEMMA ColdSound ==
    ASSUME Typed', ~Hot', O' = D', DSize' = OSize', OSize' \in Nat, Whole(O', OSize'),
           Seen(O', OSize') \in Allowed', ~NotMigrated'
    PROVE  Sound'
<1>1. Recovered' = O' /\ RSize' = OSize'
  BY DEF Recovered, RSize
<1>2. Found' = Seen(O', OSize')
  BY <1>1 DEF Found
<1> QED BY <1>1, <1>2 DEF Sound

\* What a stage is worth that the database does not change in.
LEMMA JournalChunkStep ==
    ASSUME IInv, FlushChunk, pc \in {"journal", "commit", "undone"}
    PROVE  IInv'
<1>1. Typed /\ Sound /\ Flushed = "journal" /\ pc' = pc /\ pc \in Session /\ pc' \in Session
  BY FlushedFile DEF IInv, FlushChunk, Session, Transaction
<1>2. /\ JournalOpen(written) /\ DbOpen(0) /\ open["db"].dirty = <<>> /\ goal = "serve"
  BY DEF IInv, Staged, AtJournal, AtCommit, AtUndone
<1>3. /\ Typed' /\ JournalOpen(written)' /\ disk'["db"] = disk["db"] /\ J' = J
      /\ JSize' = JSize /\ JSize \in Nat /\ KSize' = KSize /\ KSize \in Nat
  BY <1>1, <1>2, JournalChunk
<1>4. PICK c \in Dirty(open["journal"]) :
          \A p \in Nat : K'[p] = IF ChunkOf(p) = c THEN J[p] ELSE K[p]
  BY <1>1, <1>2, JournalChunk
<1>5. /\ goal' = goal /\ open' = open /\ version' = version /\ old' = old /\ new' = new
      /\ legacy' = legacy /\ missed' = missed
  BY DEF FlushChunk
<1>6. D' = D /\ DSize' = DSize /\ O' = O /\ OSize' = OSize /\ DbOpen(0)'
  BY <1>2, <1>3, <1>5, SameDbOpen
<1>7. O = D /\ OSize \in Nat
  BY <1>1, <1>2, CleanIsStored
<1>8. \A p \in Nat : K'[p] = J[p] \/ K'[p] = K[p]
  BY <1>4
<1>9. Hot' <=> KSize # 0 /\ K'[0] # Zero
  BY <1>3 DEF Hot, IsHot
<1>10. CASE pc = "journal"
  <2>1. AtJournal
    BY <1>10 DEF IInv, Staged
  <2>2. Tells(J) /\ Tells(K) /\ Matches
    BY <2>1 DEF AtJournal
  <2>3. Hot' => K'[0] = J[0]
    BY <1>8, <1>9, <2>1 DEF AtJournal, Hot, IsHot
  <2>4. Hot => Hot'
    BY <1>8, <1>9, <2>1 DEF AtJournal, Hot, IsHot
  <2>5. \A i \in Rest : K'[i] # Zero /\ K'[i].nonce = version =>
            K'[i].page < OSize /\ K'[i].was = O[K'[i].page]
    BY <1>8, <2>2 DEF Tells, Rest
  <2>6. Hot' => K'[0].nonce = version /\ K'[0].orig = OSize
    BY <2>1, <2>3 DEF AtJournal
  <2>7. ~Hot' => OSize <= DSize /\ (OSize = 0 => DSize = 0)
    BY <2>2, <2>4 DEF Matches, Agree, RSize
  <2>8. Matches' /\ Sound'
    BY <1>1, <1>3, <1>5, <1>7, <2>2, <2>5, <2>6, <2>7, JournalRewritten
  <2>9. AtJournal'
    <3>1. Tells(J)' /\ Tells(K)'
      BY <1>3, <1>5, <1>6, <2>2, <2>5 DEF Tells
    <3> HIDE DEF Tells
    <3>2. (Hot' => K'[0] = J'[0]) /\ Seen(O', OSize') = old' /\ open'["db"].dirty = <<>>
      BY <1>2, <1>3, <1>5, <1>6, <2>1, <2>3 DEF AtJournal
    <3>3. /\ J'[0] # Zero /\ J'[0].nonce = version' /\ J'[0].orig = OSize' /\ J'[0].n < JSize'
          /\ \A i \in Rest : i <= J'[0].n <=> J'[i] # Zero /\ J'[i].nonce = version'
      BY <1>3, <1>5, <1>6, <2>1 DEF AtJournal
    <3>4. \E n \in Rest :
            /\ new' \in [1..n -> DbSlot(version') \ {Zero}] /\ new'[1] = [v |-> version', n |-> n]
            /\ \A p \in 0..n - 1 :
                \/ new'[p + 1].v = version' /\ (p >= OSize' \/ \E i \in 1..J'[0].n : J'[i].page = p)
                \/ new'[p + 1].v # version' /\ p < OSize' /\ new'[p + 1] = O'[p]
      BY <1>3, <1>5, <1>6, <2>1 DEF AtJournal
    <3> QED BY <1>2, <1>3, <1>5, <1>6, <2>8, <3>1, <3>2, <3>3, <3>4 DEF AtJournal
  <2> QED BY <1>1, <1>3, <1>10, <2>8, <2>9 DEF IInv, Staged
<1>11. CASE pc = "commit"
  <2>1. AtCommit
    BY <1>11 DEF IInv, Staged
  <2>2. c = 0
    BY <2>1 DEF AtCommit
  <2>3. K'[0] = Zero
    BY <1>4, <2>1, <2>2, PageInSlot DEF AtCommit
  <2>4. ~Hot'
    BY <1>9, <2>3
  <2>5. DSize = OSize /\ disk["db"].meta # Null
    BY <1>1, <1>2, <2>1, CleanIsStored DEF AtCommit
  <2>6. Seen(O', OSize') \in Allowed' /\ Whole(O', OSize')
    BY <1>5, <1>6, <2>1 DEF AtCommit, Allowed
  <2>7. Sound'
    <3>1. ~NotMigrated'
      BY <1>3, <2>5 DEF NotMigrated
    <3> QED BY <1>3, <1>6, <1>7, <2>4, <2>5, <2>6, <3>1, ColdSound
  <2>8. AtCommit'
    BY <1>2, <1>3, <1>5, <1>6, <2>1 DEF AtCommit
  <2> QED BY <1>1, <1>3, <1>11, <2>7, <2>8 DEF IInv, Staged
<1>12. CASE pc = "undone"
  <2>1. AtUndone
    BY <1>12 DEF IInv, Staged
  <2>2. Tells(J) /\ Tells(K) /\ Matches
    BY <2>1 DEF AtUndone
  <2>3. Hot' => Hot /\ K'[0] = K[0]
    BY <1>8, <1>9, <2>1 DEF AtUndone, Hot, IsHot
  <2>4. \A i \in Rest : K'[i] # Zero /\ K'[i].nonce = version =>
            K'[i].page < OSize /\ K'[i].was = O[K'[i].page]
    BY <1>8, <2>2 DEF Tells, Rest
  <2>5. Hot' => K'[0].nonce = version /\ K'[0].orig = OSize
    BY <2>1, <2>2, <2>3 DEF AtUndone, Matches, RSize
  <2>6. DSize = OSize
    BY <1>1, <1>2, <2>1, CleanIsStored DEF AtUndone
  <2>7. Matches' /\ Sound'
    BY <1>1, <1>3, <1>5, <1>7, <2>2, <2>4, <2>5, <2>6, JournalRewritten
  <2>8. Tells(J)' /\ Tells(K)'
    BY <1>3, <1>5, <1>6, <2>2, <2>4 DEF Tells
  <2>9. AtUndone'
    BY <1>2, <1>3, <1>5, <1>6, <2>1, <2>5, <2>7, <2>8 DEF AtUndone
  <2> QED BY <1>1, <1>3, <1>12, <2>7, <2>9 DEF IInv, Staged
<1> QED BY <1>10, <1>11, <1>12

\* A flush writes a chunk.
LEMMA FlushChunkStep == IInv /\ FlushChunk => IInv'
<1> SUFFICES ASSUME IInv, FlushChunk PROVE IInv'
  OBVIOUS
<1>1. pc \in {"journal", "db", "commit", "undo", "undone", "replay", "close"}
  BY FlushedFile DEF FlushChunk
<1> QED BY <1>1, DbChunkStep, JournalChunkStep

\* The meta file of the database is flushed.
LEMMA DbMeta ==
    ASSUME Typed, DbOpen(written), FlushMeta, Flushed = "db"
    PROVE  /\ Typed' /\ DbOpen(0)' /\ written' = 0 /\ open'["db"].dirty = <<>>
           /\ disk'["journal"] = disk["journal"] /\ open'["journal"] = open["journal"]
           /\ O' = O /\ OSize' = OSize /\ OSize \in Nat /\ O = D /\ D' = D /\ DSize' = OSize
           /\ disk'["db"].meta # Null
           /\ AllThere => AllThere'
<1> DEFINE d == disk["db"]
           m == open["db"]
           e == StoreMeta(d, m)
           x == Cleared(m)
<1>1. /\ ~(written < Len(m.dirty)) /\ written' = 0
      /\ pc' = pc /\ goal' = goal /\ legacy' = legacy /\ version' = version /\ missed' = missed
  BY DEF FlushMeta, ChunksLeft
<1>2. disk' = [disk EXCEPT !["db"] = e]
  BY DEF FlushMeta
<1>20. open' = [open EXCEPT !["db"] = x]
  <2>1. open' = [open EXCEPT !["db"].dirty = <<>>, !["db"].metaDirty = FALSE]
    BY DEF FlushMeta
  <2>2. DOMAIN open = Files /\ "db" \in Files
    <3>1. open = [f \in Files |-> open[f]]
      BY DEF Typed
    <3> QED BY <3>1 DEF Files
  <2> DEFINE none == <<>>
             no == FALSE
  <2>3. open' = [open EXCEPT !["db"].dirty = none, !["db"].metaDirty = no]
    BY <2>1
  <2> HIDE DEF none, no
  <2>4. open' = [open EXCEPT !["db"] = [open["db"] EXCEPT !.dirty = none, !.metaDirty = no]]
    BY <2>2, <2>3
  <2> QED BY <2>4 DEF none, no, Cleared
<1>3. /\ d \in StoredFile(DbSlot(version)) /\ m \in OpenFile(DbSlot(version))
      /\ Fits(d, m, written) /\ written \in Nat /\ version \in Nat
  BY DEF Typed, DbOpen
<1>0. x = Cleared(m)
  OBVIOUS
<1> HIDE DEF d, m, x
<1>21. m.dirty \in Seq(Nat)
  BY <1>3 DEF OpenFile
<1>22. Unflushed(m, written) = {}
  BY <1>1, <1>3, <1>21, NoneUnflushed
<1>4. /\ StoreMeta(d, m) \in StoredFile(DbSlot(version)) /\ x \in OpenFile(DbSlot(version))
      /\ Fits(StoreMeta(d, m), x, 0)
      /\ StoreMeta(d, m).meta = m.size /\ SizeOf(StoreMeta(d, m)) = m.size
      /\ StoreMeta(d, m).chunks = d.chunks
      /\ x.size = m.size /\ x.cache = m.cache /\ x.dirty = <<>> /\ ~x.metaDirty
      /\ OnDisk(StoreMeta(d, m)) = OnDisk(d)
      /\ Pages(d, m) = OnDisk(d) /\ Pages(StoreMeta(d, m), x) = OnDisk(d)
  BY <1>0, <1>3, <1>22, MetaFlushed
<1>41. e = StoreMeta(d, m)
  OBVIOUS
<1> HIDE DEF e
<1>5. disk'["db"] = e /\ disk'["journal"] = disk["journal"] /\ disk' = [f \in Files |-> disk'[f]]
  <2>1. disk = [f \in Files |-> disk[f]]
    BY DEF Typed
  <2>2. DOMAIN disk = Files /\ "db" \in Files /\ "journal" \in Files
    BY <2>1 DEF Files
  <2> QED BY <1>2, <2>2
<1>51. open'["db"] = x /\ open'["journal"] = open["journal"] /\ open' = [f \in Files |-> open'[f]]
  <2>1. open = [f \in Files |-> open[f]]
    BY DEF Typed
  <2>2. DOMAIN open = Files /\ "db" \in Files /\ "journal" \in Files
    BY <2>1 DEF Files
  <2> QED BY <1>20, <2>2
<1>6. K' = K
  BY <1>5, SameJournal
<1>7. Typed'
  BY <1>1, <1>3, <1>4, <1>41, <1>5, <1>51, <1>6 DEF Typed
<1> USE DEF d, m
<1>8. O' = O /\ OSize' = OSize /\ OSize \in Nat /\ O = D /\ D' = D /\ DSize' = OSize
  BY <1>3, <1>4, <1>41, <1>5, <1>51 DEF O, OSize, D, DSize, OpenFile
<1>9. disk'["db"].meta # Null
  BY <1>3, <1>4, <1>41, <1>5, ChunkAssumption DEF OpenFile
<1>11. DbOpen(0)'
  BY <1>1, <1>3, <1>4, <1>41, <1>5, <1>51 DEF DbOpen
<1>12. AllThere => AllThere'
  BY <1>1, <1>4, <1>41, <1>5, <1>51, <1>8 DEF AllThere
<1> QED BY <1>1, <1>4, <1>5, <1>51, <1>7, <1>8, <1>9, <1>11, <1>12

\* A flush of the database writes its meta file, at each stage that flushes it.
LEMMA DbMetaStep ==
    ASSUME IInv, FlushMeta, pc \in {"db", "undo", "replay", "close"}
    PROVE  IInv'
<1>1. Typed /\ Sound /\ Flushed = "db" /\ pc' = pc /\ pc \in Session
  BY FlushedFile DEF IInv, FlushMeta, Session, Transaction
<1>2. DbOpen(written)
  BY DEF IInv, Staged, AtDb, AtUndo, AtReplay, AtClose
<1>3. /\ Typed' /\ DbOpen(0)' /\ written' = 0 /\ open'["db"].dirty = <<>>
      /\ disk'["journal"] = disk["journal"] /\ open'["journal"] = open["journal"]
      /\ O' = O /\ OSize' = OSize /\ OSize \in Nat /\ O = D /\ D' = D /\ DSize' = OSize
      /\ disk'["db"].meta # Null
      /\ AllThere => AllThere'
  BY <1>1, <1>2, DbMeta
<1>30. DbOpen(written)'
  BY <1>3 DEF DbOpen
<1>4. /\ goal' = goal /\ version' = version /\ old' = old /\ new' = new
      /\ legacy' = legacy /\ missed' = missed
  BY DEF FlushMeta
<1>5. K' = K /\ KSize' = KSize /\ (Hot' <=> Hot) /\ Stale' = Stale
  BY <1>3, SameJournal
<1>6. J' = J /\ JSize' = JSize /\ (JournalOpen(0) => JournalOpen(0)')
  BY <1>3, <1>4, SameJournalOpen
<1>60. ~NotMigrated'
  BY <1>3 DEF NotMigrated
<1>7. CASE pc = "db"
  <2>1. AtDb
    BY <1>7 DEF IInv, Staged
  <2>2. \A p \in Nat : p < RSize => D'[p] = D[p] \/ (Hot /\ Covers(Stale, p))
    BY <1>3
  <2>3. RSize <= DSize'
    BY <1>3, <2>1 DEF AtDb
  <2>4. Hot
    BY <2>1 DEF AtDb
  <2>5. DSize' \in Nat
    BY <1>3
  <2>6. /\ RSize' = RSize /\ Found' = Found /\ Whole(Recovered', RSize')
        /\ Hot' => RSize' <= DSize' /\ Consistent(Stale') /\ \A r \in Stale' : r.page < RSize'
    BY <1>1, <1>3, <2>2, <2>3, <2>4, <2>5, Rewritten
  <2>7. Sound'
    <3>1. Found' \in Allowed'
      BY <1>4, <2>1, <2>6 DEF Allowed, AtDb
    <3> QED BY <1>1, <1>4, <1>5, <1>60, <2>6, <3>1 DEF Sound
  <2>8. AtDb'
    <3>1. \A p \in Nat : p < RSize' => O'[p] = D'[p] \/ Covers(Stale', p)
      BY <1>3
    <3> QED BY <1>3, <1>30, <1>4, <1>5, <1>6, <2>1, <2>6, <3>1 DEF AtDb
  <2> QED BY <1>1, <1>3, <1>7, <2>7, <2>8 DEF IInv, Staged
<1>8. CASE pc # "db"
  <2>1. Matches
    BY <1>8 DEF IInv, Staged, AtUndo, AtReplay, AtClose
  <2>2. Recovered' = Recovered /\ RSize' = OSize
    <3>1. CASE Hot
      BY <1>3, <1>5, <2>1, <3>1 DEF Recovered, RSize, Matches
    <3>2. CASE ~Hot
      BY <1>3, <1>5, <3>2 DEF Recovered, RSize
    <3> QED BY <3>1, <3>2
  <2>3. Matches'
    BY <1>3, <2>1, <2>2 DEF Matches, Agree
  <2>4. Hot' => RSize' <= DSize' /\ Consistent(Stale') /\ \A r \in Stale' : r.page < RSize'
    BY <1>1, <1>3, <1>5, <2>1, <2>2 DEF Sound, Matches
  <2>5. Sound'
    BY <1>1, <1>3, <1>4, <1>60, <2>1, <2>3, <2>4, SessionSound
  <2>6. CASE pc = "undo"
    <3>1. AtUndo
      BY <2>6 DEF IInv, Staged
    <3>2. AtUndo'
      BY <1>3, <1>30, <1>4, <1>5, <1>6, <2>3, <3>1 DEF AtUndo, Tells
    <3> QED BY <1>1, <1>3, <2>5, <2>6, <3>2 DEF IInv, Staged
  <2>7. CASE pc = "replay"
    BY <1>1, <1>3, <1>30, <1>5, <2>3, <2>5, <2>7 DEF IInv, Staged, AtReplay
  <2>8. CASE pc = "close"
    BY <1>1, <1>3, <1>30, <1>5, <2>3, <2>5, <2>8 DEF IInv, Staged, AtClose
  <2> QED BY <1>8, <2>6, <2>7, <2>8
<1> QED BY <1>7, <1>8

\* The meta file of the journal is flushed.
LEMMA JournalMeta ==
    ASSUME Typed, JournalOpen(written), FlushMeta, Flushed = "journal"
    PROVE  /\ Typed' /\ JournalOpen(0)' /\ written' = 0 /\ open'["journal"].dirty = <<>>
           /\ disk'["db"] = disk["db"] /\ open'["db"] = open["db"]
           /\ J' = J /\ JSize' = JSize /\ JSize \in Nat /\ J = K /\ K' = K /\ KSize' = JSize
<1> DEFINE d == disk["journal"]
           m == open["journal"]
           e == StoreMeta(d, m)
           x == Cleared(m)
<1>1. /\ ~(written < Len(m.dirty)) /\ written' = 0
      /\ pc' = pc /\ goal' = goal /\ legacy' = legacy /\ version' = version /\ missed' = missed
  BY DEF FlushMeta, ChunksLeft
<1>2. disk' = [disk EXCEPT !["journal"] = e]
  BY DEF FlushMeta
<1>20. open' = [open EXCEPT !["journal"] = x]
  <2>1. open' = [open EXCEPT !["journal"].dirty = <<>>, !["journal"].metaDirty = FALSE]
    BY DEF FlushMeta
  <2>2. DOMAIN open = Files /\ "journal" \in Files
    <3>1. open = [f \in Files |-> open[f]]
      BY DEF Typed
    <3> QED BY <3>1 DEF Files
  <2> DEFINE none == <<>>
             no == FALSE
  <2>3. open' = [open EXCEPT !["journal"].dirty = none, !["journal"].metaDirty = no]
    BY <2>1
  <2> HIDE DEF none, no
  <2>4. open' = [open EXCEPT !["journal"] = [open["journal"] EXCEPT !.dirty = none, !.metaDirty = no]]
    BY <2>2, <2>3
  <2> QED BY <2>4 DEF none, no, Cleared
<1>3. /\ d \in StoredFile(JSlot(version)) /\ m \in OpenFile(JSlot(version))
      /\ Fits(d, m, written) /\ written \in Nat /\ version \in Nat
      /\ Journal(J, version) /\ Journal(K, version)
  BY DEF Typed, JournalOpen
<1>0. x = Cleared(m)
  OBVIOUS
<1> HIDE DEF d, m, x
<1>21. m.dirty \in Seq(Nat)
  BY <1>3 DEF OpenFile
<1>22. Unflushed(m, written) = {}
  BY <1>1, <1>3, <1>21, NoneUnflushed
<1>4. /\ StoreMeta(d, m) \in StoredFile(JSlot(version)) /\ x \in OpenFile(JSlot(version))
      /\ Fits(StoreMeta(d, m), x, 0)
      /\ StoreMeta(d, m).meta = m.size /\ SizeOf(StoreMeta(d, m)) = m.size
      /\ StoreMeta(d, m).chunks = d.chunks
      /\ x.size = m.size /\ x.cache = m.cache /\ x.dirty = <<>> /\ ~x.metaDirty
      /\ OnDisk(StoreMeta(d, m)) = OnDisk(d)
      /\ Pages(d, m) = OnDisk(d) /\ Pages(StoreMeta(d, m), x) = OnDisk(d)
  BY <1>0, <1>3, <1>22, MetaFlushed
<1>41. e = StoreMeta(d, m)
  OBVIOUS
<1> HIDE DEF e
<1>5. disk'["journal"] = e /\ disk'["db"] = disk["db"] /\ disk' = [f \in Files |-> disk'[f]]
  <2>1. disk = [f \in Files |-> disk[f]]
    BY DEF Typed
  <2>2. DOMAIN disk = Files /\ "db" \in Files /\ "journal" \in Files
    BY <2>1 DEF Files
  <2> QED BY <1>2, <2>2
<1>51. open'["journal"] = x /\ open'["db"] = open["db"] /\ open' = [f \in Files |-> open'[f]]
  <2>1. open = [f \in Files |-> open[f]]
    BY DEF Typed
  <2>2. DOMAIN open = Files /\ "db" \in Files /\ "journal" \in Files
    BY <2>1 DEF Files
  <2> QED BY <1>20, <2>2
<1> USE DEF d, m
<1>6. J' = J /\ JSize' = JSize /\ JSize \in Nat /\ J = K /\ K' = K /\ KSize' = JSize
  BY <1>3, <1>4, <1>41, <1>5, <1>51 DEF J, JSize, K, KSize, OpenFile
<1>7. Typed'
  BY <1>1, <1>3, <1>4, <1>41, <1>5, <1>51, <1>6 DEF Typed
<1>8. JournalOpen(0)'
  BY <1>1, <1>3, <1>4, <1>41, <1>5, <1>51, <1>6 DEF JournalOpen
<1> QED BY <1>1, <1>4, <1>5, <1>51, <1>6, <1>7, <1>8

\* A flush of the journal writes its meta file, at each stage that flushes it.
LEMMA JournalMetaStep ==
    ASSUME IInv, FlushMeta, pc \in {"journal", "commit", "undone"}
    PROVE  IInv'
<1>1. Typed /\ Sound /\ Flushed = "journal" /\ pc' = pc /\ pc \in Session /\ pc' \in Session
  BY FlushedFile DEF IInv, FlushMeta, Session, Transaction
<1>2. /\ JournalOpen(written) /\ DbOpen(0) /\ open["db"].dirty = <<>> /\ goal = "serve"
  BY DEF IInv, Staged, AtJournal, AtCommit, AtUndone
<1>3. /\ Typed' /\ JournalOpen(0)' /\ written' = 0 /\ open'["journal"].dirty = <<>>
      /\ disk'["db"] = disk["db"] /\ open'["db"] = open["db"]
      /\ J' = J /\ JSize' = JSize /\ JSize \in Nat /\ J = K /\ K' = K /\ KSize' = JSize
  BY <1>1, <1>2, JournalMeta
<1>4. JournalOpen(written)' /\ Journal(J, version) /\ version \in Nat
  BY <1>1, <1>2, <1>3 DEF JournalOpen, Typed
<1>5. /\ goal' = goal /\ version' = version /\ old' = old /\ new' = new
      /\ legacy' = legacy /\ missed' = missed
  BY DEF FlushMeta
<1>6. D' = D /\ DSize' = DSize /\ O' = O /\ OSize' = OSize /\ DbOpen(0)'
  BY <1>2, <1>3, <1>5, SameDbOpen
<1>7. O = D /\ OSize \in Nat
  BY <1>1, <1>2, CleanIsStored
<1>9. Hot' <=> JSize # 0 /\ J[0] # Zero
  BY <1>3 DEF Hot, IsHot
<1>10. CASE pc = "journal"
  <2>1. AtJournal
    BY <1>10 DEF IInv, Staged
  <2>2. Tells(J) /\ Tells(K) /\ Matches
    BY <2>1 DEF AtJournal
  <2>3. Hot'
    <3>1. J[0] # Zero /\ J[0] \in JHeader(version) /\ J[0].n < JSize
      BY <1>4, <2>1 DEF AtJournal, Journal
    <3>2. J[0].n \in Nat
      BY <1>4, <3>1, Slots0
    <3> QED BY <1>3, <1>9, <3>1, <3>2
  <2>5. \A i \in Rest : K'[i] # Zero /\ K'[i].nonce = version =>
            K'[i].page < OSize /\ K'[i].was = O[K'[i].page]
    BY <1>3, <2>2 DEF Tells
  <2>6. Hot' => K'[0].nonce = version /\ K'[0].orig = OSize
    BY <1>3, <2>1 DEF AtJournal
  <2>8. Matches' /\ Sound'
    BY <1>1, <1>3, <1>5, <1>7, <2>2, <2>3, <2>5, <2>6, JournalRewritten
  <2>9. AtJournal'
    <3>1. Tells(J)' /\ Tells(K)'
      BY <1>3, <1>5, <1>6, <2>2, <2>5 DEF Tells
    <3> HIDE DEF Tells
    <3>2. (Hot' => K'[0] = J'[0]) /\ Seen(O', OSize') = old' /\ open'["db"].dirty = <<>>
      BY <1>2, <1>3, <1>5, <1>6, <2>1 DEF AtJournal
    <3>3. /\ J'[0] # Zero /\ J'[0].nonce = version' /\ J'[0].orig = OSize' /\ J'[0].n < JSize'
          /\ \A i \in Rest : i <= J'[0].n <=> J'[i] # Zero /\ J'[i].nonce = version'
      BY <1>3, <1>5, <1>6, <2>1 DEF AtJournal
    <3>4. \E n \in Rest :
            /\ new' \in [1..n -> DbSlot(version') \ {Zero}] /\ new'[1] = [v |-> version', n |-> n]
            /\ \A p \in 0..n - 1 :
                \/ new'[p + 1].v = version' /\ (p >= OSize' \/ \E i \in 1..J'[0].n : J'[i].page = p)
                \/ new'[p + 1].v # version' /\ p < OSize' /\ new'[p + 1] = O'[p]
      BY <1>3, <1>5, <1>6, <2>1 DEF AtJournal
    <3> QED BY <1>2, <1>3, <1>4, <1>5, <1>6, <2>8, <3>1, <3>2, <3>3, <3>4 DEF AtJournal
  <2> QED BY <1>1, <1>3, <1>10, <2>8, <2>9 DEF IInv, Staged
<1>11. CASE pc = "commit"
  <2>1. AtCommit
    BY <1>11 DEF IInv, Staged
  <2>4. ~Hot'
    BY <1>9, <2>1 DEF AtCommit
  <2>5. DSize = OSize /\ disk["db"].meta # Null
    BY <1>1, <1>2, <2>1, CleanIsStored DEF AtCommit
  <2>6. Seen(O', OSize') \in Allowed' /\ Whole(O', OSize')
    BY <1>5, <1>6, <2>1 DEF AtCommit, Allowed
  <2>7. Sound'
    <3>1. ~NotMigrated'
      BY <1>3, <2>5 DEF NotMigrated
    <3> QED BY <1>3, <1>6, <1>7, <2>4, <2>5, <2>6, <3>1, ColdSound
  <2>8. AtCommit'
    <3>1. Dirty(open'["journal"]) = {}
      BY <1>3 DEF Dirty
    <3> QED BY <1>2, <1>3, <1>4, <1>5, <1>6, <2>1, <3>1 DEF AtCommit
  <2> QED BY <1>1, <1>3, <1>11, <2>7, <2>8 DEF IInv, Staged
<1>12. CASE pc = "undone"
  <2>1. AtUndone
    BY <1>12 DEF IInv, Staged
  <2>2. Tells(J) /\ Tells(K) /\ Matches
    BY <2>1 DEF AtUndone
  <2>3. ~Hot'
    BY <1>9, <2>1 DEF AtUndone
  <2>4. \A i \in Rest : K'[i] # Zero /\ K'[i].nonce = version =>
            K'[i].page < OSize /\ K'[i].was = O[K'[i].page]
    BY <1>3, <2>2 DEF Tells
  <2>6. DSize = OSize
    BY <1>1, <1>2, <2>1, CleanIsStored DEF AtUndone
  <2>7. Matches' /\ Sound'
    BY <1>1, <1>3, <1>5, <1>7, <2>2, <2>3, <2>4, <2>6, JournalRewritten
  <2>8. Tells(J)' /\ Tells(K)'
    BY <1>3, <1>5, <1>6, <2>2, <2>4 DEF Tells
  <2>9. AtUndone'
    BY <1>2, <1>3, <1>4, <1>5, <1>6, <2>1, <2>3, <2>7, <2>8 DEF AtUndone
  <2> QED BY <1>1, <1>3, <1>12, <2>7, <2>9 DEF IInv, Staged
<1> QED BY <1>10, <1>11, <1>12

\* A flush writes a meta file.
LEMMA FlushMetaStep == IInv /\ FlushMeta => IInv'
<1> SUFFICES ASSUME IInv, FlushMeta PROVE IInv'
  OBVIOUS
<1>1. pc \in {"journal", "db", "commit", "undo", "undone", "replay", "close"}
  BY FlushedFile DEF FlushMeta
<1> QED BY <1>1, DbMetaStep, JournalMetaStep

\* A flush of the database has ended.
LEMMA DbFlushed ==
    ASSUME Typed, DbOpen(written), FlushEnds, Flushed = "db"
    PROVE  /\ O = D /\ OSize \in Nat /\ DSize = OSize /\ disk["db"].meta = OSize
           /\ disk["db"].meta # Null /\ written' = 0
           /\ DOMAIN open["db"].cache \subseteq DOMAIN disk["db"].chunks
           /\ \A x \in Evicted(open["db"]) :
                  /\ x \in OpenFile(DbSlot(version)) /\ Fits(disk["db"], x, 0)
                  /\ x.dirty = <<>> /\ ~x.metaDirty /\ x.size = OSize /\ Pages(disk["db"], x) = D
<1> DEFINE d == disk["db"]
           m == open["db"]
<1>1. ~(written < Len(m.dirty)) /\ ~m.metaDirty /\ written' = 0
  BY DEF FlushEnds, ChunksLeft
<1>2. /\ d \in StoredFile(DbSlot(version)) /\ m \in OpenFile(DbSlot(version))
      /\ Fits(d, m, written) /\ written \in Nat
  BY DEF Typed, DbOpen
<1> HIDE DEF d, m
<1>3. m.dirty \in Seq(Nat) /\ m.size \in Nat
  BY <1>2 DEF OpenFile
<1>4. Unflushed(m, written) = {}
  BY <1>1, <1>2, <1>3, NoneUnflushed
<1>5. DOMAIN m.cache \subseteq DOMAIN d.chunks /\ d.meta = m.size
  BY <1>1, <1>2, <1>4 DEF Fits
<1>6. Pages(d, m) = OnDisk(d)
  BY <1>2, <1>4, FlushedPages
<1>7. d.meta # Null /\ SizeOf(d) = m.size
  BY <1>2, <1>3, <1>5, OpenedFits, ChunkAssumption
<1>8. ASSUME NEW x \in Evicted(m)
      PROVE  /\ x \in OpenFile(DbSlot(version)) /\ Fits(d, x, 0) /\ x.dirty = <<>> /\ ~x.metaDirty
             /\ x.size = m.size /\ Pages(d, x) = OnDisk(d)
  BY <1>1, <1>2, <1>4, EvictedIs
<1> QED BY <1>1, <1>3, <1>5, <1>6, <1>7, <1>8 DEF d, m, O, D, OSize, DSize

\* A flush of the journal has ended.
LEMMA JournalFlushed ==
    ASSUME Typed, JournalOpen(written), FlushEnds, Flushed = "journal"
    PROVE  /\ J = K /\ JSize \in Nat /\ KSize = JSize /\ written' = 0
           /\ \A x \in Evicted(open["journal"]) :
                  /\ x \in OpenFile(JSlot(version)) /\ Fits(disk["journal"], x, 0)
                  /\ x.dirty = <<>> /\ x.size = JSize /\ Pages(disk["journal"], x) = J
<1> DEFINE d == disk["journal"]
           m == open["journal"]
<1>1. ~(written < Len(m.dirty)) /\ ~m.metaDirty /\ written' = 0
  BY DEF FlushEnds, ChunksLeft
<1>2. /\ d \in StoredFile(JSlot(version)) /\ m \in OpenFile(JSlot(version))
      /\ Fits(d, m, written) /\ written \in Nat
  BY DEF Typed, JournalOpen
<1> HIDE DEF d, m
<1>3. m.dirty \in Seq(Nat) /\ m.size \in Nat
  BY <1>2 DEF OpenFile
<1>4. Unflushed(m, written) = {}
  BY <1>1, <1>2, <1>3, NoneUnflushed
<1>5. d.meta = m.size
  BY <1>1, <1>2 DEF Fits
<1>6. Pages(d, m) = OnDisk(d)
  BY <1>2, <1>4, FlushedPages
<1>7. SizeOf(d) = m.size
  BY <1>2, <1>3, <1>5, OpenedFits, ChunkAssumption
<1>8. ASSUME NEW x \in Evicted(m)
      PROVE  /\ x \in OpenFile(JSlot(version)) /\ Fits(d, x, 0) /\ x.dirty = <<>>
             /\ x.size = m.size /\ Pages(d, x) = OnDisk(d)
  BY <1>1, <1>2, <1>4, EvictedIs
<1> QED BY <1>1, <1>3, <1>6, <1>7, <1>8 DEF d, m, J, K, JSize, KSize

\* An unflushed session ends, or goes on, with the same files.
LEMMA CloseStep == IInv /\ Close => IInv'
<1> SUFFICES ASSUME IInv, Close PROVE IInv'
  OBVIOUS
<1>1. /\ pc = "idle" /\ pc' = "close" /\ written' = 0 /\ disk' = disk /\ open' = open
      /\ goal' = goal /\ legacy' = legacy /\ old' = old /\ new' = new /\ version' = version
      /\ missed' = missed
  BY DEF Close
<1>2. Typed /\ Sound /\ AtIdle
  BY <1>1 DEF IInv, Staged
<1>3. "idle" \in Session /\ "close" \in Session
  BY DEF Session
<1>4. Typed'
  BY <1>1, <1>2, <1>3, TypedStays, StagesAre DEF Typed
<1>5. Sound'
  BY <1>1, <1>2, <1>3, SoundStays, StagesAre DEF Sound, NotMigrated, Allowed
<1>6. AtClose'
  <2>1. /\ (Hot' <=> Hot) /\ Recovered' = Recovered /\ RSize' = RSize
    BY <1>1, SameDisk
  <2>2. O' = O /\ OSize' = OSize /\ DbOpen(0)' /\ (AllThere => AllThere')
    BY <1>1, <1>2, SameDbOpen DEF AtIdle
  <2>3. Matches'
    BY <1>2, <2>1, <2>2 DEF Matches, AtIdle
  <2> QED BY <1>1, <1>2, <2>1, <2>2, <2>3 DEF AtClose, AtIdle, DbOpen
<1> QED BY <1>1, <1>4, <1>5, <1>6 DEF IInv, Staged

\* A session has been closed: all its chunks are stored.
LEMMA ClosedStep == IInv /\ Closed => IInv'
<1> SUFFICES ASSUME IInv, Closed PROVE IInv'
  OBVIOUS
<1>1. /\ pc = "close" /\ FlushEnds /\ disk' = disk /\ open' = [f \in Files |-> Null]
      /\ pc' = IF goal = "seed" THEN "seeding" ELSE "down"
      /\ goal' = goal /\ legacy' = legacy /\ old' = old /\ new' = new /\ version' = version
      /\ missed' = missed
  BY DEF Closed
<1>2. Typed /\ Sound /\ AtClose /\ Flushed = "db"
  BY <1>1, FlushedFile DEF IInv, Staged
<1>3. /\ DSize = OSize /\ disk["db"].meta = OSize /\ disk["db"].meta # Null /\ written' = 0
      /\ OSize \in Nat /\ DOMAIN open["db"].cache \subseteq DOMAIN disk["db"].chunks
  BY <1>1, <1>2, DbFlushed DEF AtClose
<1>4. Typed'
  BY <1>1, <1>2, <1>3, TypedStays, StagesAre DEF Typed
<1>5. Sound'
  BY <1>1, <1>2, <1>3, SoundStays, StagesAre DEF Sound, NotMigrated, Allowed
<1>6. AtSeeding'
  <2>1. ~Hot'
    BY <1>1, <1>2, SameDisk DEF AtClose
  <2>2. goal = "seed" => \A c \in Nat : c < ChunkCount(OSize) => c \in DOMAIN disk["db"].chunks
    BY <1>2, <1>3 DEF AtClose, AllThere
  <2> QED BY <1>1, <1>3, <2>1, <2>2 DEF AtSeeding
<1> QED BY <1>1, <1>3, <1>4, <1>5, <1>6 DEF IInv, Staged, Files

\* The journal is done with, beside a database that is as stored.
LEMMA JournalCold ==
    ASSUME Typed, Sound, Matches, OSize \in Nat, O = D, DSize = OSize, pc \in Session,
           pc' \in Session, Typed', disk'["db"] = disk["db"], open'["db"] = open["db"],
           version' = version, goal' = goal, ~Hot',
           legacy' = legacy, old' = old, new' = new, missed' = missed
    PROVE  Matches' /\ Sound'
<1>1. D' = D /\ DSize' = DSize /\ O' = O /\ OSize' = OSize
  BY SameDbOpen
<1>2. Recovered' = O /\ RSize' = OSize
  BY <1>1 DEF Recovered, RSize
<1>3. Matches'
  BY <1>1, <1>2 DEF Matches, Agree
<1>4. NotMigrated' => NotMigrated
  BY DEF NotMigrated
<1> QED BY <1>1, <1>3, <1>4, SessionSound

\* The journal loses a chunk, of which the first holds its header.
LEMMA DeleteChunkStep == IInv /\ DeleteChunk => IInv'
<1> SUFFICES ASSUME IInv, DeleteChunk PROVE IInv'
  OBVIOUS
<1> DEFINE d == disk["journal"]
           q == Without(d.chunks, {written})
           e == [d EXCEPT !.chunks = q]
<1>1. /\ pc = "delete" /\ pc' = "delete" /\ written < ChunkCount(d.meta) /\ written' = written + 1
      /\ open' = open /\ goal' = goal /\ legacy' = legacy /\ old' = old /\ new' = new
      /\ version' = version /\ missed' = missed
  BY DEF DeleteChunk
<1>2. disk' = [disk EXCEPT !["journal"] = e]
  BY DEF DeleteChunk
<1>3. Typed /\ Sound /\ AtDelete /\ "delete" \in Session
  BY <1>1 DEF IInv, Staged, Session
<1>4. d \in StoredFile(JSlot(version)) /\ written \in Nat /\ version \in Nat /\ Journal(K, version)
  BY <1>3 DEF Typed
<1> HIDE DEF q
<1>5. d.chunks \in ChunkMaps(JSlot(version)) /\ e.chunks = q /\ e.meta = d.meta
  BY <1>4 DEF StoredFile
<1>6. /\ q \in ChunkMaps(JSlot(version)) /\ DOMAIN q = DOMAIN d.chunks \ {written}
      /\ \A c \in DOMAIN d.chunks \ {written} : q[c] = d.chunks[c]
  <2> DEFINE m == d.chunks
             S == JSlot(version)
             left == DOMAIN m \ {written}
  <2>1. m \in ChunkMaps(S) /\ left \in SUBSET DOMAIN m
    BY <1>5
  <2>2. q = [x \in left |-> m[x]]
    BY DEF q, Without
  <2> HIDE DEF m, S, left
  <2>3. q \in ChunkMaps(S)
    BY <2>1, <2>2, MapPart
  <2>4. DOMAIN q = left /\ \A c \in left : q[c] = m[c]
    BY <2>2
  <2> QED BY <2>3, <2>4 DEF m, S, left
<1>7. e \in StoredFile(JSlot(version))
  BY <1>4, <1>6 DEF StoredFile
<1> HIDE DEF e, d
<1>8. disk'["journal"] = e /\ disk'["db"] = disk["db"] /\ disk' = [f \in Files |-> disk'[f]]
  <2>1. disk = [f \in Files |-> disk[f]]
    BY <1>3 DEF Typed
  <2>2. DOMAIN disk = Files /\ "db" \in Files /\ "journal" \in Files
    BY <2>1 DEF Files
  <2> QED BY <1>2, <2>2
<1>9. ASSUME NEW p \in Nat PROVE K'[p] = IF ChunkOf(p) = written THEN Zero ELSE K[p]
  <2>1. OnDisk(e)[p] = IF ChunkOf(p) \in DOMAIN q THEN q[ChunkOf(p)][p % PerChunk] ELSE Zero
    BY <1>5, <1>7, DiskPages
  <2>2. OnDisk(d)[p] = IF ChunkOf(p) \in DOMAIN d.chunks
                       THEN d.chunks[ChunkOf(p)][p % PerChunk] ELSE Zero
    BY <1>4, DiskPages
  <2>3. K' = OnDisk(e) /\ K = OnDisk(d)
    BY <1>8 DEF K, d
  <2> QED BY <1>6, <2>1, <2>2, <2>3
<1>10. K'[0] = Zero
  <2>1. CASE written = 0
    BY <1>9, <2>1, PageInSlot
  <2>2. CASE written # 0
    <3>1. K[0] = Zero
      BY <1>3, <1>4, <2>2 DEF AtDelete
    <3> QED BY <1>9, <3>1
  <2> QED BY <2>1, <2>2
<1>11. ~Hot'
  BY <1>10 DEF Hot, IsHot
<1>12. Journal(K', version)
  BY <1>4, <1>9 DEF Journal, Rest
<1>13. Typed'
  BY <1>1, <1>3, <1>4, <1>7, <1>8, <1>12 DEF Typed
<1>14. /\ Matches /\ DSize = OSize /\ DbOpen(0) /\ open["db"].dirty = <<>> /\ AllThere
       /\ open["journal"] = Null /\ d.meta # Null
  BY <1>3 DEF AtDelete, d
<1>15. O = D /\ OSize \in Nat
  BY <1>3, <1>14, CleanIsStored
<1>16. Matches' /\ Sound'
  BY <1>1, <1>3, <1>8, <1>11, <1>13, <1>14, <1>15, JournalCold
<1>17. AtDelete'
  <2>1. DSize' = DSize /\ OSize' = OSize /\ DbOpen(0)' /\ AllThere'
    BY <1>1, <1>8, <1>14, SameDbOpen
  <2> QED BY <1>1, <1>5, <1>8, <1>10, <1>14, <1>16, <2>1 DEF AtDelete
<1> QED BY <1>1, <1>13, <1>16, <1>17 DEF IInv, Staged

\* The journal loses its meta file.
LEMMA DeleteMetaStep == IInv /\ DeleteMeta => IInv'
<1> SUFFICES ASSUME IInv, DeleteMeta PROVE IInv'
  OBVIOUS
<1> DEFINE d == disk["journal"]
           e == [d EXCEPT !.meta = Null]
<1>1. /\ pc = "delete" /\ pc' = "idle" /\ written' = 0
      /\ open' = open /\ goal' = goal /\ legacy' = legacy /\ old' = old /\ new' = new
      /\ version' = version /\ missed' = missed
  BY DEF DeleteMeta
<1>2. disk' = [disk EXCEPT !["journal"] = e]
  BY DEF DeleteMeta
<1>3. Typed /\ Sound /\ AtDelete /\ "delete" \in Session /\ "idle" \in Session
  BY <1>1 DEF IInv, Staged, Session
<1>4. d \in StoredFile(JSlot(version)) /\ version \in Nat /\ Journal(K, version)
  BY <1>3 DEF Typed
<1>5. e \in StoredFile(JSlot(version)) /\ e.chunks = d.chunks /\ e.meta = Null
  BY <1>4 DEF StoredFile
<1> HIDE DEF e, d
<1>8. disk'["journal"] = e /\ disk'["db"] = disk["db"] /\ disk' = [f \in Files |-> disk'[f]]
  <2>1. disk = [f \in Files |-> disk[f]]
    BY <1>3 DEF Typed
  <2>2. DOMAIN disk = Files /\ "db" \in Files /\ "journal" \in Files
    BY <2>1 DEF Files
  <2> QED BY <1>2, <2>2
<1>9. K' = K
  BY <1>4, <1>5, <1>8, SameChunks DEF K, d
<1>10. ~Hot'
  <2>1. KSize' = 0
    BY <1>5, <1>8, OpenedFits DEF KSize
  <2> QED BY <2>1 DEF Hot, IsHot
<1>13. Typed'
  BY <1>1, <1>3, <1>4, <1>5, <1>8, <1>9, StagesAre DEF Typed
<1>14. /\ Matches /\ DSize = OSize /\ DbOpen(0) /\ open["db"].dirty = <<>> /\ AllThere
       /\ open["journal"] = Null
  BY <1>3 DEF AtDelete
<1>15. O = D /\ OSize \in Nat
  BY <1>3, <1>14, CleanIsStored
<1>16. Matches' /\ Sound'
  BY <1>1, <1>3, <1>8, <1>10, <1>13, <1>14, <1>15, JournalCold
<1>17. AtIdle'
  <2>1. DbOpen(0)' /\ AllThere'
    BY <1>1, <1>8, <1>14, SameDbOpen
  <2> QED BY <1>1, <1>10, <1>14, <1>16, <2>1 DEF AtIdle
<1> QED BY <1>1, <1>13, <1>16, <1>17 DEF IInv, Staged

\* The pages of a playback are stored, and the journal may be deleted.
LEMMA HotPlaybackSyncedStep == IInv /\ HotPlaybackSynced => IInv'
<1> SUFFICES ASSUME IInv, HotPlaybackSynced PROVE IInv'
  OBVIOUS
<1>1. /\ pc = "replay" /\ FlushEnds /\ pc' = "delete" /\ disk' = disk
      /\ goal' = goal /\ legacy' = legacy /\ old' = old /\ new' = new
      /\ version' = version /\ missed' = missed
  BY DEF HotPlaybackSynced
<1>2. PICK m \in Evicted(open["db"]) : open' = [open EXCEPT !["db"] = m, !["journal"] = Null]
  BY DEF HotPlaybackSynced
<1>3. Typed /\ Sound /\ AtReplay /\ Flushed = "db" /\ "delete" \in Session
  BY <1>1, FlushedFile DEF IInv, Staged, Session
<1>4. /\ O = D /\ OSize \in Nat /\ DSize = OSize /\ disk["db"].meta # Null /\ written' = 0
      /\ DOMAIN open["db"].cache \subseteq DOMAIN disk["db"].chunks
      /\ m \in OpenFile(DbSlot(version)) /\ Fits(disk["db"], m, 0)
      /\ m.dirty = <<>> /\ m.size = OSize /\ Pages(disk["db"], m) = D
  BY <1>1, <1>3, DbFlushed DEF AtReplay
<1>5. open'["db"] = m /\ open'["journal"] = Null /\ open' = [f \in Files |-> open'[f]]
  <2>1. open = [f \in Files |-> open[f]]
    BY <1>3 DEF Typed
  <2>2. DOMAIN open = Files /\ "db" \in Files /\ "journal" \in Files
    BY <2>1 DEF Files
  <2> QED BY <1>2, <2>2
<1>6. Typed'
  BY <1>1, <1>3, <1>4, <1>5, TypedStays, StagesAre DEF Typed
<1>7. Sound'
  BY <1>1, <1>3, <1>4, SoundStays, StagesAre DEF Sound, NotMigrated, Allowed
<1>8. AtDelete'
  <2>1. /\ (Hot' <=> Hot) /\ Recovered' = Recovered /\ RSize' = RSize /\ DSize' = DSize
    BY <1>1, SameDisk
  <2>2. O' = O /\ OSize' = OSize
    BY <1>1, <1>4, <1>5 DEF O, OSize
  <2>3. Matches'
    BY <1>3, <2>1, <2>2 DEF Matches, AtReplay
  <2>4. DbOpen(0)'
    BY <1>1, <1>4, <1>5 DEF DbOpen
  <2>5. AllThere'
    BY <1>1, <1>3, <1>4, <2>2 DEF AllThere, AtReplay
  <2>6. disk["journal"].meta # Null
    <3>1. KSize # 0
      BY <1>3 DEF AtReplay, Hot, IsHot
    <3> QED BY <1>3, <3>1, OpenedFits DEF KSize, Typed
  <2> QED BY <1>1, <1>4, <1>5, <2>1, <2>2, <2>3, <2>4, <2>5, <2>6 DEF AtDelete
<1> QED BY <1>1, <1>6, <1>7, <1>8 DEF IInv, Staged

\* The cleared header of a journal that was undone is stored.
LEMMA RolledBackStep == IInv /\ RolledBack => IInv'
<1> SUFFICES ASSUME IInv, RolledBack PROVE IInv'
  OBVIOUS
<1>1. /\ pc = "undone" /\ FlushEnds /\ pc' = "idle" /\ disk' = disk
      /\ goal' = goal /\ legacy' = legacy /\ old' = old /\ new' = Null
      /\ version' = version /\ missed' = missed
  BY DEF RolledBack
<1>2. PICK j \in Evicted(open["journal"]) : open' = [open EXCEPT !["journal"] = j]
  BY DEF RolledBack
<1>3. Typed /\ Sound /\ AtUndone /\ Flushed = "journal" /\ "idle" \in Session
  BY <1>1, FlushedFile DEF IInv, Staged, Session
<1>4. /\ J = K /\ written' = 0
      /\ j \in OpenFile(JSlot(version)) /\ Fits(disk["journal"], j, 0)
      /\ Pages(disk["journal"], j) = J
  BY <1>1, <1>3, JournalFlushed DEF AtUndone
<1>5. open'["journal"] = j /\ open'["db"] = open["db"] /\ open' = [f \in Files |-> open'[f]]
  <2>1. open = [f \in Files |-> open[f]]
    BY <1>3 DEF Typed
  <2>2. DOMAIN open = Files /\ "db" \in Files /\ "journal" \in Files
    BY <2>1 DEF Files
  <2> QED BY <1>2, <2>2
<1>6. Typed'
  BY <1>1, <1>3, <1>4, <1>5, TypedStays, StagesAre DEF Typed
<1>7. OSize \in Nat /\ disk["db"].meta # Null
  BY <1>3, CleanIsStored DEF AtUndone
<1>8. Found = old
  BY <1>3, <1>7, MatchesFinds DEF AtUndone
<1>9. Sound'
  BY <1>1, <1>3, <1>7, <1>8, SoundStays, StagesAre DEF NotMigrated, Allowed
<1>10. AtIdle'
  <2>1. (Hot' <=> Hot) /\ Recovered' = Recovered /\ RSize' = RSize
    BY <1>1, SameDisk
  <2>2. O' = O /\ OSize' = OSize /\ DbOpen(0)'
    BY <1>1, <1>3, <1>5, SameDbOpen DEF AtUndone
  <2>3. ~Hot
    BY <1>3, <1>4 DEF AtUndone, Hot, IsHot
  <2>4. Matches'
    BY <1>3, <2>1, <2>2 DEF Matches, AtUndone
  <2>5. JournalOpen(0)'
    <3>1. J' = J /\ Journal(J, version)
      BY <1>1, <1>3, <1>4, <1>5 DEF J, AtUndone, JournalOpen
    <3> QED BY <1>1, <1>4, <1>5, <3>1 DEF JournalOpen
  <2>6. AllThere'
    BY <1>1, <1>3 DEF AllThere, AtUndone
  <2> QED BY <1>1, <1>3, <1>4, <1>5, <2>1, <2>2, <2>3, <2>4, <2>5, <2>6 DEF AtIdle, AtUndone
<1> QED BY <1>1, <1>6, <1>9, <1>10 DEF IInv, Staged

\* A journal is played back over the database, and cut to its former size.
LEMMA PlayBackIs ==
    ASSUME Typed, NEW w \in Nat, DbOpen(w), NEW stage, NEW j, PlayBack(j, stage),
           j.size \in Nat, NEW k, k = Pages(disk["journal"], j), Journal(k, version),
           IsHot(k, j.size), NEW R, R = Told(k, j.size), Consistent(R), k[0].orig <= OSize,
           \A r \in R : r.page < k[0].orig
    PROVE  /\ open'["journal"] = j /\ disk'["journal"] = disk["journal"]
           /\ disk' = [f \in Files |-> disk'[f]] /\ open' = [f \in Files |-> open'[f]]
           /\ disk'["db"] \in StoredFile(DbSlot(version)) /\ disk'["db"].meta = disk["db"].meta
           /\ open'["db"] \in OpenFile(DbSlot(version)) /\ Fits(disk'["db"], open'["db"], 0)
           /\ OSize' = k[0].orig /\ DSize' = DSize /\ written' = 0 /\ pc' = stage
           /\ \A p \in Nat : p < OSize' => O'[p] = Overlay(O, R)[p] /\ D'[p] = D[p]
           /\ \A c \in Nat :
                  c < ChunkCount(OSize') /\ c \in DOMAIN disk["db"].chunks \cup DOMAIN open["db"].cache
                      => c \in DOMAIN disk'["db"].chunks \cup DOMAIN open'["db"].cache
<1> DEFINE d == disk["db"]
           m == open["db"]
           S == DbSlot(version)
           orig == k[0].orig
           x == Restored(d, m, R)
           e == TruncatedDisk(d, x, orig)
           y == Truncated(x, orig)
<1>1. Journal(k, version) /\ j.size # 0 /\ k[0] # Zero /\ version \in Nat
  BY DEF IsHot, Typed
<1>2. Records(disk["journal"], j) = R /\ ReadPage(disk["journal"], j, 0) = k[0]
  BY <1>1, RecordsAre
<1>3. /\ open' = [open EXCEPT !["db"] = y, !["journal"] = j]
      /\ disk' = [disk EXCEPT !["db"] = TruncatedDisk(@, x, orig)]
      /\ written' = 0 /\ pc' = stage
  <2> DEFINE h == ReadPage(disk["journal"], j, 0)
             T == Records(disk["journal"], j)
             z == Restored(disk["db"], open["db"], T)
  <2>1. /\ open' = [open EXCEPT !["db"] = Truncated(z, h.orig), !["journal"] = j]
        /\ disk' = [disk EXCEPT !["db"] = TruncatedDisk(@, z, h.orig)]
        /\ written' = 0 /\ pc' = stage
    BY Zenon DEF PlayBack, Restored
  <2>2. z = x /\ h.orig = orig
    BY <1>2
  <2> HIDE DEF x, z, orig, h
  <2> QED BY <2>1, <2>2
<1>4. disk' = [disk EXCEPT !["db"] = e]
  BY <1>3
<1>5. /\ d \in StoredFile(S) /\ m \in OpenFile(S) /\ Fits(d, m, w) /\ Zero \in S
      /\ m.size = OSize
  BY <1>1, Slots0 DEF Typed, DbOpen, OSize
<1>6. orig \in Nat /\ IsFiniteSet(R) /\ \A r \in R : r.page \in Nat /\ r.was \in S
  BY <1>1, ToldIs
<1>60. orig <= m.size /\ \A r \in R : r.page \in Nat /\ r.page < orig /\ r.was \in S
  BY <1>5, <1>6
<1>61. e = TruncatedDisk(d, Restored(d, m, R), orig) /\ y = Truncated(Restored(d, m, R), orig)
  OBVIOUS
<1> HIDE DEF d, m, S, orig, x, e, y
<1>7. /\ e \in StoredFile(S) /\ y \in OpenFile(S) /\ Fits(e, y, 0)
      /\ e.meta = d.meta /\ y.size = orig
      /\ \A p \in Nat : p < orig => /\ Pages(e, y)[p] = Overlay(Pages(d, m), R)[p]
                                    /\ OnDisk(e)[p] = OnDisk(d)[p]
      /\ \A c \in Nat : c < ChunkCount(orig) /\ c \in DOMAIN d.chunks \cup DOMAIN m.cache =>
             c \in DOMAIN e.chunks \cup DOMAIN y.cache
  BY <1>5, <1>6, <1>60, <1>61, PlayedBack
<1>8. disk'["db"] = e /\ disk'["journal"] = disk["journal"] /\ disk' = [f \in Files |-> disk'[f]]
  <2>1. disk = [f \in Files |-> disk[f]]
    BY DEF Typed
  <2>2. DOMAIN disk = Files /\ "db" \in Files /\ "journal" \in Files
    BY <2>1 DEF Files
  <2> QED BY <1>4, <2>2
<1>9. open'["db"] = y /\ open'["journal"] = j /\ open' = [f \in Files |-> open'[f]]
  <2>1. open = [f \in Files |-> open[f]]
    BY DEF Typed
  <2>2. DOMAIN open = Files /\ "db" \in Files /\ "journal" \in Files
    BY <2>1 DEF Files
  <2> QED BY <1>3, <2>2
<1>10. OSize' = orig /\ O' = Pages(e, y) /\ D' = OnDisk(e)
  BY <1>7, <1>8, <1>9 DEF OSize, O, D
<1>11. O = Pages(d, m) /\ D = OnDisk(d)
  BY DEF O, D, d, m
<1>12. DSize' = DSize
  BY <1>7, <1>8, Zenon DEF DSize, SizeOf, Opened, d
<1>13. \A p \in Nat : p < OSize' => O'[p] = Overlay(O, R)[p] /\ D'[p] = D[p]
  BY <1>7, <1>10, <1>11
<1> QED BY <1>3, <1>7, <1>8, <1>9, <1>10, <1>12, <1>13 DEF d, m, S, orig

\* What a reader would have found is written back.
LEMMA PlaybackFound ==
    ASSUME Typed, Sound, Typed', disk'["journal"] = disk["journal"], OSize' = RSize,
           DSize' = DSize, disk'["db"].meta = disk["db"].meta,
           \A p \in Nat : p < RSize => O'[p] = Recovered[p] /\ D'[p] = D[p],
           pc \in Session, pc' \in Session,
           legacy' = legacy, old' = old, new' = new, missed' = missed
    PROVE  Matches' /\ Sound' /\ RSize' = OSize' /\ Found' = Found /\ Seen(O', OSize') = Found
<1>1. RSize \in Nat /\ DSize \in Nat
  BY SizesTyped
<1>2. K' = K /\ KSize' = KSize /\ (Hot' <=> Hot) /\ Stale' = Stale
  BY SameJournal
<1>3. IF Hot THEN RSize <= DSize' ELSE DSize' = DSize
  BY DEF Sound
<1>4. /\ RSize' = RSize /\ Found' = Found /\ Whole(Recovered', RSize')
      /\ Hot' => RSize' <= DSize' /\ Consistent(Stale') /\ \A r \in Stale' : r.page < RSize'
      /\ \A p \in Nat : p < RSize => Recovered'[p] = Recovered[p]
  BY <1>1, <1>3, Rewritten
<1>5. Agree(O', RSize, Recovered, RSize)
  BY <1>1 DEF Agree, Sound
<1>6. Whole(O', RSize) /\ Seen(O', RSize) = Found
  BY <1>1, <1>5, Agreed DEF Found
<1>7. Matches'
  BY <1>1, <1>4, <1>6 DEF Matches, Agree
<1>8. Sound'
  <2>1. (NotMigrated' <=> NotMigrated) /\ Allowed' = Allowed /\ pc # "node"
    BY StagesAre DEF NotMigrated, Allowed
  <2> QED BY <1>2, <1>4, <2>1 DEF Sound
<1> QED BY <1>4, <1>6, <1>7, <1>8

\* What is written back is there already.
LEMMA PlaybackSame ==
    ASSUME Typed, Sound, Matches, OSize \in Nat, Typed', disk'["journal"] = disk["journal"],
           OSize' = OSize, DSize' = DSize, disk'["db"].meta = disk["db"].meta,
           \A p \in Nat : p < OSize => O'[p] = O[p] /\ D'[p] = D[p],
           pc \in Session, pc' \in Session,
           legacy' = legacy, old' = old, new' = new, missed' = missed
    PROVE  Matches' /\ Sound' /\ Seen(O', OSize') = Seen(O, OSize)
<1>1. K' = K /\ KSize' = KSize /\ (Hot' <=> Hot) /\ Stale' = Stale
  BY SameJournal
<1>2. RSize' = RSize
  <2>1. CASE Hot
    BY <1>1, <2>1 DEF RSize
  <2>2. CASE ~Hot
    BY <1>1, <2>2 DEF RSize
  <2> QED BY <2>1, <2>2
<1>3. ASSUME NEW p \in Nat, p < OSize PROVE Recovered'[p] = O[p]
  <2>0. Recovered[p] = O[p]
    BY <1>3 DEF Matches, Agree
  <2>1. CASE Hot
    <3>1. Recovered' = Overlay(D', Stale) /\ Recovered = Overlay(D, Stale)
      BY <1>1, <2>1 DEF Recovered
    <3>2. /\ Overlay(D', Stale)[p] = IF Covers(Stale, p) THEN Was(Stale, p) ELSE D'[p]
          /\ Overlay(D, Stale)[p] = IF Covers(Stale, p) THEN Was(Stale, p) ELSE D[p]
      BY OverlayAt
    <3> QED BY <1>3, <2>0, <3>1, <3>2
  <2>2. CASE ~Hot
    <3>1. Recovered' = D' /\ Recovered = D
      BY <1>1, <2>2 DEF Recovered
    <3> QED BY <1>3, <2>0, <3>1
  <2> QED BY <2>1, <2>2
<1>4. Whole(O, OSize)
  BY DEF Matches, Agree
<1>5. Agree(O', OSize, O, OSize)
  BY <1>4 DEF Agree
<1>6. Whole(O', OSize') /\ Seen(O', OSize') = Seen(O, OSize)
  BY <1>5, Agreed
<1>7. Matches'
  BY <1>1, <1>2, <1>3, <1>6 DEF Matches, Agree
<1>8. Hot' => RSize' <= DSize' /\ Consistent(Stale') /\ \A r \in Stale' : r.page < RSize'
  BY <1>1, <1>2 DEF Sound
<1>9. NotMigrated' => NotMigrated
  BY DEF NotMigrated
<1>10. Sound'
  BY <1>6, <1>7, <1>8, <1>9, SessionSound
<1> QED BY <1>6, <1>7, <1>10

\* The first statement deletes a journal, plays it back, or leaves it alone.
LEMMA FirstReadStep == IInv /\ FirstRead => IInv'
<1> SUFFICES ASSUME IInv, FirstRead PROVE IInv'
  OBVIOUS
<1>1. /\ pc = "opened" /\ goal' = goal /\ legacy' = legacy /\ old' = old /\ new' = new
      /\ version' = version /\ missed' = missed
  BY DEF FirstRead
<1>2. Typed /\ Sound /\ AtOpened /\ pc \in Session /\ open["journal"] = Null
  BY <1>1 DEF IInv, Staged, Session
<1>3. /\ written = 0 /\ DbOpen(0) /\ open["db"] = Opened(disk["db"]) /\ AllThere
  BY <1>2 DEF AtOpened
<1>4. open["db"].dirty = <<>> /\ OSize = DSize /\ DSize \in Nat
  <2>1. disk["db"] \in StoredFile(DbSlot(version))
    BY <1>2 DEF Typed
  <2> QED BY <1>3, <2>1, OpenedFits DEF OSize, DSize
<1>5. O = D
  BY <1>3 DEF O, D, OnDisk
<1>6. /\ Opened(disk["journal"]).size = KSize /\ KSize \in Nat
      /\ Pages(disk["journal"], Opened(disk["journal"])) = K
      /\ KSize # 0 => disk["journal"].meta # Null
  <2>1. disk["journal"] \in StoredFile(JSlot(version))
    BY <1>2 DEF Typed
  <2> QED BY <2>1, OpenedFits DEF KSize, K, OnDisk
<1>7. HotJournal <=> Hot
  <2>1. ReadPage(disk["journal"], Opened(disk["journal"]), 0) = IF 0 < KSize THEN K[0] ELSE Zero
    BY <1>6, ReadIs
  <2>2. 0 < KSize <=> KSize # 0
    BY <1>6
  <2> QED BY <1>6, <2>1, <2>2 DEF HotJournal, JournalExists, Hot, IsHot
<1>8. CASE JournalExists /\ open["db"].size = 0
  <2>1. pc' = "delete" /\ written' = 0 /\ disk' = disk /\ open' = open /\ "delete" \in Session
    BY <1>8 DEF FirstRead, Session
  <2>2. Typed'
    BY <1>1, <1>2, <2>1, TypedStays, StagesAre DEF Typed
  <2>3. Sound'
    BY <1>1, <1>2, <2>1, SoundStays, StagesAre DEF Sound, NotMigrated, Allowed
  <2>4. OSize = 0 /\ RSize = 0
    BY <1>2, <1>4, <1>8, Sizes DEF OSize
  <2>5. Matches
    BY <2>4 DEF Matches, Agree, Whole
  <2>6. (Hot' <=> Hot) /\ Recovered' = Recovered /\ RSize' = RSize
    BY <2>1, SameDisk
  <2>7. O' = O /\ OSize' = OSize /\ DSize' = DSize /\ DbOpen(0)' /\ AllThere'
    BY <1>1, <1>3, <2>1, SameDbOpen
  <2>8. Matches'
    BY <2>5, <2>6, <2>7 DEF Matches
  <2>9. AtDelete'
    BY <1>2, <1>4, <1>8, <2>1, <2>7, <2>8 DEF AtDelete, JournalExists
  <2> QED BY <2>1, <2>2, <2>3, <2>9 DEF IInv, Staged
<1>9. CASE ~(JournalExists /\ open["db"].size = 0) /\ ~HotJournal
  <2>1. pc' = "idle" /\ written' = written /\ disk' = disk /\ open' = open /\ "idle" \in Session
    BY <1>9 DEF FirstRead, Session
  <2>2. Typed'
    BY <1>1, <1>2, <1>3, <2>1, TypedStays, StagesAre DEF Typed
  <2>3. Sound'
    BY <1>1, <1>2, <2>1, SoundStays, StagesAre DEF Sound, NotMigrated, Allowed
  <2>4. Recovered = O /\ RSize = OSize
    BY <1>4, <1>5, <1>7, <1>9 DEF Recovered, RSize
  <2>5. Matches
    BY <1>2, <1>4, <1>7, <1>9, <2>4 DEF Matches, Agree, Sound
  <2>6. (Hot' <=> Hot) /\ Recovered' = Recovered /\ RSize' = RSize
    BY <2>1, SameDisk
  <2>7. O' = O /\ OSize' = OSize /\ DbOpen(0)' /\ AllThere'
    BY <1>1, <1>3, <2>1, SameDbOpen
  <2>8. Matches'
    BY <2>5, <2>6, <2>7 DEF Matches
  <2>9. AtIdle'
    BY <1>2, <1>3, <1>4, <1>7, <1>9, <2>1, <2>6, <2>7, <2>8 DEF AtIdle
  <2> QED BY <2>1, <2>2, <2>3, <2>9 DEF IInv, Staged
<1>10. CASE ~(JournalExists /\ open["db"].size = 0) /\ HotJournal
  <2> DEFINE j == Opened(disk["journal"])
  <2>1. PlayBack(j, "replay")
    BY <1>10 DEF FirstRead
  <2>2. Hot /\ RSize = K[0].orig /\ RSize <= OSize /\ Consistent(Stale)
        /\ \A r \in Stale : r.page < K[0].orig
    BY <1>2, <1>4, <1>7, <1>10 DEF Sound, RSize
  <2>3. IsHot(K, j.size) /\ Stale = Told(K, j.size) /\ Journal(K, version)
    BY <1>2, <1>6, <2>2 DEF Hot, Stale, Typed
  <2> HIDE DEF j
  <2>4. j.size \in Nat /\ K = Pages(disk["journal"], j)
    BY <1>6 DEF j
  <2>5. /\ open'["journal"] = j /\ disk'["journal"] = disk["journal"]
        /\ disk' = [f \in Files |-> disk'[f]] /\ open' = [f \in Files |-> open'[f]]
        /\ disk'["db"] \in StoredFile(DbSlot(version)) /\ disk'["db"].meta = disk["db"].meta
        /\ open'["db"] \in OpenFile(DbSlot(version)) /\ Fits(disk'["db"], open'["db"], 0)
        /\ OSize' = K[0].orig /\ DSize' = DSize /\ written' = 0 /\ pc' = "replay"
        /\ \A p \in Nat : p < OSize' => O'[p] = Overlay(O, Stale)[p] /\ D'[p] = D[p]
        /\ \A c \in Nat :
               c < ChunkCount(OSize') /\ c \in DOMAIN disk["db"].chunks \cup DOMAIN open["db"].cache
                   => c \in DOMAIN disk'["db"].chunks \cup DOMAIN open'["db"].cache
    BY <1>2, <1>3, <2>1, <2>2, <2>3, <2>4, PlayBackIs
  <2>6. K' = K
    BY <2>5, SameJournal
  <2>60. "replay" \in Session
    BY DEF Session
  <2>7. Typed'
    BY <1>1, <1>2, <2>5, <2>6, <2>60, StagesAre DEF Typed
  <2>8. \A p \in Nat : p < RSize => O'[p] = Recovered[p] /\ D'[p] = D[p]
    BY <1>5, <2>2, <2>5 DEF Recovered
  <2>9. Matches' /\ Sound'
    BY <1>1, <1>2, <2>2, <2>5, <2>60, <2>7, <2>8, PlaybackFound
  <2>10. Hot'
    BY <2>2, <2>5, SameJournal
  <2>11. AllThere'
    <3>1. OSize' <= OSize /\ OSize' \in Nat /\ OSize \in Nat
      BY <1>2, <1>4, <2>2, <2>5, SizesTyped
    <3>2. ChunkCount(OSize') <= ChunkCount(OSize) /\ ChunkCount(OSize') \in Nat /\ ChunkCount(OSize) \in Nat
      BY <3>1, ChunksOfSize
    <3>3. \A c \in Nat : c < ChunkCount(OSize') => c < ChunkCount(OSize)
      BY <3>2
    <3> QED BY <1>1, <1>3, <2>5, <3>3 DEF AllThere
  <2>12. AtReplay'
    BY <1>1, <2>5, <2>9, <2>10, <2>11 DEF AtReplay, DbOpen
  <2> QED BY <2>5, <2>7, <2>9, <2>12 DEF IInv, Staged
<1> QED BY <1>8, <1>9, <1>10

\* The playback after a failed flush writes back what the open journal tells.
LEMMA FlushFailsStep == IInv /\ FlushFails => IInv'
<1> SUFFICES ASSUME IInv, FlushFails PROVE IInv'
  OBVIOUS
<1> DEFINE j == open["journal"]
<1>1. /\ pc \in {"journal", "db"} /\ PlayBack(j, "undo")
      /\ goal' = goal /\ legacy' = legacy /\ old' = old /\ new' = new
      /\ version' = version /\ missed' = missed
  BY DEF FlushFails
<1>2. Typed /\ Sound /\ pc \in Session /\ "undo" \in Session /\ version \in Nat /\ written \in Nat
  BY <1>1 DEF IInv, Session, Transaction, Typed
<1>3. \E w \in Nat : JournalOpen(w)
  BY <1>1, <1>2 DEF IInv, Staged, AtJournal, AtDb
<1>4. \E w \in Nat : DbOpen(w)
  BY <1>1, <1>2 DEF IInv, Staged, AtJournal, AtDb
<1>5. /\ JournalOpen(0) /\ Journal(J, version) /\ JSize \in Nat /\ goal = "serve" /\ OSize \in Nat
      /\ j \in OpenFile(JSlot(version)) /\ JSize = j.size /\ J = Pages(disk["journal"], j)
  <2>1. PICK w \in Nat : JournalOpen(w)
    BY <1>3
  <2>2. j \in OpenFile(JSlot(version)) /\ Fits(disk["journal"], j, w) /\ Journal(J, version)
    BY <2>1 DEF JournalOpen
  <2>3. j.dirty \in Seq(Nat) /\ j.size \in Nat
    BY <2>2 DEF OpenFile
  <2>4. Fits(disk["journal"], j, 0)
    BY <2>2, <2>3, FitsFromStart
  <2>5. PICK z \in Nat : DbOpen(z)
    BY <1>4
  <2>6. OSize \in Nat
    BY <2>5 DEF DbOpen, OpenFile, OSize
  <2> QED BY <1>1, <2>2, <2>3, <2>4, <2>6 DEF JournalOpen, JSize, J, IInv, Staged, AtJournal, AtDb
<1> HIDE DEF j
<1> DEFINE R == Told(J, JSize)
<1>6. ASSUME IsHot(J, JSize), Consistent(R), J[0].orig <= OSize, \A r \in R : r.page < J[0].orig
      PROVE  /\ Typed' /\ DbOpen(written)' /\ JournalOpen(0)' /\ pc' = "undo"
             /\ disk'["journal"] = disk["journal"] /\ disk'["db"].meta = disk["db"].meta
             /\ OSize' = J[0].orig /\ DSize' = DSize /\ K' = K /\ J' = J /\ (Hot' <=> Hot)
             /\ \A p \in Nat : p < OSize' => O'[p] = Overlay(O, R)[p] /\ D'[p] = D[p]
  <2>1. PICK w \in Nat : DbOpen(w)
    BY <1>4
  <2>2. IsHot(J, j.size) /\ R = Told(J, j.size) /\ j.size \in Nat
    BY <1>5, <1>6
  <2> HIDE DEF R
  <2>3. /\ open'["journal"] = j /\ disk'["journal"] = disk["journal"]
        /\ disk' = [f \in Files |-> disk'[f]] /\ open' = [f \in Files |-> open'[f]]
        /\ disk'["db"] \in StoredFile(DbSlot(version)) /\ disk'["db"].meta = disk["db"].meta
        /\ open'["db"] \in OpenFile(DbSlot(version)) /\ Fits(disk'["db"], open'["db"], 0)
        /\ OSize' = J[0].orig /\ DSize' = DSize /\ written' = 0 /\ pc' = "undo"
        /\ \A p \in Nat : p < OSize' => O'[p] = Overlay(O, R)[p] /\ D'[p] = D[p]
    BY <1>1, <1>2, <1>5, <1>6, <2>1, <2>2, PlayBackIs
  <2>4. K' = K /\ (Hot' <=> Hot)
    BY <2>3, SameJournal
  <2>5. Typed'
    BY <1>1, <1>2, <2>3, <2>4, StagesAre DEF Typed
  <2>6. J' = J /\ JournalOpen(0)'
    BY <1>1, <1>5, <2>3, SameJournalOpen DEF j
  <2>7. DbOpen(written)'
    BY <1>1, <2>3 DEF DbOpen
  <2> QED BY <2>3, <2>4, <2>5, <2>6, <2>7
<1>7. CASE pc = "journal"
  <2>1. AtJournal
    BY <1>7 DEF IInv, Staged
  <2>2. /\ Matches /\ Tells(J) /\ Tells(K) /\ Seen(O, OSize) = old
        /\ J[0] # Zero /\ J[0].nonce = version /\ J[0].orig = OSize
        /\ (Hot => K[0] = J[0])
    BY <2>1 DEF AtJournal
  <2>3. IsHot(J, JSize)
    <3>1. J[0].n < JSize /\ J[0] \in JHeader(version)
      BY <1>5, <2>1 DEF AtJournal, Journal
    <3>2. J[0].n \in Nat
      BY <1>2, <3>1, Slots0
    <3> QED BY <1>5, <2>2, <3>1, <3>2 DEF IsHot
  <2>4. /\ Consistent(R) /\ \A r \in R : r.page < OSize /\ r.page \in Nat
        /\ \A p \in Nat : Overlay(O, R)[p] = O[p]
    <3> DEFINE k == J
               size == JSize
    <3>0. R = Told(k, size)
      OBVIOUS
    <3> HIDE DEF R
    <3>1. \A i \in Rest : k[i] # Zero /\ k[i].nonce = version => k[i].page < OSize /\ k[i].was = O[k[i].page]
      BY <2>2 DEF Tells
    <3>2. IsHot(k, size) /\ size \in Nat
      BY <1>5, <2>3
    <3>20. k[0].nonce = version /\ version \in Nat /\ Journal(k, version)
      BY <1>2, <1>5, <2>2
    <3> HIDE DEF k, size
    <3>3. ASSUME NEW f, NEW s \in Nat, NEW v \in Nat, k[0].nonce = v, Journal(k, v),
                 \A i \in Rest : k[i] # Zero /\ k[i].nonce = v => k[i].page < s /\ k[i].was = f[k[i].page]
          PROVE  /\ Consistent(Told(k, size))
                 /\ \A r \in Told(k, size) : r.page < s /\ r.page \in Nat
                 /\ \A p \in Nat : Overlay(f, Told(k, size))[p] = f[p]
      BY <3>2, <3>3, TellsAgree
    <3>4. /\ Consistent(Told(k, size)) /\ \A r \in Told(k, size) : r.page < OSize /\ r.page \in Nat
          /\ \A p \in Nat : Overlay(O, Told(k, size))[p] = O[p]
      BY <1>5, <3>1, <3>20, <3>3
    <3> QED BY <3>0, <3>4
  <2> HIDE DEF R
  <2>5. J[0].orig <= OSize /\ \A r \in R : r.page < J[0].orig
    BY <1>5, <2>2, <2>4
  <2>6. /\ Typed' /\ DbOpen(written)' /\ JournalOpen(0)' /\ pc' = "undo"
        /\ disk'["journal"] = disk["journal"] /\ disk'["db"].meta = disk["db"].meta
        /\ OSize' = OSize /\ DSize' = DSize /\ K' = K /\ J' = J /\ (Hot' <=> Hot)
        /\ \A p \in Nat : p < OSize' => O'[p] = Overlay(O, R)[p] /\ D'[p] = D[p]
    BY <1>6, <2>2, <2>3, <2>4, <2>5
  <2>7. \A p \in Nat : p < OSize => O'[p] = O[p] /\ D'[p] = D[p]
    BY <2>4, <2>6
  <2>8. Matches' /\ Sound' /\ Seen(O', OSize') = Seen(O, OSize)
    BY <1>1, <1>2, <1>5, <2>2, <2>6, <2>7, PlaybackSame
  <2>9. Tells(J)' /\ Tells(K)'
    <3>1. ASSUME NEW k, Journal(k, version),
                 \A i \in Rest : k[i] # Zero /\ k[i].nonce = version => k[i].page < OSize /\ k[i].was = O[k[i].page],
                 NEW i \in Rest, k[i] # Zero, k[i].nonce = version
          PROVE  k[i].page < OSize /\ k[i].was = O'[k[i].page]
      <4>1. k[i] \in JRecord(version)
        BY <3>1 DEF Journal
      <4>2. k[i].page \in Nat
        BY <1>2, <4>1, Slots0
      <4> QED BY <2>7, <3>1, <4>2
    <3>2. Journal(J, version) /\ Journal(K, version)
      BY <1>2, <1>5 DEF Typed
    <3> QED BY <1>1, <2>2, <2>6, <3>1, <3>2 DEF Tells
  <2>10. AtUndo'
    BY <1>1, <1>5, <2>2, <2>6, <2>8, <2>9 DEF AtUndo
  <2> QED BY <2>6, <2>8, <2>10 DEF IInv, Staged
<1>8. CASE pc = "db"
  <2>1. AtDb
    BY <1>8 DEF IInv, Staged
  <2>2. /\ Hot /\ K[0].nonce = version /\ Found = old /\ RSize <= OSize /\ JSize = KSize
        /\ j.dirty = <<>>
    BY <2>1 DEF AtDb, j
  <2>3. J = K
    <3>1. disk["journal"] \in StoredFile(JSlot(version)) /\ Fits(disk["journal"], j, 0)
      BY <1>2, <1>5 DEF Typed, JournalOpen, j
    <3>2. Unflushed(j, 0) = {}
      BY <2>2, CleanUnflushed
    <3> QED BY <1>5, <3>1, <3>2, FlushedPages DEF K
  <2>4. /\ R = Stale /\ IsHot(J, JSize) /\ Consistent(R) /\ J[0].orig = RSize
        /\ \A r \in R : r.page < J[0].orig
    BY <1>2, <2>2, <2>3 DEF Stale, Hot, RSize, Sound
  <2> HIDE DEF R
  <2>5. /\ Typed' /\ DbOpen(written)' /\ JournalOpen(0)' /\ pc' = "undo"
        /\ disk'["journal"] = disk["journal"] /\ disk'["db"].meta = disk["db"].meta
        /\ OSize' = RSize /\ DSize' = DSize /\ K' = K /\ J' = J /\ (Hot' <=> Hot)
        /\ \A p \in Nat : p < OSize' => O'[p] = Overlay(O, R)[p] /\ D'[p] = D[p]
    BY <1>6, <2>2, <2>4
  <2>6. ASSUME NEW p \in Nat, p < RSize PROVE O'[p] = Recovered[p] /\ D'[p] = D[p]
    <3>1. Recovered = Overlay(D, Stale)
      BY <2>2 DEF Recovered
    <3>2. /\ Overlay(O, Stale)[p] = IF Covers(Stale, p) THEN Was(Stale, p) ELSE O[p]
          /\ Overlay(D, Stale)[p] = IF Covers(Stale, p) THEN Was(Stale, p) ELSE D[p]
      BY OverlayAt
    <3>3. O[p] = D[p] \/ Covers(Stale, p)
      BY <2>1, <2>6 DEF AtDb
    <3> QED BY <2>4, <2>5, <2>6, <3>1, <3>2, <3>3
  <2>7. Matches' /\ Sound' /\ Seen(O', OSize') = old
    BY <1>1, <1>2, <2>2, <2>5, <2>6, PlaybackFound
  <2>8. Tells(J)' /\ Tells(K)'
    <3>1. ASSUME NEW i \in Rest, K[i] # Zero, K[i].nonce = version
          PROVE  K[i].page < RSize /\ K[i].was = O'[K[i].page]
      <4>1. K[i] \in Stale
        BY <2>1, <3>1 DEF AtDb
      <4>2. K[i].page \in Nat /\ K[i].page < RSize
        <5>1. K[i] \in JRecord(version)
          BY <1>2, <3>1 DEF Journal, Typed
        <5> QED BY <1>2, <2>4, <4>1, <5>1, Slots0
      <4>3. O'[K[i].page] = Overlay(O, Stale)[K[i].page]
        BY <2>4, <2>5, <4>2
      <4>4. Covers(Stale, K[i].page) /\ Was(Stale, K[i].page) = K[i].was
        <5>1. ASSUME NEW r \in Stale, NEW p \in Nat, r.page = p
              PROVE  Covers(Stale, p) /\ Was(Stale, p) = r.was
          <6>1. Consistent(Stale)
            BY <2>4
          <6> QED BY <5>1, <6>1, OverlayAt
        <5> DEFINE r == K[i]
        <5> HIDE DEF r
        <5>2. r \in Stale /\ r.page \in Nat
          BY <4>1, <4>2 DEF r
        <5>3. Covers(Stale, r.page) /\ Was(Stale, r.page) = r.was
          BY <5>1, <5>2
        <5> QED BY <5>3 DEF r
      <4>5. Overlay(O, Stale)[K[i].page] = K[i].was
        BY <4>2, <4>4, OverlayAt
      <4> QED BY <4>2, <4>3, <4>5
    <3> QED BY <1>1, <2>3, <2>5, <3>1 DEF Tells
  <2>9. AtUndo'
    BY <1>1, <1>5, <2>2, <2>5, <2>7, <2>8 DEF AtUndo
  <2> QED BY <2>5, <2>7, <2>9 DEF IInv, Staged
<1> QED BY <1>1, <1>7, <1>8

-----------------------------------------------------------------------------
(* The transaction.                                                        *)

\* Where a file is idle, what SQLite reads is what a reader of the disk would find.
LEMMA IdleView ==
    ASSUME Typed, AtIdle
    PROVE  /\ OSize \in Nat /\ Whole(O, OSize)
           /\ DatabaseView = Seen(O, OSize) /\ DatabaseView = Found
<1>1. OSize \in Nat
  BY CleanIsStored DEF AtIdle
<1>2. Whole(O, OSize) /\ Found = Seen(O, OSize)
  BY <1>1, MatchesFinds DEF AtIdle, Matches, Agree
<1>3. DatabaseView = Seen(O, OSize)
  BY <1>1, <1>2, ViewIs DEF DatabaseView, O, OSize
<1> QED BY <1>1, <1>2, <1>3

\* The pages that are saved in the journal.
Below(P, size) == {p \in P : p < size}

\* The saved pages have numbers.
Numbered(P, size, saved) ==
    /\ Cardinality(saved) \in Nat
    /\ \A i \in 1..Cardinality(saved) : Nth(saved, i) \in Nat /\ Nth(saved, i) < size
    /\ \A p \in P : p < size => \E i \in 1..Cardinality(saved) : Nth(saved, i) = p

\* The pages to save can be numbered: Nth gives each of them.
LEMMA SavedIs ==
    ASSUME NEW n \in Nat, NEW P, \A p \in P : p \in 0..n - 1, NEW size
    PROVE  Numbered(P, size, Below(P, size))
<1> DEFINE saved == Below(P, size)
<1>0. saved = {p \in P : p < size}
  BY DEF Below
<1>1. saved \in SUBSET Nat
  <2>1. \A p \in 0..n - 1 : p \in Nat
    OBVIOUS
  <2>2. \A p \in saved : p \in 0..n - 1
    BY <1>0
  <2> QED BY <2>1, <2>2
<1>2. IsFiniteSet(saved)
  <2>1. IsFiniteSet(0..n - 1)
    <3>1. 0 \in Int /\ n - 1 \in Int
      OBVIOUS
    <3> QED BY <3>1, FS_Interval
  <2>2. saved \subseteq 0..n - 1
    BY <1>0
  <2> QED BY <2>1, <2>2, FS_Subset
<1>3. /\ Cardinality(saved) \in Nat
      /\ \A i \in 1..Cardinality(saved) : Nth(saved, i) \in saved
      /\ \A k \in saved : \E i \in 1..Cardinality(saved) : Nth(saved, i) = k
  BY <1>1, <1>2, NthIs
<1> DEFINE N == Cardinality(saved)
           nth(i) == Nth(saved, i)
<1>4. \A i \in 1..N : nth(i) \in Nat /\ nth(i) < size
  BY <1>0, <1>1, <1>3
<1>5. \A p \in P : p < size => \E i \in 1..N : nth(i) = p
  BY <1>0, <1>3
<1> QED BY <1>3, <1>4, <1>5 DEF Numbered

\* The image of a transaction that changes the pages P of what is seen in f.
Changed(before, v, n, P) ==
    [i \in 1..n |-> IF i - 1 \in P THEN [v |-> v + 1, n |-> n] ELSE before[i]]

\* The image of a transaction has the pages that it changes and those it keeps.
LEMMA NewImage ==
    ASSUME NEW v \in Nat, NEW f \in [Nat -> DbSlot(v)], NEW s \in Nat, Whole(f, s),
           NEW before, before = Seen(f, s), NEW n \in Nat, n > 0,
           NEW P \in Changes(before, n),
           NEW image, image = Changed(before, v, n, P)
    PROVE  /\ P \in SUBSET (0..n - 1)
           /\ image \in [1..n -> DbSlot(v + 1) \ {Zero}] /\ image[1] = [v |-> v + 1, n |-> n]
           /\ \A p \in 0..n - 1 :
                \/ p \in P /\ image[p + 1].v = v + 1
                \/ p \notin P /\ image[p + 1].v # v + 1 /\ p < s /\ image[p + 1] = f[p]
<1>1. P \in SUBSET (0..n - 1) /\ 0 \in P /\ Len(before)..n - 1 \subseteq P
  BY DEF Changes
<1> DEFINE page == [v |-> v + 1, n |-> n]
<1>2. page \in DbSlot(v + 1) /\ page # Zero /\ page.v = v + 1
  <2>1. page \in [v : 0..v + 1, n : Nat]
    OBVIOUS
  <2>2. page \in DbPage
    BY DEF DbPage
  <2>3. page # Zero
    BY <2>2, ChunkAssumption
  <2> QED BY <2>1, <2>3 DEF DbSlot
<1>3. ASSUME NEW p \in 0..n - 1, p \notin P
      PROVE  p < s /\ before[p + 1] = f[p] /\ f[p] # Zero
  <2> DEFINE c == f[0].n
  <2>1. ~(p \in Len(before)..n - 1)
    BY <1>1, <1>3
  <2>2. CASE s = 0
    <3>1. Len(before) = 0
      BY <2>2 DEF Seen, Empty
    <3> QED BY <2>1, <3>1
  <2>3. CASE s # 0
    <3>1. c \in 1..s /\ \A q \in 0..c - 1 : f[q] # Zero
      BY <2>3 DEF Whole
    <3>2. before = [i \in 1..c |-> f[i - 1]]
      BY <2>3 DEF Seen
    <3> HIDE DEF c
    <3>3. Len(before) = c
      BY <3>1, <3>2
    <3>4. p < c /\ p + 1 \in 1..c /\ p \in 0..c - 1 /\ (p + 1) - 1 = p
      BY <2>1, <3>1, <3>3
    <3> QED BY <3>1, <3>2, <3>4
  <2> QED BY <2>2, <2>3
<1> HIDE DEF page
<1>4. image = [i \in 1..n |-> IF i - 1 \in P THEN page ELSE before[i]]
  BY DEF page, Changed
<1>5. ASSUME NEW p \in 0..n - 1
      PROVE  /\ p + 1 \in 1..n
             /\ image[p + 1] = IF p \in P THEN page ELSE before[p + 1]
  <2>1. p + 1 \in 1..n /\ (p + 1) - 1 = p
    OBVIOUS
  <2> QED BY <1>4, <2>1
<1>6. ASSUME NEW p \in 0..n - 1
      PROVE  /\ image[p + 1] \in DbSlot(v + 1) \ {Zero}
             /\ \/ p \in P /\ image[p + 1].v = v + 1
                \/ p \notin P /\ image[p + 1].v # v + 1 /\ p < s /\ image[p + 1] = f[p]
  <2>1. CASE p \in P
    BY <1>2, <1>5, <2>1
  <2>2. CASE p \notin P
    <3>1. image[p + 1] = f[p] /\ f[p] # Zero /\ p < s
      BY <1>3, <1>5, <2>2
    <3>2. f[p] \in DbSlot(v)
      OBVIOUS
    <3>3. f[p] \in DbSlot(v + 1) /\ f[p].v \in 0..v
      BY <3>1, <3>2, Slots0, NextSlots
    <3>4. f[p].v # v + 1
      BY <3>3
    <3> QED BY <2>2, <3>1, <3>3, <3>4
  <2> QED BY <2>1, <2>2
<1>7. image \in [1..n -> DbSlot(v + 1) \ {Zero}]
  <2>1. ASSUME NEW i \in 1..n PROVE image[i] \in DbSlot(v + 1) \ {Zero}
    <3>1. i - 1 \in 0..n - 1 /\ (i - 1) + 1 = i
      OBVIOUS
    <3> QED BY <1>6, <3>1
  <2> QED BY <1>4, <2>1
<1>8. image[1] = page
  <2>1. 0 \in 0..n - 1 /\ 0 + 1 = 1
    OBVIOUS
  <2>2. image[0 + 1] = page
    BY <1>1, <1>5, <2>1
  <2> QED BY <2>1, <2>2
<1> QED BY <1>1, <1>6, <1>7, <1>8 DEF page

\* A transaction writes its journal: a header and what was in the pages that it will change.
Begun(content, v, size, N, nth, f) ==
    /\ DOMAIN content = 0..N /\ content = [i \in 0..N |-> content[i]]
    /\ content[0] = [nonce |-> v + 1, orig |-> size, n |-> N]
    /\ \A i \in 1..N : content[i] = [nonce |-> v + 1, page |-> nth[i], was |-> f[nth[i]]]

Begins(v, d, m, f, size, N, nth, content, x, k) ==
    /\ v \in Nat /\ size \in Nat /\ N \in Nat
    /\ d \in StoredFile(JSlot(v)) /\ m \in OpenFile(JSlot(v)) /\ Fits(d, m, 0)
    /\ Journal(Pages(d, m), v) /\ f \in [Nat -> DbSlot(v)]
    /\ \A i \in 1..N : nth[i] \in Nat /\ nth[i] < size
    /\ Begun(content, v, size, N, nth, f)
    /\ x = WritePages(d, m, content) /\ k = Pages(d, x)

\* The journal of a transaction has its header, its records, and nothing else of its nonce.
LEMMA JournalBegun ==
    ASSUME NEW v, NEW d, NEW m, NEW f, NEW size, NEW N, NEW nth, NEW content, NEW x, NEW k,
           Begins(v, d, m, f, size, N, nth, content, x, k)
    PROVE  /\ x \in OpenFile(JSlot(v + 1)) /\ Fits(d, x, 0) /\ Journal(k, v + 1)
           /\ k[0] # Zero /\ k[0].nonce = v + 1 /\ k[0].orig = size /\ k[0].n = N /\ N < x.size
           /\ \A i \in Rest : i <= N <=> k[i] # Zero /\ k[i].nonce = v + 1
           /\ \A i \in Rest : i <= N => k[i].page = nth[i] /\ k[i].was = f[nth[i]]
<1> SUFFICES ASSUME v \in Nat, size \in Nat, N \in Nat,
                    d \in StoredFile(JSlot(v)), m \in OpenFile(JSlot(v)),
                    Fits(d, m, 0), Journal(Pages(d, m), v), f \in [Nat -> DbSlot(v)],
                    \A i \in 1..N : nth[i] \in Nat /\ nth[i] < size,
                    Begun(content, v, size, N, nth, f),
                    x = WritePages(d, m, content), k = Pages(d, x)
             PROVE  /\ x \in OpenFile(JSlot(v + 1)) /\ Fits(d, x, 0) /\ Journal(k, v + 1)
                    /\ k[0] # Zero /\ k[0].nonce = v + 1 /\ k[0].orig = size /\ k[0].n = N
                    /\ N < x.size
                    /\ \A i \in Rest : i <= N <=> k[i] # Zero /\ k[i].nonce = v + 1
                    /\ \A i \in Rest : i <= N => k[i].page = nth[i] /\ k[i].was = f[nth[i]]
  BY DEF Begins
<1>1. content[0] \in JHeader(v + 1)
  BY DEF JHeader, Begun
<1>2. ASSUME NEW i \in 1..N
      PROVE  /\ content[i] \in JRecord(v + 1) /\ content[i].nonce = v + 1
             /\ content[i].page = nth[i] /\ content[i].was = f[nth[i]]
  <2> DEFINE a == 0..v + 1
             S == DbSlot(v + 1)
             w == f[nth[i]]
  <2>1. nth[i] \in Nat /\ v + 1 \in a
    OBVIOUS
  <2>2. w \in S
    <3>1. w \in DbSlot(v)
      BY <2>1
    <3> QED BY <3>1, NextSlots
  <2> HIDE DEF a, S, w
  <2>3. content[i] = [nonce |-> v + 1, page |-> nth[i], was |-> w]
    BY DEF w, Begun
  <2>4. content[i] \in [nonce : a, page : Nat, was : S]
    BY <2>1, <2>2, <2>3
  <2> QED BY <2>3, <2>4 DEF JRecord, a, S, w
<1>3. content \in [0..N -> JSlot(v + 1)]
  <2>1. ASSUME NEW i \in 0..N PROVE content[i] \in JSlot(v + 1)
    <3>1. i = 0 \/ i \in 1..N
      OBVIOUS
    <3> QED BY <1>1, <1>2, <3>1 DEF JSlot
  <2> QED BY <2>1 DEF Begun
<1>4. 0..N \in SUBSET Nat /\ IsFiniteSet(0..N)
  <2>1. 0 \in Int /\ N \in Int
    OBVIOUS
  <2>2. IsFiniteSet(0..N)
    BY <2>1, FS_Interval
  <2>3. \A i \in 0..N : i \in Nat
    OBVIOUS
  <2> QED BY <2>2, <2>3
<1>5. /\ d \in StoredFile(JSlot(v + 1)) /\ m \in OpenFile(JSlot(v + 1))
      /\ Zero \in JSlot(v + 1)
  <2>1. JSlot(v) \subseteq JSlot(v + 1)
    BY NextSlots
  <2>2. Zero \in JSlot(v + 1)
    BY Slots0
  <2> QED BY <2>1, <2>2, Widened
<1>6. x \in OpenFile(JSlot(v + 1)) /\ Wrote(d, m, x, content, 0..N)
  BY <1>3, <1>4, <1>5, WriteMany
<1>7. \A p \in Nat : k[p] = IF p \in 0..N THEN content[p] ELSE Pages(d, m)[p]
  BY <1>6 DEF Wrote
<1>8. Fits(d, x, 0) /\ N < x.size
  BY <1>6 DEF Wrote
<1>9. k[0] = content[0]
  BY <1>7
<1>10. ASSUME NEW i \in Rest
       PROVE  /\ i <= N => k[i] = content[i] /\ i \in 1..N
              /\ ~(i <= N) => k[i] = Pages(d, m)[i]
  BY <1>7, <1>10 DEF Rest
<1>11. ASSUME NEW i \in Rest, ~(i <= N) PROVE k[i] = Zero \/ (k[i] \in JRecord(v) /\ k[i].nonce # v + 1)
  <2>1. Pages(d, m)[i] \in JRecord(v) \cup {Zero}
    BY DEF Journal
  <2>2. \A r \in JRecord(v) : r.nonce \in 0..v
    BY Slots0
  <2>3. \A r \in JRecord(v) : r.nonce # v + 1
    BY <2>2
  <2> QED BY <1>10, <1>11, <2>1, <2>3
<1>12. \A r \in JRecord(v + 1) : r # Zero
  BY Slots0
<1>13. JRecord(v) \subseteq JRecord(v + 1)
  BY NextSlots
<1>14. Journal(k, v + 1)
  <2>1. ASSUME NEW i \in Rest PROVE k[i] \in JRecord(v + 1) \cup {Zero}
    BY <1>2, <1>10, <1>11, <1>13
  <2> QED BY <1>1, <1>9, <2>1 DEF Journal
<1>15. /\ k[0] # Zero /\ k[0].nonce = v + 1 /\ k[0].orig = size /\ k[0].n = N
  <2>1. \A h \in JHeader(v + 1) : h # Zero
    BY Slots0
  <2> QED BY <1>1, <1>9, <2>1 DEF Begun
<1>16. \A i \in Rest : i <= N <=> k[i] # Zero /\ k[i].nonce = v + 1
  BY <1>2, <1>10, <1>11, <1>12
<1>17. \A i \in Rest : i <= N => k[i].page = nth[i] /\ k[i].was = f[nth[i]]
  BY <1>2, <1>10
<1> QED BY <1>6, <1>8, <1>14, <1>15, <1>16, <1>17

\* A transaction opens its journal, over the leftovers of earlier ones.
LEMMA BeginTransactionStep == IInv /\ BeginTransaction => IInv'
<1> SUFFICES ASSUME IInv, BeginTransaction PROVE IInv'
  OBVIOUS
<1>1. /\ pc = "idle" /\ goal = "serve" /\ version' = version + 1 /\ pc' = "journal"
      /\ disk' = disk /\ written' = written /\ goal' = goal /\ legacy' = legacy /\ missed' = missed
  BY DEF BeginTransaction
<1>2. Typed /\ Sound /\ AtIdle /\ version \in Nat /\ "idle" \in Session /\ "journal" \in Session
  BY <1>1 DEF IInv, Staged, Session, Transaction, Typed
<1>3. /\ written = 0 /\ DbOpen(0) /\ open["db"].dirty = <<>> /\ Matches /\ ~Hot
      /\ open["journal"] # Null => JournalOpen(0)
  BY <1>2 DEF AtIdle
<1>4. /\ OSize \in Nat /\ Whole(O, OSize)
      /\ DatabaseView = Seen(O, OSize) /\ DatabaseView = Found
  BY <1>2, IdleView
<1> DEFINE before == DatabaseView
           d == disk["journal"]
           m == IF open["journal"] = Null THEN Opened(d) ELSE open["journal"]
           size == open["db"].size
           saved(P) == {p \in P : p < size}
           page(P, i) == IF i = 0
                         THEN [nonce |-> version + 1, orig |-> size, n |-> Cardinality(saved(P))]
                         ELSE [nonce |-> version + 1, page |-> Nth(saved(P), i),
                               was |-> ReadPage(disk["db"], open["db"], Nth(saved(P), i))]
           content(P) == [i \in 0..Cardinality(saved(P)) |-> page(P, i)]
<1>50. PICK n \in 1..MaxPages : \E P \in Changes(before, n) :
          /\ open' = [open EXCEPT !["journal"] = WritePages(d, m, content(P))]
          /\ old' = before
          /\ new' = [i \in 1..n |-> IF i - 1 \in P THEN [v |-> version + 1, n |-> n] ELSE before[i]]
  BY Zenon DEF BeginTransaction
<1>5. PICK P \in Changes(before, n) :
          /\ open' = [open EXCEPT !["journal"] = WritePages(d, m, content(P))]
          /\ old' = before
          /\ new' = [i \in 1..n |-> IF i - 1 \in P THEN [v |-> version + 1, n |-> n] ELSE before[i]]
  BY <1>50, Zenon
<1> DEFINE S == saved(P)
           N == Cardinality(S)
           nth == [i \in 1..N |-> Nth(S, i)]
           c == content(P)
           x == WritePages(d, m, c)
           k == Pages(d, x)
<1>6. n \in Nat /\ n > 0
  BY <1>5, ChunkAssumption
<1>7. O \in [Nat -> DbSlot(version)] /\ size = OSize
  <2>1. Zero \in DbSlot(version)
    BY <1>2, Slots0
  <2> QED BY <1>2, <1>3, <2>1, PagesTyped DEF O, OSize, Typed, DbOpen
<1> HIDE DEF size
<1>8. /\ P \in SUBSET (0..n - 1)
      /\ new' \in [1..n -> DbSlot(version + 1) \ {Zero}] /\ new'[1] = [v |-> version + 1, n |-> n]
      /\ \A p \in 0..n - 1 :
            \/ p \in P /\ new'[p + 1].v = version + 1
            \/ p \notin P /\ new'[p + 1].v # version + 1 /\ p < OSize /\ new'[p + 1] = O[p]
  <2> DEFINE b == before
             image == new'
  <2>1. /\ b = Seen(O, OSize) /\ P \in Changes(b, n)
        /\ image = Changed(b, version, n, P)
    BY <1>4, <1>5 DEF Changed
  <2> HIDE DEF b, image
  <2>2. /\ P \in SUBSET (0..n - 1)
        /\ image \in [1..n -> DbSlot(version + 1) \ {Zero}] /\ image[1] = [v |-> version + 1, n |-> n]
        /\ \A p \in 0..n - 1 :
              \/ p \in P /\ image[p + 1].v = version + 1
              \/ p \notin P /\ image[p + 1].v # version + 1 /\ p < OSize /\ image[p + 1] = O[p]
    BY <1>2, <1>4, <1>6, <1>7, <2>1, NewImage
  <2> QED BY <2>2 DEF image
<1>9. /\ N \in Nat
      /\ \A i \in 1..N : Nth(S, i) \in Nat /\ Nth(S, i) < size
      /\ \A p \in P : p < size => \E i \in 1..N : Nth(S, i) = p
  <2>1. S = Below(P, size)
    BY DEF Below
  <2> HIDE DEF S
  <2>2. P \in SUBSET (0..n - 1) /\ n \in Nat
    BY <1>6, <1>8
  <2> HIDE DEF size, before
  <2>3. \A p \in P : p \in 0..n - 1
    BY <2>2
  <2>4. Numbered(P, size, Below(P, size))
    BY <2>2, <2>3, SavedIs
  <2> QED BY <2>1, <2>4 DEF Numbered
<1>10. \A i \in 1..N : nth[i] = Nth(S, i) /\ nth[i] \in Nat /\ nth[i] < OSize
  <2> HIDE DEF S
  <2> QED BY <1>7, <1>9
<1>11. /\ DOMAIN c = 0..N /\ c = [i \in 0..N |-> c[i]]
       /\ c[0] = [nonce |-> version + 1, orig |-> OSize, n |-> N]
       /\ \A i \in 1..N : c[i] = [nonce |-> version + 1, page |-> nth[i], was |-> O[nth[i]]]
  <2>1. c = [i \in 0..N |-> page(P, i)]
    OBVIOUS
  <2>2. page(P, 0) = [nonce |-> version + 1, orig |-> OSize, n |-> N]
    BY <1>7
  <2>3. ASSUME NEW i \in 1..N
        PROVE  page(P, i) = [nonce |-> version + 1, page |-> nth[i], was |-> O[nth[i]]]
    <3>1. i # 0 /\ nth[i] = Nth(S, i) /\ nth[i] \in Nat /\ nth[i] < OSize
      <4> HIDE DEF nth, N, S
      <4> QED BY <1>9, <1>10
    <3>2. ReadPage(disk["db"], open["db"], nth[i]) = O[nth[i]]
      <4> HIDE DEF nth, N, S
      <4> QED BY <1>7, <3>1, ReadIs DEF O, size
    <3>3. page(P, i) = [nonce |-> version + 1, page |-> Nth(S, i),
                        was |-> ReadPage(disk["db"], open["db"], Nth(S, i))]
      BY <3>1
    <3> HIDE DEF page, nth, N, S
    <3> QED BY <3>1, <3>2, <3>3
  <2> HIDE DEF page, nth, c, N, S
  <2>4. \A i \in 1..N : i \in 0..N /\ 0 \in 0..N
    BY <1>9
  <2>5. 0 \in 0..N
    BY <1>9
  <2> QED BY <2>1, <2>2, <2>3, <2>4, <2>5
<1>110. Begun(c, version, OSize, N, nth, O)
  <2> HIDE DEF c, nth, N, S
  <2> QED BY <1>11 DEF Begun
<1>12. /\ d \in StoredFile(JSlot(version)) /\ m \in OpenFile(JSlot(version)) /\ Fits(d, m, 0)
       /\ Journal(Pages(d, m), version)
  <2>1. d \in StoredFile(JSlot(version)) /\ Journal(K, version)
    BY <1>2 DEF Typed
  <2>2. CASE open["journal"] = Null
    <3>1. Pages(d, m) = K
      BY <2>2 DEF K, OnDisk
    <3> QED BY <2>1, <2>2, <3>1, OpenedFits
  <2>3. CASE open["journal"] # Null
    BY <1>3, <2>1, <2>3 DEF JournalOpen, J
  <2> QED BY <2>2, <2>3
<1> HIDE DEF c, nth, N, S, m, d
<1>13. x = WritePages(d, m, c) /\ k = Pages(d, x)
  OBVIOUS
<1> HIDE DEF x, k
<1>14. /\ x \in OpenFile(JSlot(version + 1)) /\ Fits(d, x, 0) /\ Journal(k, version + 1)
       /\ k[0] # Zero /\ k[0].nonce = version + 1 /\ k[0].orig = OSize /\ k[0].n = N /\ N < x.size
       /\ \A i \in Rest : i <= N <=> k[i] # Zero /\ k[i].nonce = version + 1
       /\ \A i \in Rest : i <= N => k[i].page = nth[i] /\ k[i].was = O[nth[i]]
  <2>1. version \in Nat /\ OSize \in Nat /\ N \in Nat
    BY <1>2, <1>4, <1>9
  <2>2. \A i \in 1..N : nth[i] \in Nat /\ nth[i] < OSize
    BY <1>10
  <2>3. O \in [Nat -> DbSlot(version)]
    BY <1>7
  <2>4. Begins(version, d, m, O, OSize, N, nth, c, x, k)
    BY <2>1, <2>2, <2>3, <1>110, <1>12, <1>13 DEF Begins
  <2> QED BY <2>4, JournalBegun
<1>15. open'["journal"] = x /\ open'["db"] = open["db"] /\ open' = [f \in Files |-> open'[f]]
  <2>1. open = [f \in Files |-> open[f]]
    BY <1>2 DEF Typed
  <2>2. DOMAIN open = Files /\ "db" \in Files /\ "journal" \in Files
    BY <2>1 DEF Files
  <2>3. open' = [open EXCEPT !["journal"] = x]
    BY <1>5 DEF x, c
  <2> QED BY <2>2, <2>3
<1>16. J' = k /\ JSize' = x.size /\ O' = O /\ OSize' = OSize
  BY <1>1, <1>15 DEF J, JSize, O, OSize, k, d
<1>17. /\ D' = D /\ DSize' = DSize /\ K' = K /\ KSize' = KSize
       /\ (Hot' <=> Hot) /\ Recovered' = Recovered /\ RSize' = RSize /\ Found' = Found
  BY <1>1, SameDisk
<1>18. /\ DbSlot(version) \subseteq DbSlot(version') /\ JSlot(version) \subseteq JSlot(version')
       /\ JHeader(version) \subseteq JHeader(version') /\ JRecord(version) \subseteq JRecord(version')
       /\ StoredFile(DbSlot(version)) \subseteq StoredFile(DbSlot(version'))
       /\ StoredFile(JSlot(version)) \subseteq StoredFile(JSlot(version'))
       /\ OpenFile(DbSlot(version)) \subseteq OpenFile(DbSlot(version'))
  BY <1>1, <1>2, NextSlots, Widened
<1>19. Typed'
  <2>1. Journal(K', version')
    BY <1>2, <1>17, <1>18 DEF Typed, Journal
  <2>2. version' \in Nat
    BY <1>1, <1>2
  <2> QED BY <1>1, <1>2, <1>15, <1>18, <2>1, <2>2, StagesAre DEF Typed
<1>20. Sound'
  <2>1. NotMigrated => old' = Empty
    <3>1. NotMigrated => DSize = 0
      BY <1>2, Sizes DEF NotMigrated
    <3> QED BY <1>2, <1>4, <1>5, <3>1, Sizes
  <2>2. (NotMigrated' <=> NotMigrated) /\ Found' \in Allowed' /\ pc # "node"
    BY <1>1, <1>4, <1>5, <1>17 DEF NotMigrated, Allowed
  <2>3. Stale' = Stale
    BY <1>1, SameDisk
  <2> QED BY <1>1, <1>2, <1>17, <2>1, <2>2, <2>3 DEF Sound
<1>21. AtJournal'
  <2>1. DbOpen(0)' /\ Matches' /\ Seen(O', OSize') = old'
    BY <1>1, <1>3, <1>4, <1>5, <1>15, <1>16, <1>17, <1>18 DEF DbOpen, Matches
  <2>2. JournalOpen(written)'
    BY <1>1, <1>3, <1>14, <1>15, <1>16 DEF JournalOpen, d
  <2>3. Tells(J)'
    <3>1. ASSUME NEW i \in Rest, k[i] # Zero, k[i].nonce = version + 1
          PROVE  k[i].page < OSize /\ k[i].was = O[k[i].page]
      <4>1. i <= N /\ i \in 1..N
        BY <1>9, <1>14, <3>1 DEF Rest
      <4> QED BY <1>10, <1>14, <4>1
    <3> QED BY <1>1, <1>16, <3>1 DEF Tells
  <2>4. Tells(K)'
    <3>1. ASSUME NEW i \in Rest, K[i] # Zero PROVE K[i].nonce # version + 1
      <4>1. K[i] \in JRecord(version)
        BY <1>2, <3>1 DEF Typed, Journal
      <4>2. K[i].nonce \in 0..version
        BY <1>2, <4>1, Slots0
      <4> QED BY <1>2, <4>2
    <3> QED BY <1>1, <1>17, <3>1 DEF Tells
  <2>5. /\ J'[0] # Zero /\ J'[0].nonce = version' /\ J'[0].orig = OSize' /\ J'[0].n < JSize'
        /\ \A i \in Rest : i <= J'[0].n <=> J'[i] # Zero /\ J'[i].nonce = version'
    BY <1>1, <1>14, <1>16
  <2>6. \E z \in Rest :
          /\ new' \in [1..z -> DbSlot(version') \ {Zero}] /\ new'[1] = [v |-> version', n |-> z]
          /\ \A p \in 0..z - 1 :
              \/ new'[p + 1].v = version' /\ (p >= OSize' \/ \E i \in 1..J'[0].n : J'[i].page = p)
              \/ new'[p + 1].v # version' /\ p < OSize' /\ new'[p + 1] = O'[p]
    <3>1. n \in Rest
      BY <1>6 DEF Rest
    <3>2. ASSUME NEW p \in P, p < OSize PROVE \E i \in 1..N : k[i].page = p
      <4>1. PICK i \in 1..N : Nth(S, i) = p
        BY <1>7, <1>9, <3>2
      <4>2. i \in Rest /\ i <= N
        BY <1>9 DEF Rest
      <4>3. k[i].page = p
        BY <1>10, <1>14, <4>1, <4>2
      <4> QED BY <4>3
    <3>3. ASSUME NEW p \in 0..n - 1
          PROVE  \/ new'[p + 1].v = version' /\ (p >= OSize' \/ \E i \in 1..J'[0].n : J'[i].page = p)
                 \/ new'[p + 1].v # version' /\ p < OSize' /\ new'[p + 1] = O'[p]
      <4>1. CASE p \in P
        <5>1. new'[p + 1].v = version'
          BY <1>1, <1>8, <4>1
        <5>2. p >= OSize \/ \E i \in 1..N : k[i].page = p
          BY <1>4, <3>2, <4>1
        <5> QED BY <1>14, <1>16, <5>1, <5>2
      <4>2. CASE p \notin P
        BY <1>1, <1>8, <1>16, <4>2
      <4> QED BY <4>1, <4>2
    <3> QED BY <1>1, <1>8, <3>1, <3>3
  <2> QED BY <1>1, <1>3, <1>15, <1>17, <2>1, <2>2, <2>3, <2>4, <2>5, <2>6 DEF AtJournal
<1> QED BY <1>1, <1>19, <1>20, <1>21 DEF IInv, Staged

\* The pages of the image of a transaction that it has changed.
NewPages(image, v) ==
    LET changed == {i \in 1..Len(image) : image[i].v = v}
    IN [p \in {i - 1 : i \in changed} |-> image[p + 1]]

\* An image that changes what is in the pages f, of which there are s.
Planned(image, v, n, f, s) ==
    /\ image \in [1..n -> DbSlot(v) \ {Zero}] /\ image[1] = [v |-> v, n |-> n]
    /\ \A p \in 0..n - 1 : \/ image[p + 1].v = v
                           \/ image[p + 1].v # v /\ p < s /\ image[p + 1] = f[p]

\* The pages to write, by their numbers.
LEMMA NewPagesAre ==
    ASSUME NEW v \in Nat, NEW n \in Rest, NEW f, NEW s \in Nat, NEW image, Planned(image, v, n, f, s),
           NEW P, P = DOMAIN NewPages(image, v), NEW content, content = NewPages(image, v)
    PROVE  /\ P \in SUBSET (0..n - 1) /\ 0 \in P
           /\ content = [p \in P |-> image[p + 1]] /\ content \in [P -> DbSlot(v)]
           /\ \A p \in 0..n - 1 : p \in P <=> image[p + 1].v = v
           /\ \A p \in 0..n - 1 : p \notin P => p < s /\ image[p + 1] = f[p]
<1>1. /\ image \in [1..n -> DbSlot(v) \ {Zero}] /\ image[1] = [v |-> v, n |-> n]
      /\ \A p \in 0..n - 1 : \/ image[p + 1].v = v
                             \/ image[p + 1].v # v /\ p < s /\ image[p + 1] = f[p]
  BY DEF Planned
<1>2. n \in Nat /\ n > 0
  BY DEF Rest
<1>3. Len(image) = n
  BY <1>1, <1>2
<1> DEFINE Q == {i - 1 : i \in {i \in 1..n : image[i].v = v}}
<1>4. NewPages(image, v) = [p \in Q |-> image[p + 1]]
  BY <1>3 DEF NewPages
<1>5. \A p \in Q : p \in 0..n - 1 /\ image[p + 1].v = v
  BY <1>2
<1>6. ASSUME NEW p \in 0..n - 1, image[p + 1].v = v PROVE p \in Q
  <2>1. p + 1 \in 1..n /\ (p + 1) - 1 = p
    BY <1>2
  <2> QED BY <1>6, <2>1
<1>7. P = Q
  BY <1>4
<1> HIDE DEF Q
<1>8. content = [p \in P |-> image[p + 1]]
  BY <1>4, <1>7
<1>9. ASSUME NEW p \in P PROVE image[p + 1] \in DbSlot(v)
  <2>1. p + 1 \in 1..n
    BY <1>2, <1>5, <1>7
  <2> QED BY <1>1, <2>1
<1>10. 0 \in P
  <2>1. 0 \in 0..n - 1 /\ 0 + 1 = 1
    BY <1>2
  <2>2. image[0 + 1].v = v
    BY <1>1, <2>1
  <2> QED BY <1>6, <1>7, <2>1, <2>2
<1> QED BY <1>1, <1>5, <1>6, <1>7, <1>8, <1>9, <1>10

\* What is open when a transaction has written its pages.
Planting(v, d, m, f, s, image, n, x, g) ==
    /\ v \in Nat /\ n \in Rest /\ d \in StoredFile(DbSlot(v)) /\ m \in OpenFile(DbSlot(v))
    /\ Fits(d, m, 0) /\ f = Pages(d, m) /\ s = m.size /\ Planned(image, v, n, f, s)
    /\ x = WritePages(d, m, NewPages(image, v)) /\ g = Pages(d, x)

\* The pages of a transaction are written: what is seen is its image.
LEMMA PagesWritten ==
    ASSUME NEW v, NEW d, NEW m, NEW f, NEW s, NEW image, NEW n, NEW x, NEW g,
           Planting(v, d, m, f, s, image, n, x, g)
    PROVE  /\ x \in OpenFile(DbSlot(v)) /\ Fits(d, x, 0)
           /\ s <= x.size /\ Whole(g, x.size) /\ x.size # 0 /\ Seen(g, x.size) = image
           /\ \A p \in Nat : g[p] = f[p] \/ (p \in 0..n - 1 /\ image[p + 1].v = v)
<1>0. /\ v \in Nat /\ n \in Rest /\ d \in StoredFile(DbSlot(v)) /\ m \in OpenFile(DbSlot(v))
      /\ Fits(d, m, 0) /\ f = Pages(d, m) /\ s = m.size /\ Planned(image, v, n, f, s)
      /\ x = WritePages(d, m, NewPages(image, v)) /\ g = Pages(d, x)
  BY DEF Planting
<1> DEFINE content == NewPages(image, v)
           P == DOMAIN content
           S == DbSlot(v)
<1>1. s \in Nat /\ n \in Nat /\ n > 0
  BY <1>0 DEF OpenFile, Rest
<1>2. /\ P \in SUBSET (0..n - 1) /\ 0 \in P
      /\ content = [p \in P |-> image[p + 1]] /\ content \in [P -> S]
      /\ \A p \in 0..n - 1 : p \in P <=> image[p + 1].v = v
      /\ \A p \in 0..n - 1 : p \notin P => p < s /\ image[p + 1] = f[p]
  <2>1. P = DOMAIN NewPages(image, v) /\ content = NewPages(image, v) /\ S = DbSlot(v)
    OBVIOUS
  <2> HIDE DEF P, content, S
  <2> QED BY <1>0, <1>1, <2>1, NewPagesAre
<1>3. IsFiniteSet(P) /\ P \in SUBSET Nat
  <2>1. IsFiniteSet(0..n - 1)
    <3>1. 0 \in Int /\ n - 1 \in Int
      BY <1>1
    <3> QED BY <3>1, FS_Interval
  <2>2. \A p \in 0..n - 1 : p \in Nat
    OBVIOUS
  <2> HIDE DEF P
  <2>3. P \subseteq 0..n - 1
    BY <1>2
  <2> QED BY <2>1, <2>2, <2>3, FS_Subset
<1>4. Zero \in S /\ x = WritePages(d, m, content)
  BY <1>0, Slots0
<1> HIDE DEF P, content, S
<1>5. x \in OpenFile(S) /\ Wrote(d, m, x, content, P)
  BY <1>0, <1>2, <1>3, <1>4, WriteMany DEF S
<1>6. /\ Fits(d, x, 0) /\ s <= x.size /\ \A p \in P : p < x.size
      /\ \A p \in Nat : g[p] = IF p \in P THEN content[p] ELSE f[p]
  BY <1>0, <1>5 DEF Wrote
<1>7. x.size \in Nat
  BY <1>5 DEF OpenFile
<1>8. ASSUME NEW p \in 0..n - 1 PROVE g[p] = image[p + 1] /\ p < x.size
  <2>1. p \in Nat
    BY <1>1
  <2>2. CASE p \in P
    BY <1>2, <1>6, <2>1, <2>2
  <2>3. CASE p \notin P
    BY <1>1, <1>2, <1>6, <1>7, <2>1, <2>3
  <2> QED BY <2>2, <2>3
<1>9. /\ image \in [1..n -> DbSlot(v) \ {Zero}] /\ image[1] = [v |-> v, n |-> n]
  BY <1>0 DEF Planned
<1>10. g[0].n = n /\ n <= x.size /\ x.size # 0
  <2>1. 0 \in 0..n - 1 /\ n - 1 \in 0..n - 1 /\ 0 + 1 = 1
    BY <1>1
  <2>2. g[0] = image[1] /\ n - 1 < x.size
    BY <1>8, <2>1
  <2>3. g[0].n = n
    BY <1>9, <2>2
  <2> QED BY <1>1, <1>7, <2>2, <2>3
<1>11. Whole(g, x.size)
  <2>1. ASSUME NEW p \in 0..n - 1 PROVE g[p] # Zero
    <3>1. p + 1 \in 1..n
      BY <1>1
    <3> QED BY <1>8, <1>9, <3>1
  <2>2. n \in 1..x.size
    BY <1>1, <1>7, <1>10
  <2> QED BY <1>10, <2>1, <2>2 DEF Whole
<1>12. Seen(g, x.size) = image
  <2>1. Seen(g, x.size) = [i \in 1..n |-> g[i - 1]]
    BY <1>10 DEF Seen
  <2>2. ASSUME NEW i \in 1..n PROVE g[i - 1] = image[i]
    <3>1. i - 1 \in 0..n - 1 /\ (i - 1) + 1 = i
      BY <1>1
    <3> QED BY <1>8, <3>1
  <2>3. image = [i \in 1..n |-> image[i]]
    BY <1>9
  <2> QED BY <2>1, <2>2, <2>3
<1>13. \A p \in Nat : g[p] = f[p] \/ (p \in 0..n - 1 /\ image[p + 1].v = v)
  BY <1>2, <1>6
<1> QED BY <1>5, <1>6, <1>10, <1>11, <1>12, <1>13 DEF S

\* A journal that is stored whole tells all its records.
LEMMA AllTold ==
    ASSUME NEW v \in Nat, NEW k, Journal(k, v), NEW size \in Nat, k[0] # Zero, k[0].nonce = v,
           k[0].n < size, \A i \in Rest : i <= k[0].n <=> k[i] # Zero /\ k[i].nonce = v
    PROVE  /\ IsHot(k, size) /\ k[0].n \in Nat
           /\ \A i \in Rest : k[i] # Zero /\ k[i].nonce = v => k[i] \in Told(k, size)
           /\ \A i \in 1..k[0].n : k[i] \in Told(k, size)
<1>1. k[0].n \in Nat
  BY ToldIs
<1>2. ASSUME NEW i \in Rest, i <= k[0].n PROVE Belongs(k, size, i)
  <2>1. i \in Nat /\ i < size
    BY <1>1, <1>2 DEF Rest
  <2> QED BY <1>2, <2>1 DEF Belongs
<1>3. \A i \in Rest : i <= k[0].n => k[i] \in Told(k, size)
  BY <1>2, ToldIs
<1>4. \A i \in 1..k[0].n : i \in Rest /\ i <= k[0].n
  BY <1>1 DEF Rest
<1>5. IsHot(k, size)
  BY <1>1 DEF IsHot
<1> QED BY <1>1, <1>3, <1>4, <1>5

\* The journal is stored, and the pages are written over those that it tells.
LEMMA JournalSyncedStep == IInv /\ JournalSynced => IInv'
<1> SUFFICES ASSUME IInv, JournalSynced PROVE IInv'
  OBVIOUS
<1>1. /\ pc = "journal" /\ FlushEnds /\ pc' = "db" /\ disk' = disk
      /\ goal' = goal /\ legacy' = legacy /\ old' = old /\ new' = new
      /\ version' = version /\ missed' = missed
  BY DEF JournalSynced
<1> DEFINE d == disk["db"]
           m == open["db"]
           x == WritePages(d, m, NewPages(new, version))
           g == Pages(d, x)
<1>2. PICK j \in Evicted(open["journal"]) :
        open' = [open EXCEPT !["journal"] = j, !["db"] = WritePages(disk["db"], @, NewPages(new, version))]
  BY DEF JournalSynced, NewPages
<1>3. Typed /\ Sound /\ AtJournal /\ Flushed = "journal" /\ "journal" \in Session /\ "db" \in Session
  BY <1>1, FlushedFile DEF IInv, Staged, Session, Transaction
<1>4. /\ goal = "serve" /\ DbOpen(0) /\ open["db"].dirty = <<>> /\ Matches /\ Seen(O, OSize) = old
      /\ JournalOpen(written)
      /\ J[0] # Zero /\ J[0].nonce = version /\ J[0].orig = OSize /\ J[0].n < JSize
      /\ \A i \in Rest : i <= J[0].n <=> J[i] # Zero /\ J[i].nonce = version
  BY <1>3 DEF AtJournal
<1>5. PICK n \in Rest :
        /\ new \in [1..n -> DbSlot(version) \ {Zero}] /\ new[1] = [v |-> version, n |-> n]
        /\ \A p \in 0..n - 1 :
            \/ new[p + 1].v = version /\ (p >= OSize \/ \E i \in 1..J[0].n : J[i].page = p)
            \/ new[p + 1].v # version /\ p < OSize /\ new[p + 1] = O[p]
  BY <1>3 DEF AtJournal
<1>6. /\ J = K /\ JSize \in Nat /\ KSize = JSize /\ written' = 0
      /\ j \in OpenFile(JSlot(version)) /\ Fits(disk["journal"], j, 0)
      /\ j.dirty = <<>> /\ j.size = JSize /\ Pages(disk["journal"], j) = J
  BY <1>1, <1>3, <1>4, JournalFlushed
<1>7. /\ O = D /\ OSize \in Nat /\ version \in Nat /\ Journal(K, version)
      /\ d \in StoredFile(DbSlot(version)) /\ m \in OpenFile(DbSlot(version)) /\ Fits(d, m, 0)
  BY <1>3, <1>4, CleanIsStored DEF Typed, DbOpen
<1>8. /\ x \in OpenFile(DbSlot(version)) /\ Fits(d, x, 0)
      /\ OSize <= x.size /\ Whole(g, x.size) /\ x.size # 0 /\ Seen(g, x.size) = new
      /\ \A p \in Nat : g[p] = O[p] \/ (p \in 0..n - 1 /\ new[p + 1].v = version)
  <2>1. Planned(new, version, n, O, OSize)
    BY <1>5 DEF Planned
  <2>2. Planting(version, d, m, O, OSize, new, n, x, g)
    <3>1. O = Pages(d, m) /\ OSize = m.size /\ x = WritePages(d, m, NewPages(new, version))
          /\ g = Pages(d, x) /\ n \in Rest
      BY DEF O, OSize
    <3> HIDE DEF d, m, x, g
    <3> QED BY <1>7, <2>1, <3>1 DEF Planting
  <2> HIDE DEF d, m, x, g
  <2> QED BY <2>2, PagesWritten
<1> HIDE DEF x
<1>9. /\ open'["journal"] = j /\ open'["db"] = x /\ open' = [f \in Files |-> open'[f]]
  <2>1. open = [f \in Files |-> open[f]]
    BY <1>3 DEF Typed
  <2>2. DOMAIN open = Files /\ "db" \in Files /\ "journal" \in Files
    BY <2>1 DEF Files
  <2>3. open' = [open EXCEPT !["journal"] = j, !["db"] = x]
    BY <1>2, <2>2 DEF x
  <2> QED BY <2>2, <2>3
<1>10. /\ D' = D /\ DSize' = DSize /\ K' = K /\ KSize' = KSize /\ (Hot' <=> Hot) /\ Stale' = Stale
       /\ Recovered' = Recovered /\ RSize' = RSize /\ Found' = Found
  BY <1>1, SameDisk
<1>11. O' = g /\ OSize' = x.size /\ J' = J /\ JSize' = JSize
  BY <1>1, <1>6, <1>9 DEF O, OSize, J, JSize
<1>12. /\ Hot /\ \A i \in Rest : K[i] # Zero /\ K[i].nonce = version => K[i] \in Stale
       /\ \A i \in 1..K[0].n : K[i] \in Stale
  BY <1>4, <1>6, <1>7, AllTold DEF Hot, Stale
<1>13. RSize = OSize /\ Found = old
  BY <1>3, <1>4, <1>7, <1>12, MatchesFinds DEF Matches
<1>14. Typed'
  BY <1>1, <1>3, <1>6, <1>9, TypedStays, StagesAre DEF Typed
<1>15. Sound'
  BY <1>1, <1>3, <1>13, SoundStays, StagesAre DEF Sound, NotMigrated, Allowed
<1>16. AtDb'
  <2>1. DbOpen(0)' /\ JournalOpen(0)'
    BY <1>1, <1>4, <1>6, <1>8, <1>9, <1>11 DEF DbOpen, JournalOpen
  <2>2. \A p \in Nat : p < RSize => g[p] = D[p] \/ Covers(Stale, p)
    <3>1. ASSUME NEW p \in Nat, p < OSize, g[p] # O[p] PROVE Covers(Stale, p)
      <4>1. p \in 0..n - 1 /\ new[p + 1].v = version
        BY <1>8, <3>1
      <4>2. \E i \in 1..J[0].n : J[i].page = p
        BY <1>5, <1>7, <3>1, <4>1
      <4> QED BY <1>6, <1>12, <4>2 DEF Covers
    <3> HIDE DEF g
    <3> QED BY <1>7, <1>13, <3>1
  <2> HIDE DEF g
  <2> QED BY <1>1, <1>4, <1>6, <1>8, <1>9, <1>10, <1>11, <1>12, <1>13, <2>1, <2>2 DEF AtDb
<1> QED BY <1>1, <1>14, <1>15, <1>16 DEF IInv, Staged

\* The pages are stored, and the header of the journal is cleared.
LEMMA DatabaseSyncedStep == IInv /\ DatabaseSynced => IInv'
<1> SUFFICES ASSUME IInv, DatabaseSynced PROVE IInv'
  OBVIOUS
<1> DEFINE d == disk["journal"]
           m == open["journal"]
           x == WritePage(d, m, 0, Zero)
<1>1. /\ pc \in {"db", "undo"} /\ FlushEnds /\ pc' = IF pc = "db" THEN "commit" ELSE "undone"
      /\ disk' = disk /\ goal' = goal /\ legacy' = legacy /\ old' = old /\ new' = new
      /\ version' = version /\ missed' = missed
  BY DEF DatabaseSynced
<1>2. PICK y \in Evicted(open["db"]) :
        open' = [open EXCEPT !["db"] = y, !["journal"] = WritePage(disk["journal"], @, 0, Zero)]
  BY DEF DatabaseSynced
<1>3. /\ Typed /\ Sound /\ Flushed = "db" /\ pc \in Session /\ pc' \in Session
      /\ pc = "db" => AtDb
      /\ pc = "undo" => AtUndo
  BY <1>1, FlushedFile DEF IInv, Staged, Session, Transaction
<1>4. goal = "serve" /\ DbOpen(written) /\ JournalOpen(0)
  BY <1>1, <1>3 DEF AtDb, AtUndo
<1>5. /\ O = D /\ OSize \in Nat /\ DSize = OSize /\ disk["db"].meta # Null /\ written' = 0
      /\ y \in OpenFile(DbSlot(version)) /\ Fits(disk["db"], y, 0)
      /\ y.dirty = <<>> /\ ~y.metaDirty /\ y.size = OSize /\ Pages(disk["db"], y) = D
  BY <1>1, <1>3, <1>4, DbFlushed
<1>6. /\ d \in StoredFile(JSlot(version)) /\ m \in OpenFile(JSlot(version)) /\ Fits(d, m, 0)
      /\ Journal(J, version) /\ version \in Nat /\ J = Pages(d, m)
  BY <1>3, <1>4 DEF Typed, JournalOpen, J
<1>7. x \in OpenFile(JSlot(version)) /\ Written(d, m, x, 0, Zero)
  <2>1. Zero \in JSlot(version)
    BY <1>6, Slots0
  <2> HIDE DEF d, m
  <2> QED BY <1>6, <2>1, WriteOne
<1> HIDE DEF x
<1>9. /\ open'["journal"] = x /\ open'["db"] = y /\ open' = [f \in Files |-> open'[f]]
  <2>1. open = [f \in Files |-> open[f]]
    BY <1>3 DEF Typed
  <2>2. DOMAIN open = Files /\ "db" \in Files /\ "journal" \in Files
    BY <2>1 DEF Files
  <2>3. open' = [open EXCEPT !["db"] = y, !["journal"] = x]
    BY <1>2, <2>2 DEF x
  <2> QED BY <2>2, <2>3
<1>10. /\ D' = D /\ DSize' = DSize /\ K' = K /\ KSize' = KSize /\ (Hot' <=> Hot) /\ Stale' = Stale
       /\ Recovered' = Recovered /\ RSize' = RSize /\ Found' = Found
  BY <1>1, SameDisk
<1>11. O' = O /\ OSize' = OSize
  BY <1>1, <1>5, <1>9 DEF O, OSize
<1>12. J' = Pages(d, x)
  BY <1>1, <1>9 DEF J
<1>13. J'[0] = Zero /\ \A i \in Rest : J'[i] = J[i]
  <2>1. \A p \in Nat : Pages(d, x)[p] = IF p = 0 THEN Zero ELSE J[p]
    BY <1>6, <1>7 DEF Written
  <2> QED BY <1>12, <2>1 DEF Rest
<1>14. DbOpen(0)' /\ JournalOpen(0)'
  <2>1. Journal(J', version)
    BY <1>6, <1>13 DEF Journal
  <2>2. Fits(d, x, 0)
    BY <1>7 DEF Written
  <2> QED BY <1>1, <1>5, <1>7, <1>9, <2>1, <2>2 DEF DbOpen, JournalOpen
<1>15. Typed'
  BY <1>1, <1>3, <1>5, <1>9, TypedStays, StagesAre DEF Typed
<1>16. Found = old
  <2>1. CASE pc = "db"
    BY <1>3, <2>1 DEF AtDb
  <2>2. CASE pc = "undo"
    BY <1>3, <1>5, <2>2, MatchesFinds DEF AtUndo
  <2> QED BY <1>1, <2>1, <2>2
<1>17. Sound'
  BY <1>1, <1>3, <1>5, <1>16, SoundStays, StagesAre DEF NotMigrated, Allowed
<1>18. CASE pc = "db"
  <2>1. Whole(O, OSize) /\ OSize # 0 /\ Seen(O, OSize) = new /\ m.dirty = <<>>
    BY <1>3, <1>18 DEF AtDb
  <2>2. Dirty(x) \subseteq {0}
    <3>1. Dirty(m) = {}
      BY <2>1 DEF Dirty
    <3>2. Dirty(x) = Dirty(m) \cup {ChunkOf(0)}
      BY <1>7 DEF Written
    <3> QED BY <3>1, <3>2, PageInSlot
  <2>3. AtCommit'
    BY <1>1, <1>4, <1>5, <1>9, <1>11, <1>13, <1>14, <2>1, <2>2 DEF AtCommit
  <2> QED BY <1>1, <1>15, <1>17, <1>18, <2>3 DEF IInv, Staged
<1>19. CASE pc = "undo"
  <2>1. Matches /\ Seen(O, OSize) = old /\ Tells(J) /\ Tells(K) /\ (Hot => K[0].nonce = version)
    BY <1>3, <1>19 DEF AtUndo
  <2>2. Matches'
    BY <1>10, <1>11, <2>1 DEF Matches
  <2>3. Tells(J)' /\ Tells(K)'
    BY <1>1, <1>10, <1>11, <1>13, <2>1 DEF Tells
  <2>4. AtUndone'
    BY <1>1, <1>4, <1>5, <1>9, <1>10, <1>11, <1>13, <1>14, <2>1, <2>2, <2>3 DEF AtUndone
  <2> QED BY <1>1, <1>15, <1>17, <1>19, <2>4 DEF IInv, Staged
<1> QED BY <1>1, <1>18, <1>19

\* Pages g, of which there are s, begin as the pages f do, as far as the image of f goes.
Prolongs(g, s, f, r) ==
    /\ r \in Nat /\ s \in Nat /\ Whole(f, r) /\ r # 0 /\ f[0].n <= s
    /\ \A p \in Nat : p < f[0].n => g[p] = f[p]

\* What is seen is the same then.
LEMMA SeenFrom ==
    ASSUME NEW g, NEW s, NEW f, NEW r, Prolongs(g, s, f, r)
    PROVE  Whole(g, s) /\ s # 0 /\ Seen(g, s) = Seen(f, r)
<1>0. /\ r \in Nat /\ s \in Nat /\ Whole(f, r) /\ r # 0 /\ f[0].n <= s
      /\ \A p \in Nat : p < f[0].n => g[p] = f[p]
  BY DEF Prolongs
<1> DEFINE n == f[0].n
<1>1. n \in 1..r /\ \A p \in 0..n - 1 : f[p] # Zero
  BY <1>0 DEF Whole
<1>2. g[0] = f[0] /\ g[0].n = n /\ n \in Nat /\ n > 0
  <2> HIDE DEF n
  <2>1. 0 \in Nat /\ 0 < n /\ n \in Nat
    BY <1>0, <1>1
  <2> QED BY <1>0, <2>1 DEF n
<1> HIDE DEF n
<1>3. \A p \in 0..n - 1 : p \in Nat /\ p < n
  BY <1>2
<1>4. \A p \in 0..n - 1 : g[p] = f[p]
  BY <1>0, <1>3 DEF n
<1>5. n \in 1..s /\ s # 0
  BY <1>0, <1>2 DEF n
<1>6. Whole(g, s)
  BY <1>1, <1>2, <1>4, <1>5 DEF Whole
<1>7. Seen(g, s) = [i \in 1..n |-> g[i - 1]] /\ Seen(f, r) = [i \in 1..n |-> f[i - 1]]
  BY <1>0, <1>2, <1>5 DEF Seen, n
<1>8. \A i \in 1..n : i - 1 \in 0..n - 1
  BY <1>2
<1> QED BY <1>4, <1>5, <1>6, <1>7, <1>8

\* The transaction is committed, and the file shrinks no further than its image.
LEMMA CommittedStep == IInv /\ Committed => IInv'
<1> SUFFICES ASSUME IInv, Committed PROVE IInv'
  OBVIOUS
<1> DEFINE d == disk["db"]
           m == open["db"]
           size == IF Len(new) < Len(old) THEN Len(new) ELSE m.size
           e == TruncatedDisk(d, m, size)
           x == Truncated(m, size)
<1>1. /\ pc = "commit" /\ FlushEnds /\ pc' = "idle" /\ old' = new
      /\ goal' = goal /\ legacy' = legacy /\ version' = version /\ missed' = missed
  BY DEF Committed
<1>2. PICK j \in Evicted(open["journal"]) :
        /\ open' = [open EXCEPT !["journal"] = j, !["db"] = Truncated(@, size)]
        /\ disk' = [disk EXCEPT !["db"] = TruncatedDisk(@, open["db"], size)]
  BY DEF Committed
<1>3. Typed /\ Sound /\ AtCommit /\ Flushed = "journal" /\ "idle" \in Session
  BY <1>1, FlushedFile DEF IInv, Staged, Session
<1>4. /\ goal = "serve" /\ DbOpen(0) /\ m.dirty = <<>> /\ ~m.metaDirty
      /\ Whole(O, OSize) /\ OSize # 0 /\ Seen(O, OSize) = new
      /\ JournalOpen(written) /\ J[0] = Zero
  BY <1>3 DEF AtCommit
<1>5. /\ J = K /\ written' = 0
      /\ j \in OpenFile(JSlot(version)) /\ Fits(disk["journal"], j, 0)
      /\ Pages(disk["journal"], j) = J
  BY <1>1, <1>3, <1>4, JournalFlushed
<1>6. /\ O = D /\ OSize \in Nat /\ DSize = OSize /\ d.meta # Null
      /\ version \in Nat /\ Journal(K, version)
      /\ d \in StoredFile(DbSlot(version)) /\ m \in OpenFile(DbSlot(version)) /\ Fits(d, m, 0)
  BY <1>3, <1>4, CleanIsStored DEF Typed, DbOpen
<1>7. /\ size \in Nat /\ O[0].n <= size /\ O[0].n \in Nat /\ O[0].n <= OSize
  <2> DEFINE n == O[0].n
  <2>1. n \in 1..OSize
    BY <1>4 DEF Whole
  <2>2. new = [i \in 1..n |-> O[i - 1]]
    BY <1>4 DEF Seen
  <2> HIDE DEF n
  <2>3. n \in Nat /\ Len(new) = n /\ n <= OSize
    BY <1>6, <2>1, <2>2
  <2>4. m.size = OSize
    BY DEF OSize
  <2> QED BY <1>6, <2>3, <2>4 DEF n
<1> HIDE DEF size
<1>8. e \in StoredFile(DbSlot(version)) /\ x \in OpenFile(DbSlot(version)) /\ CutTo(d, m, e, x, size)
  <2>1. Zero \in DbSlot(version)
    BY <1>6, Slots0
  <2> HIDE DEF d, m
  <2> QED BY <1>6, <1>7, <2>1, TruncateBoth
<1> HIDE DEF e, x
<1>9. /\ open'["journal"] = j /\ open'["db"] = x /\ open' = [f \in Files |-> open'[f]]
      /\ disk'["journal"] = disk["journal"] /\ disk'["db"] = e /\ disk' = [f \in Files |-> disk'[f]]
  <2>1. open = [f \in Files |-> open[f]] /\ disk = [f \in Files |-> disk[f]]
    BY <1>3 DEF Typed
  <2>2. DOMAIN open = Files /\ DOMAIN disk = Files /\ "db" \in Files /\ "journal" \in Files
    BY <2>1 DEF Files
  <2>3. open' = [open EXCEPT !["journal"] = j, !["db"] = x]
    BY <1>2, <2>2 DEF x
  <2>4. disk' = [disk EXCEPT !["db"] = e]
    BY <1>2, <2>2 DEF e
  <2> QED BY <2>2, <2>3, <2>4
<1>10. /\ K' = K /\ J' = J /\ ~Hot'
  <2>1. K' = K
    BY <1>9, SameJournal
  <2>2. J' = J
    BY <1>5, <1>9 DEF J
  <2> QED BY <1>4, <1>5, <2>1, <2>2 DEF Hot, IsHot
<1>11. O' = Pages(e, x) /\ OSize' = x.size /\ D' = OnDisk(e)
  BY <1>9 DEF O, OSize, D
<1>12. /\ Fits(e, x, 0) /\ e.meta = d.meta /\ x.dirty = <<>>
       /\ OSize' = IF size >= OSize THEN OSize ELSE size
       /\ \A p \in Nat : p < OSize' => O'[p] = O[p] /\ D'[p] = O[p]
  <2>1. O = Pages(d, m) /\ OSize = m.size /\ D = OnDisk(d)
    BY DEF O, OSize, D
  <2> QED BY <1>4, <1>6, <1>8, <1>11, <2>1 DEF CutTo
<1>13. DSize' = OSize
  <2>1. SizeOf(e) = e.meta /\ SizeOf(d) = d.meta
    BY <1>6, <1>8, <1>12, OpenedFits
  <2> QED BY <1>6, <1>9, <1>12, <2>1 DEF DSize
<1>14. OSize' \in Nat /\ O[0].n <= OSize' /\ OSize' <= OSize
  BY <1>6, <1>7, <1>12
<1>15. \A p \in Nat : p < O[0].n => O'[p] = O[p] /\ D'[p] = O[p]
  BY <1>7, <1>12, <1>14
<1>16. Whole(O', OSize') /\ OSize' # 0 /\ Seen(O', OSize') = new
  <2>1. Prolongs(O', OSize', O, OSize)
    BY <1>4, <1>6, <1>14, <1>15 DEF Prolongs
  <2>2. Whole(O', OSize') /\ OSize' # 0 /\ Seen(O', OSize') = Seen(O, OSize)
    BY <2>1, SeenFrom
  <2> QED BY <1>4, <2>2
<1>17. Whole(D', OSize) /\ Seen(D', OSize) = new
  <2>1. Prolongs(D', OSize, O, OSize)
    BY <1>4, <1>6, <1>7, <1>15 DEF Prolongs
  <2>2. Whole(D', OSize) /\ Seen(D', OSize) = Seen(O, OSize)
    BY <2>1, SeenFrom
  <2> QED BY <1>4, <2>2
<1>18. Recovered' = D' /\ RSize' = OSize /\ Found' = new
  BY <1>10, <1>13, <1>17 DEF Recovered, RSize, Found
<1>19. Matches'
  BY <1>10, <1>12, <1>14, <1>16, <1>18 DEF Matches, Agree
<1>20. Typed'
  BY <1>1, <1>3, <1>5, <1>8, <1>9, <1>10, StagesAre DEF Typed
<1>21. Sound'
  BY <1>1, <1>6, <1>9, <1>10, <1>12, <1>17, <1>18 DEF Sound, NotMigrated, Allowed
<1>22. AtIdle'
  <2>1. DbOpen(0)'
    BY <1>1, <1>8, <1>9, <1>12 DEF DbOpen
  <2>2. JournalOpen(0)'
    BY <1>1, <1>5, <1>6, <1>9, <1>10 DEF JournalOpen
  <2>3. AllThere'
    BY <1>1, <1>4 DEF AllThere
  <2> QED BY <1>5, <1>9, <1>10, <1>12, <1>19, <2>1, <2>2, <2>3 DEF AtIdle
<1> QED BY <1>1, <1>20, <1>21, <1>22 DEF IInv, Staged

-----------------------------------------------------------------------------
(* The invariant, and what it is for.                                      *)

\* A step that changes nothing keeps the invariant.
LEMMA StutterStep == IInv /\ UNCHANGED vars => IInv'
<1> SUFFICES ASSUME IInv, UNCHANGED vars PROVE IInv'
  OBVIOUS
<1>1. /\ disk' = disk /\ open' = open /\ written' = written /\ pc' = pc /\ goal' = goal
      /\ legacy' = legacy /\ old' = old /\ new' = new /\ version' = version /\ missed' = missed
  BY DEF vars
<1>2. /\ D' = D /\ DSize' = DSize /\ K' = K /\ KSize' = KSize /\ (Hot' <=> Hot) /\ Stale' = Stale
      /\ Recovered' = Recovered /\ RSize' = RSize /\ Found' = Found
  BY <1>1, SameDisk
<1>3. O' = O /\ OSize' = OSize /\ J' = J /\ JSize' = JSize
  BY <1>1 DEF O, OSize, J, JSize
<1>4. Typed'
  BY <1>1, <1>2 DEF IInv, Typed
<1>5. Sound'
  BY <1>1, <1>2 DEF IInv, Sound, NotMigrated, Allowed
<1>6. /\ \A w \in Nat : (DbOpen(w) => DbOpen(w)') /\ (JournalOpen(w) => JournalOpen(w)')
      /\ Matches => Matches'
      /\ Tells(J) => Tells(J)'
      /\ Tells(K) => Tells(K)'
      /\ AllThere => AllThere'
  BY <1>1, <1>2, <1>3 DEF DbOpen, JournalOpen, Matches, Tells, AllThere
<1>7. written \in Nat
  BY DEF IInv, Typed
<1>8. Staged'
  <2>1. Staged
    BY DEF IInv
  <2>2. /\ AtMigrate => AtMigrate'
        /\ AtOpened => AtOpened'
        /\ AtIdle => AtIdle'
        /\ AtDelete => AtDelete'
        /\ AtClose => AtClose'
        /\ AtReplay => AtReplay'
    BY <1>1, <1>2, <1>3, <1>6, <1>7
       DEF AtMigrate, AtOpened, AtIdle, AtDelete, AtClose, AtReplay
  <2>3. AtJournal => AtJournal'
    BY <1>1, <1>2, <1>3, <1>6, <1>7 DEF AtJournal
  <2>4. /\ AtDb => AtDb'
        /\ AtCommit => AtCommit'
        /\ AtUndo => AtUndo'
        /\ AtUndone => AtUndone'
        /\ AtSeeding => AtSeeding'
    BY <1>1, <1>2, <1>3, <1>6, <1>7 DEF AtDb, AtCommit, AtUndo, AtUndone, AtSeeding
  <2> QED BY <1>1, <2>1, <2>2, <2>3, <2>4 DEF Staged
<1> QED BY <1>4, <1>5, <1>8 DEF IInv

\* What is stored is sound, and every stage finds the files as it needs them, in every
\* behaviour: whatever chunk or meta file was the last to be written before a crash.
THEOREM Invariance == Spec => []IInv
<1>1. Init => IInv
  BY InitStep
<1>2. IInv /\ [Next]_vars => IInv'
  <2> SUFFICES ASSUME IInv, [Next]_vars PROVE IInv'
    OBVIOUS
  <2>1. CASE StartOnChunks \/ StartOnNode \/ FirstRead \/ HotPlaybackSynced
    BY <2>1, StartOnChunksStep, StartOnNodeStep, FirstReadStep, HotPlaybackSyncedStep
  <2>2. CASE MigrateChunk \/ MigrateMeta \/ MigrateRemoves \/ MigrateFails
    BY <2>2, MigrateChunkStep, MigrateMetaStep, MigrateRemovesStep, MigrateFailsStep
  <2>3. CASE DeleteChunk \/ DeleteMeta \/ FlushChunk \/ FlushMeta \/ FlushFails
    BY <2>3, DeleteChunkStep, DeleteMetaStep, FlushChunkStep, FlushMetaStep, FlushFailsStep
  <2>4. CASE BeginTransaction \/ JournalSynced \/ DatabaseSynced \/ Committed \/ RolledBack
    BY <2>4, BeginTransactionStep, JournalSyncedStep, DatabaseSyncedStep, CommittedStep, RolledBackStep
  <2>5. CASE Close \/ Closed \/ SeedNode \/ Crash
    BY <2>5, CloseStep, ClosedStep, SeedNodeStep, CrashStep
  <2>6. CASE Finished \/ UNCHANGED vars
    BY <2>6, StutterStep DEF Finished
  <2> QED BY <2>1, <2>2, <2>3, <2>4, <2>5, <2>6 DEF Next
<1> QED BY <1>1, <1>2, PTL DEF Spec

\* Whenever SQLite is idle, it reads the last commit, or, after a crash, the transaction in
\* flight, page by page: for chunks, caches and databases of every size.
THEOREM CommitsAreKept == Spec => []CommitsSurvive
<1>1. IInv => CommitsSurvive
  <2> SUFFICES ASSUME IInv, pc = "idle" PROVE DatabaseView \in Allowed
    BY DEF CommitsSurvive
  <2>1. Typed /\ Sound /\ AtIdle /\ "idle" \in Session
    BY DEF IInv, Staged, Session
  <2>2. DatabaseView = Found
    BY <2>1, IdleView
  <2> QED BY <2>1, <2>2 DEF Sound
<1> QED BY <1>1, Invariance, PTL

\* What is stored, when the desktop's file is made of it.
LEMMA SeededIs ==
    ASSUME Typed, Sound, AtSeeding, pc = "seeding", goal = "seed"
    PROVE  Contents(SeedImage) = Found
<1> DEFINE d == disk["db"]
           n == d.meta
           image == StoredImage(d)
           S == DbSlot(version)
<1>1. /\ d \in StoredFile(S) /\ version \in Nat /\ n # Null /\ ~Hot
      /\ \A c \in Nat : c < ChunkCount(n) => c \in DOMAIN d.chunks
  BY DEF Typed, AtSeeding
<1>2. n \in Nat /\ DSize = n
  BY <1>1, Sizes DEF StoredFile
<1>3. Whole(D, n) /\ Found = Seen(D, n)
  BY <1>1, <1>2 DEF Sound, Recovered, RSize, Found
<1>4. D \in [Nat -> S]
  <2>1. Zero \in S
    BY <1>1, Slots0
  <2>2. Opened(d) \in OpenFile(S)
    BY <1>1, OpenedFits
  <2> QED BY <1>1, <2>1, <2>2, PagesTyped DEF D, OnDisk
<1>5. D = OnDisk(d)
  BY DEF D
<1> HIDE DEF d, S
<1>6. image = [i \in 1..n |-> D[i - 1]]
  <2>1. ChunkCount(n) \in Nat
    BY <1>2, ChunksOfSize
  <2>2. \A c \in 0..ChunkCount(n) - 1 : c \in Nat /\ c < ChunkCount(n)
    BY <2>1
  <2>3. image = [i \in 1..n |-> d.chunks[ChunkOf(i - 1)][(i - 1) % PerChunk]]
    BY <1>1, <2>2 DEF StoredImage
  <2>4. ASSUME NEW i \in 1..n PROVE D[i - 1] = d.chunks[ChunkOf(i - 1)][(i - 1) % PerChunk]
    <3> DEFINE p == i - 1
    <3>1. p \in Nat /\ p < n
      BY <1>2
    <3> HIDE DEF p, n
    <3>2. ChunkOf(p) \in Nat /\ ChunkOf(p) < ChunkCount(n)
      BY <1>2, <3>1, ChunksOfSize, PageInSlot
    <3>3. ChunkOf(p) \in DOMAIN d.chunks
      BY <1>1, <3>2 DEF n
    <3>4. OnDisk(d)[p] = d.chunks[ChunkOf(p)][p % PerChunk]
      BY <1>1, <3>1, <3>3, DiskPages
    <3> QED BY <1>5, <3>4 DEF p
  <2> HIDE DEF image
  <2> QED BY <2>3, <2>4
<1>7. Len(image) = n /\ image \in Seq(S)
  <2> HIDE DEF image, n
  <2>1. \A i \in 1..n : i - 1 \in Nat
    BY <1>2
  <2> QED BY <1>2, <1>4, <1>6, <2>1
<1>8. SeedImage = image
  <2>1. S \subseteq DbPage \cup {Zero}
    <3>1. \A v \in Nat : 0..v \subseteq Nat
      OBVIOUS
    <3> QED BY <1>1, <3>1 DEF S, DbSlot, DbPage
  <2>2. image \in Seq(DbPage \cup {Zero})
    <3> HIDE DEF image
    <3> QED BY <1>7, <2>1
  <2>3. image # Null
    <3> HIDE DEF image
    <3> QED BY <2>2, ChunkAssumption
  <2>4. SeedImage = IF image = Null THEN Empty ELSE image
    BY DEF SeedImage, d
  <2> QED BY <2>3, <2>4
<1> HIDE DEF image, n
<1>9. CASE n = 0
  <2>1. image = Empty
    BY <1>6, <1>9 DEF Empty
  <2> QED BY <1>3, <1>8, <1>9, <2>1 DEF Contents, Seen
<1>10. CASE n # 0
  <2> DEFINE k == D[0].n
  <2>1. k \in 1..n /\ \A p \in 0..k - 1 : D[p] # Zero
    BY <1>3, <1>10 DEF Whole
  <2>2. Found = [i \in 1..k |-> D[i - 1]]
    BY <1>3, <1>10 DEF Seen
  <2>3. image[1] = D[0] /\ image # Empty
    BY <1>2, <1>6, <1>7, <1>10 DEF Empty
  <2>4. image[1].n = k
    BY <2>3
  <2> HIDE DEF k
  <2>5. image[1] # Zero
    <3>1. 0 \in 0..k - 1
      BY <1>2, <2>1
    <3> QED BY <2>1, <2>3, <3>1
  <2>6. Min({k, n}) = k
    BY <1>2, <2>1 DEF Min
  <2>7. Contents(image) = SubSeq(image, 1, k)
    BY <1>7, <2>3, <2>4, <2>5, <2>6 DEF Contents
  <2>8. SubSeq(image, 1, k) = [i \in 1..k |-> image[i]]
    BY <1>2, <1>7, <2>1
  <2>9. \A i \in 1..k : image[i] = D[i - 1]
    BY <1>2, <1>6, <2>1
  <2> QED BY <1>8, <2>2, <2>7, <2>8, <2>9
<1> QED BY <1>9, <1>10

\* The file made for the desktop out of the chunks holds the last commit, also after a crash.
THEOREM SeedIsKept == Spec => SeedIsCommitted
<1>1. IInv /\ [Next]_vars =>
          (pc = "seeding" /\ goal = "seed" /\ pc' = "node" => Contents(node') \in Allowed)
  <2> SUFFICES ASSUME IInv, [Next]_vars, pc = "seeding", goal = "seed", pc' = "node"
               PROVE  Contents(node') \in Allowed
    OBVIOUS
  <2>1. SeedNode
    <3>1. ~(StartOnChunks \/ StartOnNode \/ FirstRead \/ HotPlaybackSynced)
      BY DEF StartOnChunks, StartOnNode, FirstRead, HotPlaybackSynced
    <3>2. ~(MigrateChunk \/ MigrateMeta \/ MigrateRemoves \/ MigrateFails)
      BY DEF MigrateChunk, MigrateMeta, MigrateRemoves, MigrateFails
    <3>3. ~(DeleteChunk \/ DeleteMeta \/ FlushChunk \/ FlushMeta \/ FlushFails)
      BY DEF DeleteChunk, DeleteMeta, FlushChunk, FlushMeta, FlushFails
    <3>4. ~(BeginTransaction \/ JournalSynced \/ DatabaseSynced \/ Committed \/ RolledBack)
      BY DEF BeginTransaction, JournalSynced, DatabaseSynced, Committed, RolledBack
    <3>5. ~(Close \/ Closed \/ Crash \/ Finished \/ UNCHANGED vars)
      BY DEF Close, Closed, Crash, Finished, vars
    <3> QED BY <3>1, <3>2, <3>3, <3>4, <3>5 DEF Next
  <2>2. Typed /\ Sound /\ AtSeeding
    BY DEF IInv, Staged
  <2>3. node' = SeedImage
    BY <2>1 DEF SeedNode
  <2>4. Contents(node') = Found
    BY <2>2, <2>3, SeededIs
  <2>5. ~NotMigrated
    BY <2>2 DEF AtSeeding, NotMigrated
  <2> QED BY <2>2, <2>4, <2>5 DEF Sound
<1>2. IInv /\ [Next]_vars =>
          [pc = "seeding" /\ goal = "seed" /\ pc' = "node" => Contents(node') \in Allowed]_vars
  BY <1>1
<1> QED BY <1>2, Invariance, PTL DEF Spec, SeedIsCommitted

-----------------------------------------------------------------------------
(* Types.                                                                  *)

\* An open file, where there is one.
FileTyped(m) == m # Null =>
    /\ m.size \in Nat /\ m.metaDirty \in BOOLEAN
    /\ {m.dirty[i] : i \in DOMAIN m.dirty} \subseteq DOMAIN m.cache

\* A file that fits what is stored is typed.
LEMMA FitsTyped ==
    ASSUME NEW S, NEW d, NEW m \in OpenFile(S), NEW w, Fits(d, m, w)
    PROVE  FileTyped(m)
BY DEF FileTyped, Fits, OpenFile

\* Every call leaves the open files typed, whichever stage it ends in.
LEMMA FilesTypedStep ==
    ASSUME IInv, IInv', [Next]_vars, FileTyped(open["db"]), FileTyped(open["journal"])
    PROVE  FileTyped(open'["db"]) /\ FileTyped(open'["journal"])
<1>0. ASSUME NEW w, DbOpen(w)' PROVE FileTyped(open'["db"])
  BY <1>0, FitsTyped DEF DbOpen
<1>1. ASSUME NEW w, JournalOpen(w)' PROVE FileTyped(open'["journal"])
  BY <1>1, FitsTyped DEF JournalOpen
<1>2. FileTyped(Null)
  BY DEF FileTyped
<1>3. Staged' /\ Typed' /\ Typed
  BY DEF IInv
<1>4. pc' \in Session => FileTyped(open'["db"])
  <2>1. pc' \in Session => \E w : DbOpen(w)'
    BY <1>3 DEF Session, Transaction, Staged, AtOpened, AtIdle, AtDelete, AtClose, AtReplay,
                AtJournal, AtDb, AtCommit, AtUndo, AtUndone
  <2> QED BY <1>0, <2>1
<1>5. pc' \notin Session => open' = open \/ open' = [f \in Files |-> Null]
  <2> SUFFICES ASSUME pc' \notin Session PROVE open' = open \/ open' = [f \in Files |-> Null]
    OBVIOUS
  <2>1. CASE StartOnChunks \/ StartOnNode \/ FirstRead \/ HotPlaybackSynced
    BY <2>1 DEF StartOnChunks, StartOnNode, FirstRead, HotPlaybackSynced, OpenDatabase, PlayBack,
                Session, Transaction
  <2>2. CASE MigrateChunk \/ MigrateMeta \/ MigrateRemoves \/ MigrateFails
    BY <2>2 DEF MigrateChunk, MigrateMeta, MigrateRemoves, MigrateFails, OpenDatabase, Session
  <2>3. CASE DeleteChunk \/ DeleteMeta \/ FlushChunk \/ FlushMeta \/ FlushFails
    BY <2>3, FlushedFile DEF DeleteChunk, DeleteMeta, FlushChunk, FlushMeta, FlushFails, PlayBack,
                Session, Transaction
  <2>4. CASE BeginTransaction \/ JournalSynced \/ DatabaseSynced \/ Committed \/ RolledBack
    BY <2>4 DEF BeginTransaction, JournalSynced, DatabaseSynced, Committed, RolledBack,
                Session, Transaction
  <2>5. CASE Close \/ Closed \/ SeedNode \/ Crash
    BY <2>5 DEF Close, Closed, SeedNode, Crash
  <2>6. CASE Finished \/ UNCHANGED vars
    BY <2>6 DEF Finished, vars
  <2> QED BY <2>1, <2>2, <2>3, <2>4, <2>5, <2>6 DEF Next
<1>6. FileTyped(open'["db"])
  BY <1>2, <1>4, <1>5 DEF Files
<1>7. CASE pc' \in {"journal", "db", "commit", "undo", "undone"}
  <2>1. \E w : JournalOpen(w)'
    BY <1>3, <1>7 DEF Staged, AtJournal, AtDb, AtCommit, AtUndo, AtUndone
  <2> QED BY <1>1, <1>6, <2>1
<1>8. CASE pc' \in {"idle", "delete", "opened", "down", "migrate", "forget"}
  <2>1. open'["journal"] = Null \/ JournalOpen(0)'
    BY <1>3, <1>8 DEF Staged, AtIdle, AtDelete
  <2> QED BY <1>1, <1>2, <1>6, <2>1
<1>9. CASE pc' \in {"close", "replay"}
  <2>1. open'["journal"] = open["journal"] \/ open'["journal"] = Opened(disk["journal"])
    <3>0. open = [f \in Files |-> open[f]] /\ DOMAIN open = Files /\ "db" \in Files /\ "journal" \in Files
      BY <1>3 DEF Typed, Files
    <3>1. CASE StartOnChunks \/ StartOnNode \/ HotPlaybackSynced
      BY <1>9, <3>1 DEF StartOnChunks, StartOnNode, HotPlaybackSynced, OpenDatabase
    <3>2. CASE FirstRead
      BY <1>9, <3>0, <3>2 DEF FirstRead, PlayBack
    <3>3. CASE MigrateChunk \/ MigrateMeta \/ MigrateRemoves \/ MigrateFails
      BY <1>9, <3>3 DEF MigrateChunk, MigrateMeta, MigrateRemoves, MigrateFails, OpenDatabase
    <3>4. CASE DeleteChunk \/ DeleteMeta \/ FlushFails
      BY <1>9, <3>4 DEF DeleteChunk, DeleteMeta, FlushFails, PlayBack
    <3>5. CASE FlushChunk
      BY <3>5 DEF FlushChunk
    <3>6. CASE FlushMeta
      <4>1. Flushed = "db"
        BY <1>9, <3>6, FlushedFile DEF FlushMeta
      <4>2. open' = [open EXCEPT !["db"].dirty = <<>>, !["db"].metaDirty = FALSE]
        BY <3>6, <4>1 DEF FlushMeta
      <4> DEFINE none == <<>>
                 no == FALSE
      <4>3. open' = [open EXCEPT !["db"].dirty = none, !["db"].metaDirty = no]
        BY <4>2
      <4> HIDE DEF none, no
      <4> QED BY <3>0, <4>3
    <3>7. CASE BeginTransaction \/ JournalSynced \/ DatabaseSynced \/ Committed \/ RolledBack
      BY <1>9, <3>7 DEF BeginTransaction, JournalSynced, DatabaseSynced, Committed, RolledBack
    <3>8. CASE Close \/ Closed \/ SeedNode \/ Crash
      BY <1>9, <3>8 DEF Close, Closed, SeedNode, Crash
    <3>9. CASE Finished \/ UNCHANGED vars
      BY <3>9 DEF Finished, vars
    <3> QED BY <3>1, <3>2, <3>3, <3>4, <3>5, <3>6, <3>7, <3>8, <3>9 DEF Next
  <2>2. FileTyped(Opened(disk["journal"]))
    <3>1. disk["journal"] \in StoredFile(JSlot(version))
      BY <1>3 DEF Typed
    <3> QED BY <3>1, OpenedFits, FitsTyped
  <2> QED BY <1>6, <2>1, <2>2
<1>10. CASE pc' \in {"seeding", "node"}
  <2>1. pc' \notin Session
    BY <1>10, StagesAre
  <2> QED BY <1>2, <1>5, <1>6, <2>1 DEF Files
<1>11. pc' \in Stages
  BY <1>3 DEF Typed
<1> QED BY <1>7, <1>8, <1>9, <1>10, <1>11 DEF Stages, SyncStages

\* The numbers of transactions and of faults stay within their bounds.
LEMMA BoundsStep ==
    ASSUME [Next]_vars, version \in 0..MaxVersion, faults \in 0..MaxFaults
    PROVE  version' \in 0..MaxVersion /\ faults' \in 0..MaxFaults
<1>0. MaxVersion \in Nat /\ MaxFaults \in Nat
  BY ChunkAssumption
<1>1. CASE StartOnChunks \/ StartOnNode \/ FirstRead \/ HotPlaybackSynced
  BY <1>1 DEF StartOnChunks, StartOnNode, FirstRead, HotPlaybackSynced
<1>2. CASE MigrateChunk \/ MigrateMeta
  BY <1>2 DEF MigrateChunk, MigrateMeta
<1>3. CASE MigrateRemoves \/ MigrateFails
  BY <1>0, <1>3 DEF MigrateRemoves, MigrateFails
<1>4. CASE DeleteChunk \/ DeleteMeta \/ FlushChunk \/ FlushMeta
  BY <1>4 DEF DeleteChunk, DeleteMeta, FlushChunk, FlushMeta
<1>5. CASE FlushFails
  BY <1>0, <1>5 DEF FlushFails
<1>6. CASE BeginTransaction
  <2>1. version' = version + 1 /\ version < MaxVersion /\ faults' = faults
    BY <1>6 DEF BeginTransaction
  <2> QED BY <1>0, <2>1
<1>7. CASE JournalSynced \/ DatabaseSynced \/ Committed \/ RolledBack
  BY <1>7 DEF JournalSynced, DatabaseSynced, Committed, RolledBack
<1>8. CASE Close \/ Closed \/ SeedNode
  BY <1>8 DEF Close, Closed, SeedNode
<1>9. CASE Crash
  <2>1. version' = version /\ faults < MaxFaults /\ faults' = faults + 1
    BY <1>9 DEF Crash
  <2> QED BY <1>0, <2>1
<1>10. CASE Finished \/ UNCHANGED vars
  BY <1>10 DEF Finished, vars
<1> QED BY <1>1, <1>2, <1>3, <1>4, <1>5, <1>6, <1>7, <1>8, <1>9, <1>10 DEF Next

\* The invariant of types, together with what the inductive invariant says.
LEMMA TypesFollow ==
    ASSUME IInv, FileTyped(open["db"]), FileTyped(open["journal"]),
           version \in 0..MaxVersion, faults \in 0..MaxFaults
    PROVE  TypeOK
<1>1. Typed
  BY DEF IInv
<1>2. DOMAIN disk = Files /\ DOMAIN open = Files
  BY <1>1 DEF Typed
<1>3. ASSUME NEW f \in Files
      PROVE  disk[f].meta \in Nat \cup {Null} /\ DOMAIN disk[f].chunks \subseteq Nat
  <2>1. ASSUME NEW S, NEW d \in StoredFile(S)
        PROVE  d.meta \in Nat \cup {Null} /\ DOMAIN d.chunks \subseteq Nat
    <3>1. d.chunks \in ChunkMaps(S) /\ d.meta \in Nat \cup {Null}
      BY DEF StoredFile
    <3> QED BY <3>1, MapAt
  <2>2. f = "db" \/ f = "journal"
    BY DEF Files
  <2> QED BY <1>1, <2>1, <2>2 DEF Typed
<1>4. ASSUME NEW f \in Files PROVE FileTyped(open[f])
  BY <1>4 DEF Files
<1> QED BY <1>1, <1>2, <1>3, <1>4 DEF TypeOK, Typed, FileTyped

\* The files that are stored and open keep their shape, whatever fails.
THEOREM TypesHold == Spec => []TypeOK
<1> DEFINE Open == /\ FileTyped(open["db"]) /\ FileTyped(open["journal"])
                   /\ version \in 0..MaxVersion /\ faults \in 0..MaxFaults
<1>1. Init => Open
  <2> SUFFICES ASSUME Init PROVE Open
    OBVIOUS
  <2>1. open["db"] = Null /\ open["journal"] = Null /\ version = 0 /\ faults = 0
    BY DEF Init, Files
  <2> QED BY <2>1, ChunkAssumption DEF FileTyped
<1>2. IInv /\ IInv' /\ Open /\ [Next]_vars => Open'
  BY FilesTypedStep, BoundsStep
<1>3. IInv /\ Open => TypeOK
  BY TypesFollow
<1> HIDE DEF Open
<1> QED BY <1>1, <1>2, <1>3, Invariance, PTL DEF Spec
=================================================================================
