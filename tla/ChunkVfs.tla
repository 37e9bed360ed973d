-------------------------------- MODULE ChunkVfs --------------------------------
(***************************************************************************)
(* AdapterChunkVFS of src/storage/chunk-vfs.ts: each file of SQLite, the   *)
(* database and its rollback journal, is kept as chunk files and a meta    *)
(* file with its size, written one by one through the vault's adapter.     *)
(* backend.ts seeds the database file of the desktop from the chunks, and  *)
(* an older version left a snapshot of the whole database to take over.    *)
(*                                                                         *)
(* SQLite is external: the transactions of journal_mode=PERSIST with       *)
(* synchronous=NORMAL and the playback of a hot journal are written here   *)
(* as the calls they make on the two files.  The unit is a database page;  *)
(* pages are numbered from zero and a chunk holds PerChunk of them.  A     *)
(* page of the database is the transaction that wrote it and the size of   *)
(* the database then; a page of the journal is its header or a record.     *)
(***************************************************************************)
EXTENDS Ranks, Sequences, FiniteSetsExt

CONSTANTS
    PerChunk,       \* CHUNK_SIZE, in pages
    MaxCached,      \* MAX_CACHED_CHUNKS
    MaxPages,       \* bound on the size of the database
    MaxVersion,     \* bound on the transactions
    MaxFaults,      \* bound on crashes and failing adapter calls
    Zero,           \* a page of zeros
    Null            \* no file, no handle, no image

DbPage == [v : Nat, n : Nat]
Header == [nonce : Nat, orig : Nat, n : Nat]
Record == [nonce : Nat, page : Nat, was : DbPage \cup {Zero}]

ASSUME ChunkAssumption ==
    /\ PerChunk \in Nat \ {0} /\ MaxCached \in Nat /\ MaxPages \in Nat \ {0}
    /\ MaxVersion \in Nat /\ MaxFaults \in Nat
    /\ Null \notin Nat \cup Seq(DbPage \cup {Zero})
    /\ Zero \notin DbPage \cup Header \cup Record

VARIABLES
    disk,       \* the stored files: by name, the meta size and the chunks
    open,       \* openFiles: by name, or Null
    written,    \* how many of the dirty chunks the flush under way has written
    pc,         \* the call under way
    goal,       \* "serve", or "seed": opened only to seed the desktop's file
    legacy,     \* metrics.db, an image or Null
    node,       \* metrics.sqlite, an image or Null
    old, new,   \* the image of the last commit, and of the transaction in flight
    version,    \* the number of transactions
    faults,
    missed      \* history: a migration has failed

vars == <<disk, open, written, pc, goal, legacy, node, old, new, version, faults, missed>>

Files == {"db", "journal"}
Empty == <<>>
NoFile == [meta |-> Null, chunks |-> [c \in {} |-> Zero]]
ZeroChunk == [s \in 0..PerChunk - 1 |-> Zero]
ChunkOf(page) == page \div PerChunk
ChunkCount(size) == (size + PerChunk - 1) \div PerChunk
\* The pages of a chunk of an image.
Slice(image, c) == [s \in 0..PerChunk - 1 |->
    LET i == c * PerChunk + s + 1 IN IF i <= Len(image) THEN image[i] ELSE Zero]
Image(v, n) == [i \in 1..n |-> [v |-> v, n |-> n]]

SyncStages == {"journal", "db", "commit", "undo", "undone", "replay", "close"}
Stages == SyncStages \cup
    {"down", "migrate", "forget", "opened", "idle", "delete", "seeding", "node"}

\* The invariant of types.
TypeOK ==
    /\ DOMAIN disk = Files /\ DOMAIN open = Files
    /\ \A f \in Files :
        /\ disk[f].meta \in Nat \cup {Null} /\ DOMAIN disk[f].chunks \subseteq Nat
        /\ open[f] # Null =>
            /\ open[f].size \in Nat /\ open[f].metaDirty \in BOOLEAN
            /\ {open[f].dirty[i] : i \in DOMAIN open[f].dirty} \subseteq DOMAIN open[f].cache
    /\ written \in Nat /\ pc \in Stages /\ goal \in {"serve", "seed"}
    /\ version \in 0..MaxVersion /\ faults \in 0..MaxFaults /\ missed \in BOOLEAN

\* A new vault, or one with the snapshot of an older version.
Init ==
    /\ disk = [f \in Files |-> NoFile] /\ open = [f \in Files |-> Null]
    /\ written = 0 /\ pc = "down" /\ goal = "serve" /\ node = Null
    /\ legacy \in {Null} \cup {Image(0, n) : n \in 1..MaxPages}
    /\ old = (IF legacy = Null THEN Empty ELSE legacy) /\ new = Null
    /\ version = 0 /\ faults = 0 /\ missed = FALSE

--------------------------------------------------------------------------------
(* The files, as functions of a stored file d and an open file m.          *)

Opened(d) == [size |-> IF d.meta = Null THEN 0 ELSE d.meta, metaDirty |-> d.meta = Null,
              cache |-> [c \in {} |-> ZeroChunk], dirty |-> <<>>]

\* loadChunk: a chunk that is missing reads as zeros.
LoadChunk(d, m, c) ==
    IF c \in DOMAIN m.cache THEN m.cache[c]
    ELSE IF c \in DOMAIN d.chunks THEN d.chunks[c] ELSE ZeroChunk

\* xRead of one page.
ReadPage(d, m, page) ==
    IF page < m.size THEN LoadChunk(d, m, ChunkOf(page))[page % PerChunk] ELSE Zero

\* Mutant of BaseChunk: the chunk is not loaded before a part of it is written.
BlankChunk(d, m, c) == IF c \in DOMAIN m.cache THEN m.cache[c] ELSE ZeroChunk

\* What xWrite changes a part of.
BaseChunk(d, m, c) == LoadChunk(d, m, c)

\* xWrite of one page.
WritePage(d, m, page, content) ==
    LET c == ChunkOf(page)
        chunk == [BaseChunk(d, m, c) EXCEPT ![page % PerChunk] = content]
    IN [m EXCEPT
        !.cache = [x \in DOMAIN m.cache \cup {c} |-> IF x = c THEN chunk ELSE m.cache[x]],
        !.dirty = IF \E i \in DOMAIN m.dirty : m.dirty[i] = c THEN @ ELSE Append(@, c),
        !.size = IF page < m.size THEN @ ELSE page + 1,
        !.metaDirty = @ \/ page >= m.size]

\* The writes of the pages that content gives, in the order of their numbers.
WritePages(d, m, content) ==
    LET f[Q \in SUBSET DOMAIN content] == IF Q = {} THEN m
            ELSE LET last == Max(Q) IN WritePage(d, f[Q \ {last}], last, content[last])
    IN f[DOMAIN content]

\* The dirty chunks below a count, in their order.
Kept(dirty, count) ==
    LET K == {i \in DOMAIN dirty : dirty[i] < count}
    IN [i \in 1..Cardinality(K) |-> dirty[Nth(K, i)]]

Without(fn, gone) == [x \in DOMAIN fn \ gone |-> fn[x]]
CutOff(m, size) == {c \in 0..ChunkCount(m.size) : c >= ChunkCount(size) /\ c < ChunkCount(m.size)}

Truncated(m, size) ==
    IF size >= m.size THEN m
    ELSE [m EXCEPT !.size = size, !.metaDirty = TRUE,
                   !.cache = Without(@, CutOff(m, size)),
                   !.dirty = Kept(@, ChunkCount(size))]
TruncatedDisk(d, m, size) ==
    IF size >= m.size THEN d ELSE [d EXCEPT !.chunks = Without(@, CutOff(m, size))]

\* What SQLite reads as the database: as many pages as the first one says.
View(d, m) ==
    LET first == ReadPage(d, m, 0)
    IN IF m.size = 0 \/ first = Zero THEN Empty
       ELSE [i \in 1..first.n |-> ReadPage(d, m, i - 1)]

\* readChunkedDatabaseImage, on the stored files alone.
StoredImage(d) ==
    IF d.meta = Null \/ \E c \in 0..ChunkCount(d.meta) - 1 : c \notin DOMAIN d.chunks THEN Null
    ELSE [i \in 1..d.meta |-> d.chunks[ChunkOf(i - 1)][(i - 1) % PerChunk]]

--------------------------------------------------------------------------------
(* The flush of xSync and of xClose: the dirty chunks in the order they    *)
(* became dirty, then the meta file if the size changed.                   *)

Flushed == CASE pc \in {"journal", "commit", "undone"} -> "journal" [] OTHER -> "db"
Flushing == pc \in SyncStages
ChunksLeft == written < Len(open[Flushed].dirty)

FlushChunk ==
    LET f == Flushed
        c == open[f].dirty[written + 1]
    IN /\ Flushing /\ ChunksLeft
       /\ disk' = [disk EXCEPT ![f].chunks =
            [x \in DOMAIN @ \cup {c} |-> IF x = c THEN open[f].cache[c] ELSE @[x]]]
       /\ written' = written + 1
       /\ UNCHANGED <<open, pc, goal, legacy, node, old, new, version, faults, missed>>

StoreMeta(d, m) == [d EXCEPT !.meta = m.size]

FlushMeta ==
    LET f == Flushed IN
    /\ Flushing /\ ~ChunksLeft /\ open[f].metaDirty
    /\ disk' = [disk EXCEPT ![f] = StoreMeta(@, open[f])]
    /\ open' = [open EXCEPT ![f].dirty = <<>>, ![f].metaDirty = FALSE]
    /\ written' = 0
    /\ UNCHANGED <<pc, goal, legacy, node, old, new, version, faults, missed>>

\* The clean chunks beyond the cap are evicted; which of them does not matter.
Evicted(m) ==
    LET clean == [m EXCEPT !.dirty = <<>>] IN
    IF Cardinality(DOMAIN m.cache) <= MaxCached THEN {clean}
    ELSE {[clean EXCEPT !.cache = [c \in K |-> @[c]]] : K \in kSubset(MaxCached, DOMAIN m.cache)}

FlushEnds == Flushing /\ ~ChunksLeft /\ ~open[Flushed].metaDirty /\ written' = 0

--------------------------------------------------------------------------------
(* SQLite: the transaction.                                                *)

DatabaseView == View(disk["db"], open["db"])

\* What a transaction changes: the first page, the new ones, and any others.
Changes(before, n) ==
    {P \in SUBSET (0..n - 1) : 0 \in P /\ Len(before)..n - 1 \subseteq P}

\* The journal gets a header and the old contents of the pages about to change.
BeginTransaction ==
    /\ pc = "idle" /\ goal = "serve" /\ version < MaxVersion
    /\ \E n \in 1..MaxPages : \E P \in Changes(DatabaseView, n) :
        LET before == DatabaseView
            d == disk["journal"]
            m == IF open["journal"] = Null THEN Opened(d) ELSE open["journal"]
            size == open["db"].size
            saved == {p \in P : p < size}
            page(i) == IF i = 0
                       THEN [nonce |-> version + 1, orig |-> size, n |-> Cardinality(saved)]
                       ELSE [nonce |-> version + 1, page |-> Nth(saved, i),
                             was |-> ReadPage(disk["db"], open["db"], Nth(saved, i))]
        IN /\ open' = [open EXCEPT !["journal"] =
                            WritePages(d, m, [i \in 0..Cardinality(saved) |-> page(i)])]
           /\ old' = before
           /\ new' = [i \in 1..n |-> IF i - 1 \in P THEN [v |-> version + 1, n |-> n]
                                     ELSE before[i]]
    /\ version' = version + 1 /\ pc' = "journal"
    /\ UNCHANGED <<disk, written, goal, legacy, node, faults, missed>>

\* The journal is synced: the pages are written.
JournalSynced ==
    /\ pc = "journal" /\ FlushEnds
    /\ \E j \in Evicted(open["journal"]) :
        LET changed == {i \in 1..Len(new) : new[i].v = version}
            content == [p \in {i - 1 : i \in changed} |-> new[p + 1]]
        IN open' = [open EXCEPT !["journal"] = j,
                                !["db"] = WritePages(disk["db"], @, content)]
    /\ pc' = "db"
    /\ UNCHANGED <<disk, goal, legacy, node, old, new, version, faults, missed>>

\* The database is synced, or the playback is: the header of the journal is cleared.
DatabaseSynced ==
    /\ pc \in {"db", "undo"} /\ FlushEnds
    /\ \E m \in Evicted(open["db"]) :
        open' = [open EXCEPT !["db"] = m,
                    !["journal"] = WritePage(disk["journal"], @, 0, Zero)]
    /\ pc' = IF pc = "db" THEN "commit" ELSE "undone"
    /\ UNCHANGED <<disk, goal, legacy, node, old, new, version, faults, missed>>

\* The cleared header is synced: this commits.  Then the file may shrink, unsynced.
Committed ==
    /\ pc = "commit" /\ FlushEnds
    /\ \E j \in Evicted(open["journal"]) :
        LET size == IF Len(new) < Len(old) THEN Len(new) ELSE open["db"].size
        IN /\ open' = [open EXCEPT !["journal"] = j, !["db"] = Truncated(@, size)]
           /\ disk' = [disk EXCEPT !["db"] = TruncatedDisk(@, open["db"], size)]
    /\ old' = new /\ new' = Null /\ pc' = "idle"
    /\ UNCHANGED <<goal, legacy, node, version, faults, missed>>

RolledBack ==
    /\ pc = "undone" /\ FlushEnds
    /\ \E j \in Evicted(open["journal"]) : open' = [open EXCEPT !["journal"] = j]
    /\ new' = Null /\ pc' = "idle"
    /\ UNCHANGED <<disk, goal, legacy, node, old, version, faults, missed>>

\* The records of the journal that belong to its header, up to the first that does not.
Records(d, m) ==
    LET h == ReadPage(d, m, 0)
        record(i) == ReadPage(d, m, i)
        good(i) == record(i) # Zero /\ record(i).nonce = h.nonce
    IN {record(i) : i \in {i \in 1..h.n : \A k \in 1..i : good(k)}}

\* pager_playback: the old contents are written back and the size is restored.
PlayBack(j, stage) ==
    LET d == disk["db"]
        m == open["db"]
        h == ReadPage(disk["journal"], j, 0)
        R == Records(disk["journal"], j)
        was(p) == (CHOOSE r \in R : r.page = p).was
        restored == WritePages(d, m, [p \in {r.page : r \in R} |-> was(p)])
    IN /\ open' = [open EXCEPT !["db"] = Truncated(restored, h.orig), !["journal"] = j]
       /\ disk' = [disk EXCEPT !["db"] = TruncatedDisk(@, restored, h.orig)]
       /\ written' = 0 /\ pc' = stage

\* The adapter throws while a transaction is flushed: xSync answers SQLITE_IOERR.
FlushFails ==
    /\ pc \in {"journal", "db"} /\ (ChunksLeft \/ open[Flushed].metaDirty)
    /\ faults < MaxFaults /\ faults' = faults + 1
    /\ PlayBack(open["journal"], "undo")
    /\ UNCHANGED <<goal, legacy, node, old, new, version, missed>>

--------------------------------------------------------------------------------
(* Starts, and the hot journal.                                            *)

OpenDatabase(g) ==
    /\ goal' = g /\ pc' = "opened"
    /\ open' = [open EXCEPT !["db"] = Opened(disk["db"])]

\* prepareStoreOpenPlan without the desktop's file system, or when that fails.
StartOnChunks ==
    /\ pc = "down" /\ node = Null
    /\ IF legacy # Null /\ disk["db"].meta = Null
       THEN pc' = "migrate" /\ written' = 0 /\ UNCHANGED <<open, goal>>
       ELSE OpenDatabase("serve") /\ UNCHANGED written
    /\ UNCHANGED <<disk, legacy, node, old, new, version, faults, missed>>

\* migrateLegacySnapshot: the chunks, the meta, then the snapshot is removed.
MigrateChunk ==
    /\ pc = "migrate" /\ written < ChunkCount(Len(legacy))
    /\ disk' = [disk EXCEPT !["db"].chunks = [x \in DOMAIN @ \cup {written} |->
            IF x = written THEN Slice(legacy, written) ELSE @[x]]]
    /\ written' = written + 1
    /\ UNCHANGED <<open, pc, goal, legacy, node, old, new, version, faults, missed>>

MigrateMeta ==
    /\ pc = "migrate" /\ written = ChunkCount(Len(legacy))
    /\ disk' = [disk EXCEPT !["db"].meta = Len(legacy)]
    /\ written' = 0 /\ pc' = "forget"
    /\ old' = (IF old = Empty THEN legacy ELSE old)
    /\ UNCHANGED <<open, goal, legacy, node, new, version, faults, missed>>

\* The removal may fail, which is only a warning.
MigrateRemoves ==
    /\ pc = "forget"
    /\ \/ legacy' = Null /\ UNCHANGED faults
       \/ faults < MaxFaults /\ faults' = faults + 1 /\ UNCHANGED legacy
    /\ OpenDatabase("serve")
    /\ UNCHANGED <<disk, written, node, old, new, version, missed>>

\* A call of the migration fails: a new database is opened over what it has written.
MigrateFails ==
    /\ pc = "migrate" /\ faults < MaxFaults /\ faults' = faults + 1
    /\ OpenDatabase("serve") /\ written' = 0 /\ old' = Empty /\ missed' = TRUE
    /\ UNCHANGED <<disk, legacy, node, new, version>>

\* Mutant of StartOnNode: the chunks are copied without opening them as a database first.
StartOnNodeAtOnce ==
    /\ pc = "down"
    /\ IF node # Null THEN pc' = "node" /\ UNCHANGED <<open, goal, node>>
       ELSE IF legacy # Null THEN pc' = "seeding" /\ goal' = "serve" /\ UNCHANGED <<open, node>>
       ELSE IF StoredImage(disk["db"]) \in {Null, Empty}
       THEN pc' = "node" /\ node' = Empty /\ UNCHANGED <<open, goal>>
       ELSE pc' = "seeding" /\ goal' = "seed" /\ UNCHANGED <<open, node>>
    /\ UNCHANGED <<disk, written, legacy, old, new, version, faults, missed>>

\* prepareNodeFileDatabase: the snapshot first, else the chunks if all of them are there.
StartOnNode ==
    /\ pc = "down"
    /\ IF node # Null THEN pc' = "node" /\ UNCHANGED <<open, goal, node>>
       ELSE IF legacy # Null THEN pc' = "seeding" /\ goal' = "serve" /\ UNCHANGED <<open, node>>
       ELSE IF StoredImage(disk["db"]) \in {Null, Empty}
       THEN pc' = "node" /\ node' = Empty /\ UNCHANGED <<open, goal>>
       ELSE OpenDatabase("seed") /\ UNCHANGED node
    /\ UNCHANGED <<disk, written, legacy, old, new, version, faults, missed>>

JournalExists == disk["journal"].meta # Null
HotJournal == JournalExists /\ ReadPage(disk["journal"], Opened(disk["journal"]), 0) # Zero

\* The first statement: a journal beside an empty database is deleted, a hot one played
\* back, and one with a cleared header left alone.
FirstRead ==
    /\ pc = "opened"
    /\ IF JournalExists /\ open["db"].size = 0
       THEN pc' = "delete" /\ written' = 0 /\ UNCHANGED <<disk, open>>
       ELSE IF HotJournal THEN PlayBack(Opened(disk["journal"]), "replay")
       ELSE pc' = "idle" /\ UNCHANGED <<disk, open, written>>
    /\ UNCHANGED <<goal, legacy, node, old, new, version, faults, missed>>

\* The playback after a crash is synced; journal_mode is still DELETE, so it is deleted.
HotPlaybackSynced ==
    /\ pc = "replay" /\ FlushEnds
    /\ \E m \in Evicted(open["db"]) : open' = [open EXCEPT !["db"] = m, !["journal"] = Null]
    /\ pc' = "delete"
    /\ UNCHANGED <<disk, goal, legacy, node, old, new, version, faults, missed>>

\* deleteStoredFile: the chunks its meta counts, from the first, then the meta.
DeleteChunk ==
    /\ pc = "delete" /\ written < ChunkCount(disk["journal"].meta)
    /\ disk' = [disk EXCEPT !["journal"].chunks = Without(@, {written})]
    /\ written' = written + 1
    /\ UNCHANGED <<open, pc, goal, legacy, node, old, new, version, faults, missed>>

DeleteMeta ==
    /\ pc = "delete" /\ written = ChunkCount(disk["journal"].meta)
    /\ disk' = [disk EXCEPT !["journal"].meta = Null]
    /\ written' = 0 /\ pc' = "idle"
    /\ UNCHANGED <<open, goal, legacy, node, old, new, version, faults, missed>>

\* close, of the store or of the one opened to seed: the database is flushed.
Close ==
    /\ pc = "idle" /\ pc' = "close" /\ written' = 0
    /\ UNCHANGED <<disk, open, goal, legacy, node, old, new, version, faults, missed>>

Closed ==
    /\ pc = "close" /\ FlushEnds
    /\ open' = [f \in Files |-> Null]
    /\ pc' = IF goal = "seed" THEN "seeding" ELSE "down"
    /\ UNCHANGED <<disk, goal, legacy, node, old, new, version, faults, missed>>

\* What the desktop's file is made of.
SeedImage ==
    LET image == IF goal = "serve" THEN legacy ELSE StoredImage(disk["db"])
    IN IF image = Null THEN Empty ELSE image

\* writeNodeFileDatabase, and the removal of the snapshot it was made of.
SeedNode ==
    /\ pc = "seeding" /\ pc' = "node"
    /\ node' = SeedImage
    /\ legacy' = (IF goal = "serve" THEN Null ELSE legacy)
    /\ UNCHANGED <<disk, open, written, goal, old, new, version, faults, missed>>

\* The process ends: what is open is lost, and writeFile leaves what it has written.
Crash ==
    /\ pc \notin {"down", "node"} /\ faults < MaxFaults /\ faults' = faults + 1
    /\ pc' = "down" /\ written' = 0 /\ open' = [f \in Files |-> Null]
    /\ node' \in IF pc # "seeding" THEN {node}
                 ELSE {node} \cup {SubSeq(SeedImage, 1, n) : n \in 0..Len(SeedImage)}
    /\ UNCHANGED <<disk, goal, legacy, old, new, version, missed>>

\* The desktop's file is in use, the program may stop.
Finished == pc = "node" /\ UNCHANGED vars

Next ==
    \/ StartOnChunks \/ MigrateChunk \/ MigrateMeta \/ MigrateRemoves \/ MigrateFails
    \/ StartOnNode \/ FirstRead \/ HotPlaybackSynced \/ DeleteChunk \/ DeleteMeta
    \/ FlushChunk \/ FlushMeta \/ FlushFails
    \/ BeginTransaction \/ JournalSynced \/ DatabaseSynced \/ Committed \/ RolledBack
    \/ Close \/ Closed \/ SeedNode \/ Crash \/ Finished

Spec == Init /\ [][Next]_vars

--------------------------------------------------------------------------------
(* Properties.                                                             *)

\* Which images a reader may find: the last commit, or, after a crash, the transaction in
\* flight.  (Where a migration had failed before, see MigrationTakesOver.)
Allowed == {old, new} \cup (IF missed THEN {Empty} ELSE {})

\* Whenever SQLite is done with recovery, rollback or commit, it reads the database as
\* the last acknowledged commit left it, or, after a crash, as the transaction in flight
\* would have, page by page: never a mixture, whichever chunk or meta file was the last
\* to be written.
CommitsSurvive == pc = "idle" => DatabaseView \in Allowed

\* What a stored image holds: as many pages as the first one says.
Contents(image) ==
    IF image = Empty \/ image[1] = Zero THEN Empty
    ELSE SubSeq(image, 1, Min({image[1].n, Len(image)}))

\* The file seeded for the desktop holds the last commit, also where the chunks held the
\* remains of a crashed transaction: that is what they are opened and closed for.
SeedIsCommitted ==
    [][pc = "seeding" /\ goal = "seed" /\ pc' = "node" => Contents(node') \in Allowed]_vars

\* chunk-vfs.ts:341, of the snapshot: "becoming the new engine's database is just a matter
\* of re-chunking its bytes into the VFS layout".
MigrationTakesOver ==
    pc = "idle" => DatabaseView \in {old, new}
================================================================================
