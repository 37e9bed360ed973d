--------------------------------- MODULE Plugin ---------------------------------
(***************************************************************************)
(* The plugin of src/main.ts as Obsidian loads, unloads and reloads it:    *)
(* initializeRuntime and teardown are detached tasks, so that the teardown *)
(* of one load overlaps the start of the next, and only a promise on the   *)
(* window keeps two loads from opening the store at once.  Between the two *)
(* run the maintenance timers and sweeps, and the HTTP server, which the   *)
(* settings and a command start and stop at any time.                      *)
(*                                                                         *)
(* The log (WalRecovery), the worker (WorkerStore) and the samples         *)
(* (MetricsStore) have modules of their own; here a store is open or not   *)
(* and has some points to compact, some to expire and some free pages.     *)
(***************************************************************************)
EXTENDS Integers, FiniteSets

CONSTANTS
    Loads,          \* how often the plugin is loaded
    LastPort,       \* the port range is 1..LastPort
    Attempts,       \* WORKER_OPFS_START_ATTEMPTS
    AllowLegacy,    \* settings.storage.allowLegacyBackends
    Handlers,       \* the user's server operations that may be under way
    MaxBatches,     \* COMPACTION_MAX_BATCHES_PER_SWEEP
    MinPoints, MaxPoints,   \* the band of the compaction and vacuum limits
    InitialPages,   \* VACUUM_BATCH_INITIAL_PAGES
    Target,         \* COMPACTION_BATCH_TARGET_MS
    Durations,      \* how long a batch can take
    Maintained,     \* the loads that live long enough for their timers to fire
    Expired,        \* the samples to expire at the start
    MaxWritten,     \* bound on the points written
    MaxFaults       \* bound on failed calls of the store and full disks

ASSUME PluginAssumption ==
    /\ Loads \in Nat \ {0} /\ LastPort \in Nat \ {0} /\ Attempts \in Nat \ {0}
    /\ Maintained \subseteq 1..Loads
    /\ AllowLegacy \in BOOLEAN
    /\ \A t \in {"startup", "teardown", "none"} : t \notin Handlers
    /\ MinPoints \in Nat \ {0} /\ MaxPoints \in Nat /\ MinPoints <= MaxPoints
    /\ InitialPages \in MinPoints..MaxPoints
    /\ Target \in Nat \ {0} /\ Durations \subseteq Nat \ {0}
    /\ MaxBatches \in Nat \ {0} /\ Expired \in Nat
    /\ MaxWritten \in Nat /\ MaxFaults \in Nat

VARIABLES
    layoutReady,    \* Workspace.onLayoutReady has fired
    tracked,        \* window.__tsdbTeardownPromise: the load it belongs to, or 0
    life,           \* per load: initializeRuntime and teardown
    web,            \* per load: its ApiServer and the operations on it
    port,           \* who listens on a port: a load, 0, or Other
    care,           \* per load: the timers, sweeps and limits
    db,             \* the store: who has it open, and what is left to maintain
    used,           \* the points written and faults so far
    crossed         \* history: the loads two of whose server operations overlapped

vars == <<layoutReady, tracked, life, web, port, care, db, used, crossed>>

Load == 1..Loads
Ports == 1..LastPort
Other == -1
Least(S) == CHOOSE x \in S : \A y \in S : x <= y
Lower(a, b) == IF a < b THEN a ELSE b
Upper(a, b) == IF a < b THEN b ELSE a

InitStages == {"idle", "waits", "settings", "opening", "retry", "fallback",
               "late", "serving", "ready", "failed", "left"}
PendingStages == InitStages \ {"idle", "ready", "failed", "left"}
Timers == {"flush", "startupRetention", "retention", "compaction", "sizeGuard"}
Slots == {"first", "second"}
PruneStages == {"none", "delete", "delete pause", "metadata", "metadata pause",
                "series", "series pause", "vacuum", "vacuum pause"}
Tasks == Handlers \cup {"startup", "teardown"}
Idle == [do |-> "idle", at |-> 0, restart |-> FALSE]
Quiet == [timers |-> {}, loop |-> "none", batches |-> 0, points |-> MaxPoints,
          prune |-> [s \in Slots |-> "none"], pruning |-> "none",
          guard |-> FALSE, pages |-> InitialPages]
Unborn == [loaded |-> FALSE, unloading |-> FALSE, init |-> "idle", waits |-> 0,
           attempt |-> 0, teardown |-> "none", store |-> FALSE]

\* The invariant of types.
TypeOK ==
    /\ layoutReady \in BOOLEAN /\ tracked \in 0..Loads
    /\ life \in [Load -> [loaded : BOOLEAN, unloading : BOOLEAN, init : InitStages,
            waits : 0..Loads, attempt : 0..Attempts,
            teardown : {"none", "waits", "server", "close", "settles", "done"},
            store : BOOLEAN]]
    /\ web \in [Load -> [api : BOOLEAN, handle : 0..LastPort, closer : Tasks \cup {"none"},
            tasks : [Tasks -> [do : {"idle", "bind", "closing"}, at : 0..LastPort,
                               restart : BOOLEAN]]]]
    /\ port \in [Ports -> Load \cup {0, Other}]
    /\ care \in [Load -> [timers : SUBSET Timers, loop : {"none", "batch", "pause"},
            batches : 0..MaxBatches, points : MinPoints..MaxPoints,
            prune : [Slots -> PruneStages], pruning : Slots \cup {"none"},
            guard : BOOLEAN, pages : MinPoints..MaxPoints]]
    /\ db \in [open : SUBSET Load, backlog : 0..MaxWritten, expired : 0..Expired,
               free : 0..Expired]
    /\ used \in [written : 0..MaxWritten, faults : 0..MaxFaults]
    /\ crossed \subseteq Load

Init ==
    /\ layoutReady = FALSE /\ tracked = 0
    /\ life = [i \in Load |-> Unborn]
    /\ web = [i \in Load |-> [api |-> FALSE, handle |-> 0, closer |-> "none",
                                tasks |-> [t \in Tasks |-> Idle]]]
    /\ port \in [Ports -> {0, Other}]
    /\ care = [i \in Load |-> Quiet]
    /\ db = [open |-> {}, backlog |-> 0, expired |-> Expired, free |-> 0]
    /\ used = [written |-> 0, faults |-> 0]
    /\ crossed = {}

-----------------------------------------------------------------------------
(* The HTTP server.  A server is listening from its callback until close() *)
(* is called; the handle outlives it until the close callback has run, and *)
(* closer is the operation that waits for the callback of the handle's     *)
(* server.  Nothing keeps the user's operations apart: one may start while *)
(* another is under way, and the plugin may be unloaded meanwhile.  Such a *)
(* load is crossed.                                                        *)

Listening(w, i) == w.handle # 0 /\ port[w.handle] = i

StartServer(i, w, t) ==
    [w EXCEPT !.tasks[t] = IF ~w.api \/ Listening(w, i) THEN Idle
                           ELSE [do |-> "bind", at |-> 1, restart |-> FALSE]]

\* stopMetricsServer, and what the port setting does after it.
StopServer(i, t, restart) ==
    IF web[i].api /\ Listening(web[i], i)
    THEN /\ port' = [port EXCEPT ![web[i].handle] = 0]
         /\ web' = [web EXCEPT ![i].closer = t, ![i].tasks[t] =
                        [do |-> "closing", at |-> 0, restart |-> restart]]
    ELSE /\ web' = [web EXCEPT ![i] =
                        IF restart THEN StartServer(i, @, t) ELSE [@ EXCEPT !.tasks[t] = Idle]]
         /\ UNCHANGED port

\* An operation of the user: a keystroke in the port setting, or the toggle command.
UserServes(i, t) ==
    /\ life[i].loaded /\ ~life[i].unloading /\ web[i].tasks[t] = Idle
    /\ crossed' = IF \A o \in Tasks : web[i].tasks[o] = Idle THEN crossed ELSE crossed \cup {i}
    /\ \/ StopServer(i, t, TRUE)
       \/ Listening(web[i], i) /\ StopServer(i, t, FALSE)
       \/ /\ ~Listening(web[i], i) /\ UNCHANGED port
          /\ web' = [web EXCEPT ![i] = StartServer(i, @, t)]
    /\ UNCHANGED <<layoutReady, tracked, life, care, db, used>>

\* listen on the next port of the range; its error handler drops the handle.
Bind(i, t) ==
    LET task == web[i].tasks[t]
        next == [task EXCEPT !.at = @ + 1]
    IN /\ task.do = "bind"
       /\ IF port[task.at] = 0
          THEN /\ port' = [port EXCEPT ![task.at] = i]
               /\ web' = [web EXCEPT ![i].handle = task.at, ![i].closer = "none",
                                  ![i].tasks[t] = Idle]
          ELSE /\ web' = [web EXCEPT ![i].handle = 0, ![i].closer = "none",
                            ![i].tasks[t] = IF next.at > LastPort THEN Idle ELSE next]
               /\ UNCHANGED port
       /\ UNCHANGED <<crossed, layoutReady, tracked, life, care, db, used>>

\* The callback of server.close.
Closed(i, t) ==
    LET task == web[i].tasks[t]
        w == [web[i] EXCEPT !.handle = 0, !.closer = "none", !.tasks[t] = Idle]
    IN /\ task.do = "closing"
       /\ web' = [web EXCEPT ![i] = IF task.restart THEN StartServer(i, w, t) ELSE w]
       /\ UNCHANGED <<crossed, layoutReady, tracked, life, port, care, db, used>>

-----------------------------------------------------------------------------
(* Pacing.                                                                 *)

NextLimit(current, duration) ==
    LET scaled == (current * Target * 4) \div (duration * 5)
    IN CASE 4 * duration > 5 * Target -> Upper(MinPoints, Lower(current - 1, scaled))
         [] 2 * duration < Target -> Lower(MaxPoints, Upper(current + 1, (5 * current + 3) \div 4))
         [] OTHER -> current

-----------------------------------------------------------------------------
(* The timers and sweeps of one load, as changes of its care record c when *)
(* its life is l.                                                          *)

\* Mutant of ScheduleCompaction: the sweep under way is not asked.
ScheduleBesides(l, c) ==
    IF l.unloading \/ ~l.store \/ "compaction" \in c.timers THEN c
    ELSE [c EXCEPT !.timers = @ \cup {"compaction"}]

ScheduleCompaction(l, c) ==
    IF l.unloading \/ ~l.store \/ "compaction" \in c.timers \/ c.loop # "none" THEN c
    ELSE [c EXCEPT !.timers = @ \cup {"compaction"}]

CompactClosedBuckets(l, c) ==
    IF ~l.store \/ c.loop # "none" THEN c
    ELSE IF l.unloading THEN ScheduleCompaction(l, c)
    ELSE [c EXCEPT !.loop = "batch", !.batches = 0]

\* Mutant of SettleCompaction: only a sweep that succeeded is followed by another.
SettleOnSuccess(l, c, failed) ==
    IF failed THEN [c EXCEPT !.loop = "none"]
    ELSE ScheduleCompaction(l, [c EXCEPT !.loop = "none"])

SettleCompaction(l, c, failed) == ScheduleCompaction(l, [c EXCEPT !.loop = "none"])

\* Mutant of PruneOldSamples: the promise of the sweep under way is not asked.
PruneAgain(l, c) ==
    LET s == IF c.prune["first"] = "none" THEN "first" ELSE "second"
    IN IF ~l.store \/ l.unloading THEN c
       ELSE [c EXCEPT !.pruning = s, !.prune[s] = "delete"]

PruneOldSamples(l, c) ==
    LET s == IF c.prune["first"] = "none" THEN "first" ELSE "second"
    IN IF ~l.store \/ c.pruning # "none" \/ l.unloading THEN c
       ELSE [c EXCEPT !.pruning = s, !.prune[s] = "delete"]

SettlePrune(c, s) ==
    [c EXCEPT !.prune[s] = "none", !.pruning = IF @ = s THEN "none" ELSE @]

\* The size guard or a full disk, at least SIZE_GUARD_MIN_INTERVAL_MS after the last.
ForceMaintenance(l, c) ==
    LET pruned == PruneOldSamples(l, c)
    IN ScheduleCompaction(l, [pruned EXCEPT !.timers = @ \ {"compaction"}])

RestartMaintenanceTimers(l, c) ==
    ScheduleCompaction(l, [c EXCEPT !.timers = Timers \ {"compaction"}])

-----------------------------------------------------------------------------
(* initializeRuntime.                                                      *)

StartRuntimeInitialization(l) ==
    IF l.unloading \/ l.init # "idle" THEN l
    ELSE [l EXCEPT !.init = "waits", !.waits = tracked]

Onload(i) ==
    /\ ~life[i].loaded /\ (i > 1 => life[i - 1].unloading)
    /\ LET l == [life[i] EXCEPT !.loaded = TRUE] IN
       life' = [life EXCEPT ![i] = IF layoutReady THEN StartRuntimeInitialization(l) ELSE l]
    /\ UNCHANGED <<crossed, layoutReady, tracked, web, port, care, db, used>>

LayoutReady ==
    /\ ~layoutReady /\ layoutReady' = TRUE
    /\ life' = [i \in Load |-> IF life[i].loaded THEN StartRuntimeInitialization(life[i])
                               ELSE life[i]]
    /\ UNCHANGED <<crossed, tracked, web, port, care, db, used>>

\* Mutant of TeardownWaited: the promise of the last teardown is not awaited.
TeardownIgnored(i) == TRUE

TeardownWaited(i) == \A j \in Load : j = life[i].waits => life[j].teardown = "done"

WaitForPreviousTeardown(i) ==
    /\ life[i].init = "waits" /\ TeardownWaited(i)
    /\ life' = [life EXCEPT ![i].init = IF life[i].unloading THEN "left" ELSE "settings"]
    /\ tracked' = IF tracked = life[i].waits THEN 0 ELSE tracked
    /\ UNCHANGED <<crossed, layoutReady, web, port, care, db, used>>

LoadSettings(i) ==
    /\ life[i].init = "settings"
    /\ life' = [life EXCEPT ![i].init = IF life[i].unloading THEN "left" ELSE "opening",
                            ![i].attempt = 1]
    /\ UNCHANGED <<crossed, layoutReady, tracked, web, port, care, db, used>>

\* Mutant of AfterFailure: the attempts are made again and again.
AfterFailureAgain(l) == [l EXCEPT !.init = "retry", !.attempt = 0]

\* While unloading the next attempt is made at once.
AfterFailure(l) ==
    IF l.init = "opening" /\ l.attempt < Attempts
    THEN IF l.unloading THEN [l EXCEPT !.attempt = @ + 1] ELSE [l EXCEPT !.init = "retry"]
    ELSE [l EXCEPT !.init = IF l.init = "opening" /\ AllowLegacy THEN "fallback" ELSE "failed"]

\* The probe, the worker or the legacy store fails.
OpenFails(i) ==
    /\ life[i].init \in {"opening", "fallback"}
    /\ life' = [life EXCEPT ![i] = AfterFailure(@)]
    /\ UNCHANGED <<crossed, layoutReady, tracked, web, port, care, db, used>>

RetryOpen(i) ==
    /\ life[i].init = "retry"
    /\ life' = [life EXCEPT ![i].init = "opening", ![i].attempt = @ + 1]
    /\ UNCHANGED <<crossed, layoutReady, tracked, web, port, care, db, used>>

OpenSucceeds(i) ==
    LET l == life[i]
        adopted == [l EXCEPT !.store = TRUE]
        w == [web[i] EXCEPT !.api = TRUE]
    IN /\ l.init \in {"opening", "fallback"}
       /\ db' = [db EXCEPT !.open = @ \cup {i}]
       /\ IF l.unloading
          THEN life' = [life EXCEPT ![i].init = "late"] /\ UNCHANGED <<web, care>>
          ELSE \/ /\ life' = [life EXCEPT ![i] = [adopted EXCEPT !.init = "serving"]]
                  /\ web' = [web EXCEPT ![i] = StartServer(i, w, "startup")]
                  /\ UNCHANGED care
               \/ /\ life' = [life EXCEPT ![i] = [adopted EXCEPT !.init = "ready"]]
                  /\ web' = [web EXCEPT ![i] = w]
                  /\ care' = [care EXCEPT ![i] = RestartMaintenanceTimers(adopted, @)]
       /\ UNCHANGED <<crossed, layoutReady, tracked, port, used>>

CloseLate(i) ==
    /\ life[i].init = "late"
    /\ db' = [db EXCEPT !.open = @ \ {i}]
    /\ life' = [life EXCEPT ![i].init = "left"]
    /\ UNCHANGED <<crossed, layoutReady, tracked, web, port, care, used>>

ServerStarted(i) ==
    /\ life[i].init = "serving" /\ web[i].tasks["startup"] = Idle
    /\ IF life[i].unloading
       THEN life' = [life EXCEPT ![i].init = "left"] /\ UNCHANGED care
       ELSE /\ life' = [life EXCEPT ![i].init = "ready"]
            /\ care' = [care EXCEPT ![i] = RestartMaintenanceTimers(life[i], @)]
    /\ UNCHANGED <<crossed, layoutReady, tracked, web, port, db, used>>

-----------------------------------------------------------------------------
(* onunload and teardown.                                                  *)

Onunload(i) ==
    /\ life[i].loaded /\ ~life[i].unloading
    /\ crossed' = IF \A t \in Handlers : web[i].tasks[t] = Idle THEN crossed
                  ELSE crossed \cup {i}
    /\ life' = [life EXCEPT ![i].unloading = TRUE, ![i].teardown = "waits"]
    /\ tracked' = i
    /\ UNCHANGED <<layoutReady, web, port, care, db, used>>

\* Mutant of InitializationOver: the teardown does not wait for the start.
NotAwaited(i) == TRUE

InitializationOver(i) == life[i].init \notin PendingStages

\* Mutant of TeardownBegins: the server is disposed of, which does not close it.
DisposesOnly(i) ==
    /\ life[i].teardown = "waits" /\ InitializationOver(i)
    /\ care' = [care EXCEPT ![i].timers = {}]
    /\ life' = [life EXCEPT ![i].teardown = "server"]
    /\ UNCHANGED <<crossed, layoutReady, tracked, web, port, db, used>>

\* After the start: dispose of the scraper, clear the timers, stop the server.
TeardownBegins(i) ==
    /\ life[i].teardown = "waits" /\ InitializationOver(i)
    /\ care' = [care EXCEPT ![i].timers = {}]
    /\ life' = [life EXCEPT ![i].teardown = "server"]
    /\ StopServer(i, "teardown", FALSE)
    /\ UNCHANGED <<crossed, layoutReady, tracked, db, used>>

\* dispose drops the handle without closing it, and with the listeners of its server the
\* callback an operation waits for: that one never goes on.
DisposeServer(w) ==
    [w EXCEPT !.handle = 0, !.closer = "none",
              !.tasks = [t \in Tasks |-> IF t = w.closer THEN Idle ELSE @[t]]]

\* The server is disposed of; the log settles.
TeardownServerStopped(i) ==
    /\ life[i].teardown = "server" /\ web[i].tasks["teardown"] = Idle
    /\ web' = [web EXCEPT ![i] = DisposeServer(@)]
    /\ life' = [life EXCEPT ![i].teardown = IF life[i].store THEN "close" ELSE "settles"]
    /\ UNCHANGED <<crossed, layoutReady, tracked, port, care, db, used>>

TeardownStoreCloses(i) ==
    /\ life[i].teardown = "close"
    /\ db' = [db EXCEPT !.open = @ \ {i}]
    /\ life' = [life EXCEPT ![i].teardown = "settles"]
    /\ UNCHANGED <<crossed, layoutReady, tracked, web, port, care, used>>

\* The ingests have settled, the log is flushed, the fields are cleared.
TeardownEnds(i) ==
    /\ life[i].teardown = "settles"
    /\ life' = [life EXCEPT ![i].teardown = "done", ![i].store = FALSE]
    /\ web' = [web EXCEPT ![i].api = FALSE]
    /\ tracked' = IF tracked = i THEN 0 ELSE tracked
    /\ UNCHANGED <<crossed, layoutReady, port, care, db, used>>

-----------------------------------------------------------------------------
(* Ingests, timers, and the answers of the store.  A closed store rejects. *)

Rejects(i) == i \notin db.open
MayFail(i) == Rejects(i) \/ used.faults < MaxFaults
CountFault(i) == used' = [used EXCEPT !.faults = IF Rejects(i) THEN @ ELSE @ + 1]

\* An ingest is answered, perhaps late; a full disk forces maintenance.
Ingest(i) ==
    /\ i \in Maintained /\ life[i].init = "ready" /\ life[i].store /\ ~Rejects(i)
    /\ \/ /\ used.written < MaxWritten /\ UNCHANGED care
          /\ db' = [db EXCEPT !.backlog = @ + 1]
          /\ used' = [used EXCEPT !.written = @ + 1]
       \/ /\ used.faults < MaxFaults /\ CountFault(i) /\ UNCHANGED db
          /\ care' = [care EXCEPT ![i] = ForceMaintenance(life[i], @)]
    /\ UNCHANGED <<crossed, layoutReady, tracked, life, web, port>>

CompactionTimer(i) ==
    LET fired == [care[i] EXCEPT !.timers = @ \ {"compaction"}]
    IN /\ i \in Maintained /\ "compaction" \in care[i].timers
       /\ care' = [care EXCEPT ![i] = CompactClosedBuckets(life[i], fired)]
       /\ UNCHANGED <<crossed, layoutReady, tracked, life, web, port, db, used>>

RetentionTimer(i) ==
    /\ i \in Maintained
    /\ \E once \in {"startupRetention", "retention"} \cap care[i].timers :
        LET fired == [care[i] EXCEPT !.timers = @ \ ({once} \ {"retention"})]
        IN care' = [care EXCEPT ![i] = PruneOldSamples(life[i], fired)]
    /\ UNCHANGED <<crossed, layoutReady, tracked, life, web, port, db, used>>

CheckStoreSize(i) ==
    /\ i \in Maintained /\ "sizeGuard" \in care[i].timers /\ ~care[i].guard
    /\ life[i].store /\ ~life[i].unloading
    /\ care' = [care EXCEPT ![i].guard = TRUE]
    /\ UNCHANGED <<crossed, layoutReady, tracked, life, web, port, db, used>>

\* quickStats answers; isUnloading is not asked again.
StoreSizeKnown(i) ==
    /\ care[i].guard
    /\ LET c == [care[i] EXCEPT !.guard = FALSE] IN
       \/ care' = [care EXCEPT ![i] = c]
       \/ ~Rejects(i) /\ care' = [care EXCEPT ![i] = ForceMaintenance(life[i], c)]
    /\ UNCHANGED <<crossed, layoutReady, tracked, life, web, port, db, used>>

CompactionBatch(i) ==
    LET l == life[i]
        c == care[i]
        left == db.backlog - Lower(c.points, db.backlog)
    IN /\ c.loop = "batch"
       /\ \/ /\ ~Rejects(i) /\ db' = [db EXCEPT !.backlog = left] /\ UNCHANGED used
             /\ IF left = 0
                THEN care' = [care EXCEPT ![i] = SettleCompaction(l, @, FALSE)]
                ELSE \E d \in Durations : care' = [care EXCEPT ![i].loop = "pause",
                                            ![i].points = NextLimit(@, d)]
          \/ /\ MayFail(i) /\ CountFault(i) /\ UNCHANGED db
             /\ care' = [care EXCEPT ![i] = SettleCompaction(l, @, TRUE)]
       /\ UNCHANGED <<crossed, layoutReady, tracked, life, web, port>>

CompactionPause(i) ==
    LET l == life[i]
        c == [care[i] EXCEPT !.batches = @ + 1]
    IN /\ c.loop = "pause"
       /\ care' = [care EXCEPT ![i] =
            IF c.batches = MaxBatches \/ l.unloading \/ ~l.store
            THEN SettleCompaction(l, c, FALSE) ELSE [c EXCEPT !.loop = "batch"]]
       /\ UNCHANGED <<crossed, layoutReady, tracked, life, web, port, db, used>>

Stopping(i) == life[i].unloading \/ ~life[i].store
Enter(i, s, stage) == care' = [care EXCEPT ![i] =
    IF stage = "none" THEN SettlePrune(@, s) ELSE [@ EXCEPT !.prune[s] = stage]]
EnterUnlessStopping(i, s, stage) == Enter(i, s, IF Stopping(i) THEN "none" ELSE stage)

\* A call of the retention sweep is answered.
RetentionCall(i, s) ==
    LET stage == care[i].prune[s]
        reclaimed == Lower(care[i].pages, db.free)
    IN /\ stage \in {"delete", "metadata", "series", "vacuum"}
       /\ \/ MayFail(i) /\ CountFault(i) /\ Enter(i, s, "none") /\ UNCHANGED db
          \/ /\ ~Rejects(i) /\ stage = "delete" /\ db.expired > 1 /\ UNCHANGED used
             /\ db' = [db EXCEPT !.expired = @ - 1, !.free = @ + 1]
             /\ Enter(i, s, "delete pause")
          \/ /\ ~Rejects(i) /\ stage = "delete" /\ db.expired <= 1 /\ UNCHANGED used
             /\ db' = [db EXCEPT !.expired = 0, !.free = @ + db.expired]
             /\ EnterUnlessStopping(i, s, "metadata")
          \/ /\ ~Rejects(i) /\ stage \in {"metadata", "series"} /\ UNCHANGED <<db, used>>
             /\ EnterUnlessStopping(i, s, IF stage = "metadata" THEN "metadata pause"
                                          ELSE "series pause")
          \/ /\ ~Rejects(i) /\ stage = "vacuum" /\ UNCHANGED used
             /\ db' = [db EXCEPT !.free = @ - reclaimed]
             /\ IF db.free = reclaimed THEN Enter(i, s, "none")
                ELSE \E d \in Durations : care' = [care EXCEPT ![i].prune[s] = "vacuum pause",
                                            ![i].pages = NextLimit(@, d)]
       /\ UNCHANGED <<crossed, layoutReady, tracked, life, web, port>>

\* A pause of it ends; between the two finalize phases isUnloading is not asked.
RetentionPause(i, s) ==
    LET stage == care[i].prune[s] IN
    /\ \/ stage = "delete pause" /\ EnterUnlessStopping(i, s, "delete")
       \/ stage = "metadata pause" /\ Enter(i, s, "series")
       \/ stage \in {"series pause", "vacuum pause"} /\ EnterUnlessStopping(i, s, "vacuum")
    /\ UNCHANGED <<crossed, layoutReady, tracked, life, web, port, db, used>>

-----------------------------------------------------------------------------
Starts(i) == WaitForPreviousTeardown(i) \/ LoadSettings(i) \/ OpenFails(i) \/ RetryOpen(i)
                \/ OpenSucceeds(i) \/ CloseLate(i) \/ ServerStarted(i)
TearsDown(i) == TeardownBegins(i) \/ TeardownServerStopped(i)
                \/ TeardownStoreCloses(i) \/ TeardownEnds(i)
Sweeps(i) == CompactionBatch(i) \/ CompactionPause(i)
Prunes(i) == \E s \in Slots : RetentionCall(i, s) \/ RetentionPause(i, s)

\* Everything has been loaded, unloaded and taken down; the program may stop.
Finished == /\ \A i \in Load : life[i].teardown = "done"
            /\ UNCHANGED vars

Next ==
    \/ LayoutReady
    \/ Finished
    \/ \E i \in Load :
        \/ Onload(i) \/ Onunload(i)
        \/ WaitForPreviousTeardown(i) \/ LoadSettings(i) \/ OpenFails(i) \/ RetryOpen(i)
        \/ OpenSucceeds(i) \/ CloseLate(i) \/ ServerStarted(i)
        \/ TeardownBegins(i) \/ TeardownServerStopped(i)
        \/ TeardownStoreCloses(i) \/ TeardownEnds(i)
        \/ Ingest(i) \/ CompactionTimer(i) \/ RetentionTimer(i) \/ CheckStoreSize(i) \/ StoreSizeKnown(i)
        \/ CompactionBatch(i) \/ CompactionPause(i)
        \/ \E s \in Slots : RetentionCall(i, s) \/ RetentionPause(i, s)
        \/ \E t \in Handlers : UserServes(i, t)
        \/ \E t \in Tasks : Bind(i, t) \/ Closed(i, t)

Spec == Init /\ [][Next]_vars

\* The event loop runs every task that is ready, timers fire, and the calls of the
\* store, the log and the operating system are answered.  Users need do nothing.
FairSpec ==
    /\ Spec
    /\ WF_vars(LayoutReady)
    /\ \A i \in Load :
        /\ WF_vars(Starts(i)) /\ WF_vars(TearsDown(i))
        /\ WF_vars(CompactionTimer(i)) /\ WF_vars(Sweeps(i))
        /\ WF_vars(RetentionTimer(i)) /\ WF_vars(Prunes(i))
        /\ \A t \in Tasks : WF_vars(Bind(i, t) \/ Closed(i, t))

-----------------------------------------------------------------------------
(* Properties.                                                             *)

\* Two loads of the plugin never have the database open at once, however late the
\* teardown of the one and however early the start of the other.
OneOpenStore == Cardinality(db.open) <= 1

\* A load that is taken down leaves nothing behind: no open store and no timer, whatever
\* was under way when it was unloaded; and no port that listens for it, also when it was
\* unloaded in the middle of its start, unless a server operation of the user was under way
\* at the unload or two overlapped.  Those may leave a port: teardown waits for none of them.
NothingLeftBehind ==
    \A i \in Load : life[i].teardown = "done" =>
        /\ i \notin db.open /\ care[i].timers = {}
        /\ i \notin crossed => \A p \in Ports : port[p] # i

\* While a load runs, its compaction goes on: a sweep is under way or a timer will start
\* one, never both and never neither, whatever fails and whatever is forced.
CompactionGoesOn ==
    \A i \in Load : life[i].init = "ready" /\ ~life[i].unloading =>
        (care[i].loop # "none") # ("compaction" \in care[i].timers)

\* The timers, the size guard and a full disk never put two retention sweeps side by side.
OneRetentionSweep ==
    \A i \in Load : Cardinality({s \in Slots : care[i].prune[s] # "none"}) <= 1

\* The maintenance of a load that runs catches up: all that is old is compacted, all that
\* expired is deleted and the pages given back, unless the load is unloaded first.
CatchesUp ==
    \A i \in Maintained : life[i].init = "ready" ~>
        (db.backlog = 0 /\ db.expired = 0 /\ db.free = 0) \/ life[i].unloading

\* An unload comes to its end, and with it the wait of the next load.
UnloadEnds == \A i \in Load : life[i].unloading ~> life[i].teardown = "done"

\* boundPort is "the actually-bound port while listening": what listens for a load whose
\* operations came one after the other is what its handle says.
BoundPortTells ==
    \A i \in Load \ crossed, p \in Ports : port[p] = i => web[i].handle = p
================================================================================
