------------------------------ MODULE WalRecovery ------------------------------
(***************************************************************************)
(* The recovery log of src/storage/wal.ts and everything main.ts does with *)
(* it: a scrape batch is committed to the store and then appended to the   *)
(* log; a flush timer clears the log; at start the log is cleared, or,     *)
(* when the database had to be wiped, replayed and then cleared; unloading *)
(* the plugin stops a replay, closes the store and flushes.                *)
(*                                                                         *)
(* A batch is one model value: the store takes it whole or not at all and  *)
(* the log keeps it on one line.  "damaged" stands for every reason why    *)
(* the next MetricsStore.open throws, which is what makes it wipe.         *)
(***************************************************************************)
EXTENDS Integers, Sequences, FiniteSets

CONSTANTS
    Batches,        \* the scrape batches, each of them sent once
    Garbled,        \* a line, or an unfinished one, that does not parse
    NoTail,         \* the file ends with a newline
    Truncate,       \* the queue entry of a truncation
    Tears,          \* what an append cut short may leave: "fragment", "newline"
    Interruptions,  \* what may happen while a wiped database is being refilled:
                    \* "abandon" and "unload" by the user, "crash", an "ingest"
                    \* or the "read" of the log that fails
    MaxFaults       \* bound on damages, crashes and failed calls

ASSUME WalAssumption ==
    /\ IsFiniteSet(Batches)
    /\ {Garbled, NoTail, Truncate} \cap Batches = {}
    /\ Garbled # NoTail
    /\ Tears \subseteq {"fragment", "newline"}
    /\ Interruptions \subseteq {"abandon", "unload", "crash", "ingest", "read"}
    /\ MaxFaults \in Nat

VARIABLES
    db,         \* the batches the database holds
    damaged,    \* whether the next open of the database fails
    file,       \* the complete lines of metrics.wal
    tail,       \* what follows the last newline, or NoTail
    phase,      \* where the plugin is between load and unload, see Phases
    recovered,  \* store.recoveredFromCorruption
    stage,      \* how far ingestDurably is with each batch
    queue,      \* SampleWal.queue: the appends and truncations still to run
    epoch,      \* SampleWal.appendEpoch
    flush,      \* the flushStore calls in progress
    startup,    \* maintainStartupWal, walStartupPromise
    faults,     \* faults so far
    interrupted \* history: the refilling of a wiped database was interrupted

disk == <<db, damaged, file, tail>>
env == <<faults, interrupted>>
vars == <<disk, phase, recovered, stage, queue, epoch, flush, startup, env>>

\* down: no plugin; wiped: open has deleted the files; opened: the store is
\* open; up: scraping; stopping: teardown, before the store is closed; closing:
\* after; flushing: in its flushStore.
Phases == {"down", "wiped", "opened", "up", "stopping", "closing", "flushing"}

\* The timer's calls do not overlap here: one is awaited before the next.
Flushers == {"timer", "teardown"}
FlushAt(pc, seen, ahead) == [pc |-> pc, epoch |-> seen, ahead |-> ahead]
StartupAt(pc, text, ahead) == [pc |-> pc, text |-> text, ahead |-> ahead]
NoFlush == FlushAt("idle", 0, 0)
NoStartup == StartupAt("none", <<>>, 0)

FlushCalls == [pc : {"idle", "barrier", "truncate"}, epoch : Nat, ahead : Nat]
Startups == [pc : {"none", "read", "lines", "ingest", "barrier", "truncate"},
             text : Seq(Batches \cup {Garbled}), ahead : Nat]

TypeOK ==
    /\ db \subseteq Batches
    /\ damaged \in BOOLEAN
    /\ file \in Seq(Batches \cup {Garbled})
    /\ tail \in Batches \cup {Garbled, NoTail}
    /\ phase \in Phases
    /\ recovered \in BOOLEAN
    /\ stage \in [Batches -> {"new", "sent", "committed", "done"}]
    /\ queue \in Seq(Batches \cup {Truncate})
    /\ epoch \in Nat
    /\ flush \in [Flushers -> FlushCalls]
    /\ startup \in Startups
    /\ faults \in 0..MaxFaults
    /\ interrupted \in BOOLEAN

Init ==
    /\ db = {} /\ damaged = FALSE
    /\ file = <<>> /\ tail = NoTail
    /\ phase = "down" /\ recovered = FALSE
    /\ stage = [b \in Batches |-> "new"]
    /\ queue = <<>> /\ epoch = 0
    /\ flush = [f \in Flushers |-> NoFlush]
    /\ startup = NoStartup
    /\ faults = 0 /\ interrupted = FALSE

\* From the wipe until every line of the log has been replayed.
Refilling ==
    \/ phase = "wiped"
    \/ recovered /\ (phase = "opened" \/ startup.pc \in {"read", "lines", "ingest"})

\* Something a refill may have to put up with, as far as the instance allows.
Interrupts(interruption) ==
    /\ Refilling => interruption \in Interruptions
    /\ interrupted' = (interrupted \/ Refilling)

Fault ==
    /\ faults < MaxFaults
    /\ faults' = faults + 1

NoFault == UNCHANGED env

InFlight == {b \in Batches : stage[b] \in {"sent", "committed"}}
--------------------------------------------------------------------------------
(***************************************************************************)
(* Opening the store.                                                      *)
(***************************************************************************)
Open ==
    /\ phase = "down"
    /\ IF damaged
       THEN /\ phase' = "wiped" /\ db' = {} /\ damaged' = FALSE
            /\ interrupted' = FALSE
            /\ UNCHANGED recovered
       ELSE /\ phase' = "opened" /\ recovered' = FALSE
            /\ UNCHANGED <<db, damaged, interrupted>>
    /\ UNCHANGED <<file, tail, stage, queue, epoch, flush, startup, faults>>

OpenWiped ==
    /\ phase = "wiped"
    /\ phase' = "opened"
    /\ recovered' = TRUE
    /\ UNCHANGED <<disk, stage, queue, epoch, flush, startup, env>>

\* The open after the wipe throws or times out: openMetricsStore tries again.
OpenWipedFails ==
    /\ phase = "wiped"
    /\ Interrupts("crash")
    /\ Fault
    /\ phase' = "down"
    /\ UNCHANGED <<disk, recovered, stage, queue, epoch, flush, startup>>

\* The plugin was unloaded while the store was being opened.
Abandon ==
    /\ phase = "opened"
    /\ Interrupts("abandon")
    /\ phase' = "down"
    /\ UNCHANGED <<disk, recovered, stage, queue, epoch, flush, startup, faults>>

\* Mutant of StartSession: the log is cleared whether or not it is needed.
StartWithCheckpoint ==
    /\ phase = "opened"
    /\ phase' = "up"
    /\ epoch' = 0
    /\ queue' = <<Truncate>>
    /\ startup' = StartupAt("truncate", <<>>, 1)
    /\ UNCHANGED <<disk, recovered, stage, flush, env>>

\* A new SampleWal and its startup maintenance; scraping does not wait for it.
StartSession ==
    /\ phase = "opened"
    /\ phase' = "up"
    /\ epoch' = 0
    /\ IF recovered
       THEN /\ queue' = <<>>
            /\ startup' = StartupAt("read", <<>>, 0)
       ELSE /\ queue' = <<Truncate>>
            /\ startup' = StartupAt("truncate", <<>>, 1)
    /\ UNCHANGED <<disk, recovered, stage, flush, env>>

(***************************************************************************)
(* ingestDurably: commit, then log.                                        *)
(***************************************************************************)
Scrape(b) ==
    /\ phase = "up"
    /\ stage[b] = "new"
    /\ stage' = [stage EXCEPT ![b] = "sent"]
    /\ UNCHANGED <<disk, phase, recovered, queue, epoch, flush, startup, env>>

StoreCommits(b) ==
    /\ stage[b] = "sent"
    /\ db' = db \cup {b}
    /\ stage' = [stage EXCEPT ![b] = "committed"]
    /\ UNCHANGED <<damaged, file, tail, phase, recovered, queue, epoch, flush, startup, env>>

\* The ingest is rejected: rolled back, or, when the worker is terminated or
\* its answer is lost, committed all the same.
IngestFails(b) ==
    /\ stage[b] = "sent"
    /\ Fault
    /\ db' \in {db, db \cup {b}}
    /\ stage' = [stage EXCEPT ![b] = "done"]
    /\ UNCHANGED <<damaged, file, tail, phase, recovered, queue, epoch, flush, startup, interrupted>>

\* Mutant of LogBatch: the log is written ahead of the commit.
LogAhead(b) ==
    /\ stage[b] \in {"sent", "committed"}
    /\ \A i \in DOMAIN queue : queue[i] # b
    /\ stage' = [stage EXCEPT ![b] = IF @ = "committed" THEN "done" ELSE @]
    /\ epoch' = epoch + 1
    /\ queue' = Append(queue, b)
    /\ UNCHANGED <<disk, phase, recovered, flush, startup, env>>

\* The promise of the commit resolves: wal.append.
LogBatch(b) ==
    /\ stage[b] = "committed"
    /\ stage' = [stage EXCEPT ![b] = "done"]
    /\ epoch' = epoch + 1
    /\ queue' = Append(queue, b)
    /\ UNCHANGED <<disk, phase, recovered, flush, startup, env>>

(***************************************************************************)
(* The queue of the log.  Each entry runs after the one before it, whether *)
(* that failed or not; whoever awaits the queue waits for a number of them.*)
(***************************************************************************)
Advance(waiter) == [waiter EXCEPT !.ahead = IF @ = 0 THEN 0 ELSE @ - 1]

Dequeue ==
    /\ queue # <<>>
    /\ queue' = Tail(queue)
    /\ flush' = [f \in Flushers |-> Advance(flush[f])]
    /\ startup' = Advance(startup)
    /\ UNCHANGED <<db, damaged, phase, recovered, stage, epoch>>

\* What an append of b may leave behind when it is cut short.
Torn(b) ==
    {tail} \cup (IF tail # NoTail THEN {Garbled}
                 ELSE (IF "fragment" \in Tears THEN {Garbled} ELSE {})
                      \cup (IF "newline" \in Tears THEN {b} ELSE {}))

\* The line joins what is left of a torn one and does not parse either.
AppendLine ==
    /\ Dequeue
    /\ Head(queue) # Truncate
    /\ file' = Append(file, IF tail = NoTail THEN Head(queue) ELSE Garbled)
    /\ tail' = NoTail
    /\ NoFault

AppendFails ==
    /\ Dequeue
    /\ Head(queue) # Truncate
    /\ Fault
    /\ tail' \in Torn(Head(queue))
    /\ UNCHANGED <<file, interrupted>>

TruncateFile ==
    /\ Dequeue
    /\ Head(queue) = Truncate
    /\ file' = <<>>
    /\ tail' = NoTail
    /\ NoFault

TruncateFails ==
    /\ Dequeue
    /\ Head(queue) = Truncate
    /\ Fault
    /\ UNCHANGED <<file, tail, interrupted>>

(***************************************************************************)
(* flushStore, from the timer and at the end of teardown.  It is skipped   *)
(* while the startup maintenance runs.                                     *)
(***************************************************************************)
FlushBegins(f) ==
    /\ flush[f].pc = "idle"
    /\ startup.pc = "none"
    /\ \/ f = "timer" /\ phase = "up" /\ UNCHANGED phase
       \/ f = "teardown" /\ phase = "closing" /\ InFlight = {} /\ phase' = "flushing"
    /\ flush' = [flush EXCEPT ![f] = FlushAt("barrier", epoch, Len(queue))]
    /\ UNCHANGED <<disk, recovered, stage, queue, epoch, startup, env>>

\* The barrier resolves: truncate unless something was appended meanwhile.
FlushChecks(f) ==
    /\ flush[f].pc = "barrier"
    /\ flush[f].ahead = 0
    /\ IF flush[f].epoch = epoch
       THEN /\ queue' = Append(queue, Truncate)
            /\ flush' = [flush EXCEPT ![f] = FlushAt("truncate", epoch, Len(queue) + 1)]
       ELSE flush' = [flush EXCEPT ![f] = NoFlush] /\ UNCHANGED queue
    /\ UNCHANGED <<disk, phase, recovered, stage, epoch, startup, env>>

FlushEnds(f) ==
    /\ flush[f].pc = "truncate"
    /\ flush[f].ahead = 0
    /\ flush' = [flush EXCEPT ![f] = NoFlush]
    /\ UNCHANGED <<disk, phase, recovered, stage, queue, epoch, startup, env>>

(***************************************************************************)
(* maintainStartupWal, after a wipe: replayIntoWithStats, barrier,         *)
(* truncate.                                                               *)
(***************************************************************************)
\* A log that cannot be read is replayed as if it were empty; when adapter.exists
\* throws, the maintenance ends there.
ReadLog ==
    /\ startup.pc = "read"
    /\ \/ /\ startup' = StartupAt("lines",
                            IF tail = NoTail THEN file ELSE Append(file, tail), 0)
          /\ NoFault
       \/ /\ Interrupts("read")
          /\ Fault
          /\ startup' \in {StartupAt("lines", <<>>, 0), NoStartup}
    /\ UNCHANGED <<disk, phase, recovered, stage, queue, epoch, flush>>

ReplayTakesLine ==
    /\ startup.pc = "lines"
    /\ phase = "up"
    /\ startup.text # <<>>
    /\ startup' = StartupAt("ingest", startup.text, 0)
    /\ UNCHANGED <<disk, phase, recovered, stage, queue, epoch, flush, env>>

\* A line that does not parse is skipped, and so is one whose ingest fails.
ReplayIngests ==
    /\ startup.pc = "ingest"
    /\ startup.text # <<>>
    /\ \/ db' = db \cup ({Head(startup.text)} \cap Batches) /\ NoFault
       \/ Interrupts("ingest") /\ Fault /\ UNCHANGED db
    /\ startup' = StartupAt("lines", Tail(startup.text), 0)
    /\ UNCHANGED <<damaged, file, tail, phase, recovered, stage, queue, epoch, flush>>

\* Mutant of ReplayStops: a replay that is stopped never settles its promise.
ReplayHangs ==
    /\ startup.pc = "lines"
    /\ phase # "up"
    /\ startup.text # <<>>
    /\ UNCHANGED vars

\* shouldContinue is false once the plugin is unloading.
ReplayStops ==
    /\ startup.pc = "lines"
    /\ phase # "up"
    /\ startup.text # <<>>
    /\ startup' = NoStartup
    /\ UNCHANGED <<disk, phase, recovered, stage, queue, epoch, flush, env>>

ReplayEnds ==
    /\ startup.pc = "lines"
    /\ startup.text = <<>>
    /\ startup' = StartupAt("barrier", <<>>, Len(queue))
    /\ UNCHANGED <<disk, phase, recovered, stage, queue, epoch, flush, env>>

\* Unlike flushStore it does not compare epochs.
StartupTruncates ==
    /\ startup.pc = "barrier"
    /\ startup.ahead = 0
    /\ queue' = Append(queue, Truncate)
    /\ startup' = StartupAt("truncate", <<>>, Len(queue) + 1)
    /\ UNCHANGED <<disk, phase, recovered, stage, epoch, flush, env>>

StartupEnds ==
    /\ startup.pc = "truncate"
    /\ startup.ahead = 0
    /\ startup' = NoStartup
    /\ UNCHANGED <<disk, phase, recovered, stage, queue, epoch, flush, env>>

(***************************************************************************)
(* Unloading.                                                              *)
(***************************************************************************)
\* onunload: the scraper is disposed of and the timers are cleared.
Unload ==
    /\ phase = "up"
    /\ Interrupts("unload")
    /\ phase' = "stopping"
    /\ UNCHANGED <<disk, recovered, stage, queue, epoch, flush, startup, faults>>

\* The startup maintenance is over; the store runs what it was sent, and closes.
CloseStore ==
    /\ phase = "stopping"
    /\ startup.pc = "none"
    /\ \A b \in Batches : stage[b] # "sent"
    /\ phase' = "closing"
    /\ UNCHANGED <<disk, recovered, stage, queue, epoch, flush, startup, env>>

\* Mutant of EndTeardown: teardown does not wait for its flush.
EndTeardownEarly ==
    /\ phase = "flushing"
    /\ phase' = "down"
    /\ UNCHANGED <<disk, recovered, stage, queue, epoch, flush, startup, env>>

\* The timer's last flush awaited the queue before teardown did, so it has
\* settled too.
EndTeardown ==
    /\ phase = "flushing"
    /\ \A f \in Flushers : flush[f].pc = "idle"
    /\ phase' = "down"
    /\ UNCHANGED <<disk, recovered, stage, queue, epoch, flush, startup, env>>

(***************************************************************************)
(* The environment.                                                        *)
(***************************************************************************)
\* The process ends.  A commit the plugin has not heard of yet may have been
\* made (StoreCommits came first), the append being written may be cut short.
Crash ==
    /\ phase # "down"
    /\ Interrupts("crash")
    /\ Fault
    /\ phase' = "down"
    /\ stage' = [b \in Batches |-> IF b \in InFlight THEN "done" ELSE stage[b]]
    /\ tail' \in IF queue # <<>> /\ Head(queue) # Truncate THEN Torn(Head(queue)) ELSE {tail}
    /\ queue' = <<>>
    /\ flush' = [f \in Flushers |-> NoFlush]
    /\ startup' = NoStartup
    /\ UNCHANGED <<db, damaged, file, recovered, epoch>>

\* Between two sessions the database becomes unreadable.
Damage ==
    /\ phase = "down"
    /\ ~damaged
    /\ Fault
    /\ damaged' = TRUE
    /\ UNCHANGED <<db, file, tail, phase, recovered, stage, queue, epoch, flush, startup, interrupted>>

Next ==
    \/ Open \/ OpenWiped \/ OpenWipedFails \/ Abandon \/ StartSession
    \/ \E b \in Batches : Scrape(b) \/ StoreCommits(b) \/ IngestFails(b) \/ LogBatch(b)
    \/ AppendLine \/ AppendFails \/ TruncateFile \/ TruncateFails
    \/ \E f \in Flushers : FlushBegins(f) \/ FlushChecks(f) \/ FlushEnds(f)
    \/ ReadLog \/ ReplayTakesLine \/ ReplayIngests \/ ReplayStops \/ ReplayEnds
    \/ StartupTruncates \/ StartupEnds
    \/ Unload \/ CloseStore \/ EndTeardown
    \/ Crash \/ Damage

Spec == Init /\ [][Next]_vars

\* A call that was made returns or throws, a promise that has settled resumes
\* whoever awaits it.  Nothing is promised of loading, unloading, scraping, the
\* flush timer or the environment.
Fairness ==
    /\ \A b \in Batches : WF_vars(StoreCommits(b) \/ IngestFails(b)) /\ WF_vars(LogBatch(b))
    /\ WF_vars(AppendLine \/ AppendFails) /\ WF_vars(TruncateFile \/ TruncateFails)
    /\ WF_vars(FlushBegins("teardown"))
    /\ \A f \in Flushers : WF_vars(FlushChecks(f)) /\ WF_vars(FlushEnds(f))
    /\ WF_vars(ReadLog) /\ WF_vars(ReplayTakesLine) /\ WF_vars(ReplayIngests)
    /\ WF_vars(ReplayStops) /\ WF_vars(ReplayEnds)
    /\ WF_vars(StartupTruncates) /\ WF_vars(StartupEnds)
    /\ WF_vars(CloseStore) /\ WF_vars(EndTeardown)

FairSpec == Spec /\ Fairness
--------------------------------------------------------------------------------
(***************************************************************************)
(* Properties.                                                             *)
(***************************************************************************)
Logged == {b \in Batches : tail = b \/ \E i \in DOMAIN file : file[i] = b}

Queued == {b \in Batches : \E i \in DOMAIN queue : queue[i] = b}

\* main.ts:1296: "the WAL only ever contains samples that are already
\* committed, so truncation is safe".  The database holds every batch that is in
\* the log or on its way there, but for the time the log is what refills it.
LogIsCommitted ==
    damaged \/ Refilling \/ interrupted \/ Logged \cup Queued \subseteq db

\* What a database that opens holds, and what the log would put back.
Recoverable == (IF damaged THEN {} ELSE db) \cup Logged

\* No step of the plugin loses a batch that the database or the log still had:
\* no checkpoint, replay, restart or unload, if only the refilling of a wiped
\* database is not interrupted.
NothingForgotten ==
    [][(damaged' => damaged) /\ ~interrupted => Recoverable \subseteq Recoverable']_vars

\* A session starts only when the one before it has settled every write: two
\* SampleWal objects never write the file at the same time.
SessionsDoNotOverlap ==
    phase \in {"down", "wiped", "opened"} =>
        /\ queue = <<>>
        /\ InFlight = {}
        /\ startup = NoStartup
        /\ \A f \in Flushers : flush[f] = NoFlush

\* Unloading ends, whatever replay, flush or ingest it finds in progress: the
\* next load waits for it (window.__tsdbTeardownPromise).
TeardownEnds == phase = "stopping" ~> phase = "down"

(***************************************************************************)
(* A statement of the documentation that the code does not keep.           *)
(***************************************************************************)
\* wal.ts:137, "Callers must only truncate entries that are covered by committed
\* SQLite transactions", and ARCHITECTURE.md:554, an unreadable database is wiped
\* and the WAL replayed: NothingForgotten without its condition.
OnlyCoveredIsTruncated ==
    [][(damaged' => damaged) => Recoverable \subseteq Recoverable']_vars
================================================================================
