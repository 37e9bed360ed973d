--------------------------- MODULE WalRecoveryProofs ---------------------------
(***************************************************************************)
(* Theorems about WalRecovery, for any number of batches and faults.       *)
(***************************************************************************)
EXTENDS WalRecovery, TLAPS

InText == {b \in Batches : \E i \in DOMAIN startup.text : startup.text[i] = b}

\* Nobody waits for a promise unless the code says so.
IdleIsBlank ==
    /\ \A f \in Flushers : flush[f].pc = "idle" => flush[f] = NoFlush
    /\ startup.pc = "none" => startup = NoStartup

\* What each part of unloading has waited for when the next one runs.
TeardownOrder ==
    /\ phase \in {"closing", "flushing"} =>
           startup.pc = "none" /\ \A b \in Batches : stage[b] # "sent"
    /\ phase = "flushing" => InFlight = {}
    /\ phase = "flushing" /\ queue # <<>> =>
           \E f \in Flushers : flush[f].pc # "idle" /\ flush[f].ahead >= Len(queue)
    /\ flush["teardown"].pc # "idle" => phase = "flushing"
    /\ damaged => phase = "down"

\* The promise of a commit resolves after the commit, and logs after that.
CommittedFirst ==
    /\ \A b \in Batches : stage[b] = "committed" => b \in db
    /\ Queued \subseteq db

\* While the log refills the database nothing can truncate it, and what has not
\* been read back is still to come.
Replaying == startup.pc \in {"read", "lines", "ingest"}

ReplayAfterWipe ==
    startup.pc \in {"read", "lines", "ingest", "barrier"} => recovered

NothingTruncates ==
    Replaying =>
        /\ \A f \in Flushers : flush[f].pc = "idle"
        /\ \A i \in DOMAIN queue : queue[i] # Truncate
        /\ phase # "up" => interrupted

TextCoversLog ==
    startup.pc \in {"lines", "ingest"} => interrupted \/ Logged \subseteq db \cup InText

\* Unless an append may leave a line that lacks only its newline.
TailIsTorn == "newline" \notin Tears => tail \in {Garbled, NoTail}

IInv ==
    /\ TypeOK
    /\ SessionsDoNotOverlap
    /\ IdleIsBlank
    /\ TeardownOrder
    /\ CommittedFirst
    /\ ReplayAfterWipe
    /\ NothingTruncates
    /\ TextCoversLog
    /\ LogIsCommitted
    /\ TailIsTorn
--------------------------------------------------------------------------------
(***************************************************************************)
(* Types.                                                                  *)
(***************************************************************************)
\* Waiting for one entry less keeps the type of who waits.
LEMMA AdvanceType ==
    /\ \A w \in FlushCalls : Advance(w) \in FlushCalls /\ Advance(w).pc = w.pc
    /\ \A w \in Startups : /\ Advance(w) \in Startups
                           /\ Advance(w).pc = w.pc /\ Advance(w).text = w.text
<1>1. ASSUME NEW w \in FlushCalls
      PROVE  Advance(w) \in FlushCalls /\ Advance(w).pc = w.pc
  BY DEF FlushCalls, Advance
<1>2. ASSUME NEW w \in Startups
      PROVE  /\ Advance(w) \in Startups
             /\ Advance(w).pc = w.pc /\ Advance(w).text = w.text
  BY DEF Startups, Advance
<1> QED BY <1>1, <1>2

\* The head of a queue, and what is left of it.
LEMMA HeadTail ==
    ASSUME NEW S, NEW q \in Seq(S), q # <<>>
    PROVE  /\ Head(q) \in S /\ Tail(q) \in Seq(S)
           /\ Len(q) \in Nat \ {0} /\ Len(Tail(q)) = Len(q) - 1
           /\ DOMAIN q = 1..Len(q) /\ Head(q) = q[1]
           /\ \A i \in DOMAIN Tail(q) : i + 1 \in DOMAIN q /\ Tail(q)[i] = q[i + 1]
           /\ \A i \in DOMAIN q : q[i] = Head(q) \/ \E j \in DOMAIN Tail(q) : q[i] = Tail(q)[j]
<1>1. /\ Head(q) \in S /\ Tail(q) \in Seq(S)
      /\ Len(q) \in Nat \ {0} /\ Len(Tail(q)) = Len(q) - 1
      /\ DOMAIN q = 1..Len(q) /\ Head(q) = q[1]
  OBVIOUS
<1>2. \A i \in DOMAIN Tail(q) : i + 1 \in DOMAIN q /\ Tail(q)[i] = q[i + 1]
  BY <1>1
<1>3. ASSUME NEW i \in DOMAIN q
      PROVE  q[i] = Head(q) \/ \E j \in DOMAIN Tail(q) : q[i] = Tail(q)[j]
  <2>1. CASE i = 1 BY <2>1, <1>1
  <2>2. CASE i # 1
    <3>1. i - 1 \in DOMAIN Tail(q) /\ Tail(q)[i - 1] = q[i] BY <2>2, <1>1
    <3> QED BY <3>1
  <2> QED BY <2>1, <2>2
<1> QED BY <1>1, <1>2, <1>3

\* A queue with one more entry.
LEMMA AppendEntry ==
    ASSUME NEW S, NEW q \in Seq(S), NEW e \in S
    PROVE  /\ Append(q, e) \in Seq(S) /\ Append(q, e) # <<>>
           /\ Len(q) \in Nat /\ Len(Append(q, e)) = Len(q) + 1
           /\ \A i \in DOMAIN Append(q, e) :
                  Append(q, e)[i] = e \/ (i \in DOMAIN q /\ Append(q, e)[i] = q[i])
           /\ \A i \in DOMAIN q : i \in DOMAIN Append(q, e) /\ Append(q, e)[i] = q[i]
           /\ \E i \in DOMAIN Append(q, e) : Append(q, e)[i] = e
<1>1. /\ Append(q, e) \in Seq(S) /\ Len(q) \in Nat /\ Len(Append(q, e)) = Len(q) + 1
      /\ DOMAIN q = 1..Len(q) /\ DOMAIN Append(q, e) = 1..(Len(q) + 1)
      /\ Append(q, e)[Len(q) + 1] = e
      /\ \A i \in 1..Len(q) : Append(q, e)[i] = q[i]
  OBVIOUS
<1>2. Append(q, e) # <<>> BY <1>1
<1> QED BY <1>1, <1>2

\* One entry of the queue of the log has run.
LEMMA DequeueType ==
    ASSUME TypeOK, Dequeue
    PROVE  /\ Head(queue) \in Batches \cup {Truncate}
           /\ queue' \in Seq(Batches \cup {Truncate})
           /\ flush' \in [Flushers -> FlushCalls] /\ startup' \in Startups
           /\ UNCHANGED <<db, damaged, phase, recovered, stage, epoch>>
<1>1. Head(queue) \in Batches \cup {Truncate} /\ queue' \in Seq(Batches \cup {Truncate})
  BY HeadTail DEF TypeOK, Dequeue
<1>2. flush' \in [Flushers -> FlushCalls] BY AdvanceType DEF TypeOK, Dequeue
<1> QED BY <1>1, <1>2, AdvanceType DEF TypeOK, Dequeue

\* The number of faults stays within its bound.
LEMMA FaultType ==
    ASSUME TypeOK, Fault
    PROVE  faults' \in 0..MaxFaults
  BY WalAssumption DEF TypeOK, Fault

\* What an append may leave at the end of the file.
LEMMA TornType ==
    ASSUME TypeOK, NEW b \in Batches, NEW x \in Torn(b)
    PROVE  /\ x \in Batches \cup {Garbled, NoTail}
           /\ tail = NoTail => x \in {NoTail, Garbled} \/ (x = b /\ "newline" \in Tears)
           /\ tail # NoTail => x \in {tail, Garbled}
<1>1. CASE tail = NoTail BY <1>1 DEF Torn
<1>2. CASE tail # NoTail BY <1>2 DEF Torn, TypeOK
<1> QED BY <1>1, <1>2

\* The queues and texts that are written down.
LEMMA ShortSeqs ==
    /\ \A S : <<>> \in Seq(S) /\ \A e \in S : <<e>> \in Seq(S)
    /\ StartupAt("none", <<>>, 0) \in Startups
    /\ StartupAt("read", <<>>, 0) \in Startups
    /\ StartupAt("lines", <<>>, 0) \in Startups
    /\ StartupAt("truncate", <<>>, 1) \in Startups
<1>1. ASSUME NEW S PROVE <<>> \in Seq(S) /\ \A e \in S : <<e>> \in Seq(S)
  OBVIOUS
<1>2. <<>> \in Seq(Batches \cup {Garbled}) BY <1>1
<1> QED BY <1>1, <1>2 DEF StartupAt, Startups

\* Every step keeps the types.
LEMMA TypeStep ==
    ASSUME TypeOK, [Next]_vars
    PROVE  TypeOK'
<1> USE DEF TypeOK, NoFault, Interrupts, NoFlush, NoStartup, FlushAt, StartupAt,
      FlushCalls, Startups, Phases
<1>0. CASE UNCHANGED vars BY <1>0 DEF vars, disk, env
<1>1. CASE Open BY <1>1 DEF Open, disk, env
<1>2. CASE OpenWiped BY <1>2 DEF OpenWiped, disk, env
<1>3. CASE OpenWipedFails BY <1>3, FaultType DEF OpenWipedFails, disk, env
<1>4. CASE Abandon BY <1>4 DEF Abandon, disk, env
<1>5. CASE StartSession
  <2>1. queue' \in Seq(Batches \cup {Truncate})
    <3>1. queue' = <<>> \/ queue' = <<Truncate>> BY <1>5 DEF StartSession
    <3>2. <<>> \in Seq(Batches \cup {Truncate}) BY ShortSeqs
    <3>3. <<Truncate>> \in Seq(Batches \cup {Truncate}) BY ShortSeqs
    <3> QED BY ONLY <3>1, <3>2, <3>3
  <2>2. startup' \in Startups
    <3>1. startup' \in {StartupAt("read", <<>>, 0), StartupAt("truncate", <<>>, 1)}
      BY <1>5 DEF StartSession
    <3> HIDE DEF StartupAt, Startups
    <3> QED BY <3>1, ShortSeqs
  <2> QED BY <1>5, <2>1, <2>2 DEF StartSession, disk, env
<1>6. ASSUME NEW b \in Batches, Scrape(b) PROVE TypeOK'
  BY <1>6 DEF Scrape, disk, env
<1>7. ASSUME NEW b \in Batches, StoreCommits(b) PROVE TypeOK'
  BY <1>7 DEF StoreCommits, disk, env
<1>8. ASSUME NEW b \in Batches, IngestFails(b) PROVE TypeOK'
  BY <1>8, FaultType DEF IngestFails, disk, env
<1>9. ASSUME NEW b \in Batches, LogBatch(b) PROVE TypeOK'
  BY <1>9, AppendEntry DEF LogBatch, disk, env
<1>10. CASE AppendLine
  <2>1. Dequeue /\ Head(queue) # Truncate BY <1>10 DEF AppendLine
  <2>2. Head(queue) \in Batches BY <2>1, DequeueType
  <2> DEFINE line == IF tail = NoTail THEN Head(queue) ELSE Garbled
  <2>3. file' = Append(file, line) /\ line \in Batches \cup {Garbled}
    BY <1>10, <2>2 DEF AppendLine
  <2>4. file' \in Seq(Batches \cup {Garbled}) BY <2>3, AppendEntry
  <2> QED BY <1>10, <2>1, <2>4, DequeueType DEF AppendLine, env, Dequeue
<1>11. CASE AppendFails
  <2>1. Dequeue /\ Head(queue) # Truncate /\ Fault BY <1>11 DEF AppendFails
  <2>2. Head(queue) \in Batches BY <2>1, DequeueType
  <2>3. tail' \in Batches \cup {Garbled, NoTail}
    BY <1>11, <2>2, TornType DEF AppendFails
  <2> QED BY <1>11, <2>1, <2>3, DequeueType, FaultType DEF AppendFails, Dequeue
<1>12. CASE TruncateFile
  <2>1. Dequeue /\ file' = <<>> /\ tail' = NoTail BY <1>12 DEF TruncateFile
  <2> QED BY <1>12, <2>1, DequeueType DEF TruncateFile, env, Dequeue
<1>13. CASE TruncateFails
  <2>1. Dequeue /\ Fault BY <1>13 DEF TruncateFails
  <2> QED BY <1>13, <2>1, DequeueType, FaultType DEF TruncateFails, Dequeue
<1>14. ASSUME NEW f \in Flushers, FlushBegins(f) PROVE TypeOK'
  BY <1>14 DEF FlushBegins, disk, env
<1>15. ASSUME NEW f \in Flushers, FlushChecks(f) PROVE TypeOK'
  <2>1. CASE flush[f].epoch = epoch
    <3>1. queue' = Append(queue, Truncate) BY <1>15, <2>1 DEF FlushChecks
    <3>2. queue' \in Seq(Batches \cup {Truncate}) /\ Len(queue) + 1 \in Nat
      BY <3>1, AppendEntry
    <3>3. flush' = [flush EXCEPT ![f] = FlushAt("truncate", epoch, Len(queue) + 1)]
      BY <1>15, <2>1 DEF FlushChecks
    <3>4. flush' \in [Flushers -> FlushCalls] BY <3>2, <3>3
    <3> QED BY <1>15, <3>2, <3>4 DEF FlushChecks, disk, env
  <2>2. CASE flush[f].epoch # epoch
    <3>1. flush' = [flush EXCEPT ![f] = NoFlush] /\ UNCHANGED queue
      BY <1>15, <2>2 DEF FlushChecks
    <3>2. flush' \in [Flushers -> FlushCalls] BY <3>1
    <3> QED BY <1>15, <3>1, <3>2 DEF FlushChecks, disk, env
  <2> QED BY <2>1, <2>2
<1>16. ASSUME NEW f \in Flushers, FlushEnds(f) PROVE TypeOK'
  BY <1>16 DEF FlushEnds, disk, env
<1>17. CASE ReadLog
  <2> DEFINE text == IF tail = NoTail THEN file ELSE Append(file, tail)
  <2>1. text \in Seq(Batches \cup {Garbled})
    <3>1. CASE tail = NoTail BY <3>1
    <3>2. CASE tail # NoTail
      <4>1. tail \in Batches \cup {Garbled} BY <3>2
      <4> QED BY <3>2, <4>1, AppendEntry
    <3> QED BY <3>1, <3>2
  <2>2. startup' \in Startups
    <3>1. CASE startup' = StartupAt("lines", text, 0) BY <2>1, <3>1
    <3>2. CASE startup' \in {StartupAt("lines", <<>>, 0), NoStartup}
      <4> HIDE DEF StartupAt, Startups
      <4> QED BY <3>2, ShortSeqs DEF NoStartup
    <3> QED BY <1>17, <3>1, <3>2 DEF ReadLog
  <2>3. faults' \in 0..MaxFaults BY <1>17, FaultType DEF ReadLog, env
  <2>4. interrupted' \in BOOLEAN BY <1>17 DEF ReadLog, env
  <2> QED BY <1>17, <2>2, <2>3, <2>4 DEF ReadLog, disk
<1>18. CASE ReplayTakesLine BY <1>18 DEF ReplayTakesLine, disk, env
<1>19. CASE ReplayIngests
  <2>1. startup.text # <<>> /\ Tail(startup.text) \in Seq(Batches \cup {Garbled})
    BY <1>19, HeadTail DEF ReplayIngests
  <2>2. startup' \in Startups BY <1>19, <2>1 DEF ReplayIngests
  <2>3. db' \subseteq Batches BY <1>19 DEF ReplayIngests
  <2>4. faults' \in 0..MaxFaults BY <1>19, FaultType DEF ReplayIngests, env
  <2>5. interrupted' \in BOOLEAN BY <1>19 DEF ReplayIngests, env
  <2> QED BY <1>19, <2>2, <2>3, <2>4, <2>5 DEF ReplayIngests
<1>20. CASE ReplayStops BY <1>20 DEF ReplayStops, disk, env
<1>21. CASE ReplayEnds BY <1>21 DEF ReplayEnds, disk, env
<1>22. CASE StartupTruncates
  BY <1>22, AppendEntry DEF StartupTruncates, disk, env
<1>23. CASE StartupEnds BY <1>23 DEF StartupEnds, disk, env
<1>24. CASE Unload BY <1>24 DEF Unload, disk, env
<1>25. CASE CloseStore BY <1>25 DEF CloseStore, disk, env
<1>26. CASE EndTeardown BY <1>26 DEF EndTeardown, disk, env
<1>27. CASE Crash
  <2>1. tail' \in Batches \cup {Garbled, NoTail}
    <3>1. CASE queue # <<>> /\ Head(queue) # Truncate
      <4>1. Head(queue) \in Batches BY <3>1, HeadTail
      <4> QED BY <1>27, <3>1, <4>1, TornType DEF Crash
    <3>2. CASE ~(queue # <<>> /\ Head(queue) # Truncate) BY <1>27, <3>2 DEF Crash
    <3> QED BY <3>1, <3>2
  <2>2. faults' \in 0..MaxFaults BY <1>27, FaultType DEF Crash
  <2> QED BY <1>27, <2>1, <2>2 DEF Crash
<1>28. CASE Damage BY <1>28, FaultType DEF Damage, disk, env
<1> QED BY <1>0, <1>1, <1>2, <1>3, <1>4, <1>5, <1>6, <1>7, <1>8, <1>9, <1>10,
      <1>11, <1>12, <1>13, <1>14, <1>15, <1>16, <1>17, <1>18, <1>19, <1>20,
      <1>21, <1>22, <1>23, <1>24, <1>25, <1>26, <1>27, <1>28 DEF Next

--------------------------------------------------------------------------------
(***************************************************************************)
(* The order of unloading.                                                 *)
(***************************************************************************)
\* Whoever does not wait goes on not waiting, and the others stay where they are.
LEMMA DequeueWaits ==
    ASSUME TypeOK, Dequeue
    PROVE  /\ \A f \in Flushers :
                  /\ flush'[f].pc = flush[f].pc
                  /\ flush[f] = NoFlush => flush'[f] = NoFlush
                  /\ flush[f].ahead > 0 => flush'[f].ahead = flush[f].ahead - 1
           /\ startup'.pc = startup.pc /\ startup'.text = startup.text
           /\ startup = NoStartup => startup' = NoStartup
<1>1. \A f \in Flushers : flush'[f] = Advance(flush[f]) /\ flush[f] \in FlushCalls
  BY DEF TypeOK, Dequeue
<1>2. startup' = Advance(startup) /\ startup \in Startups BY DEF TypeOK, Dequeue
<1>3. ASSUME NEW w \in FlushCalls, w.ahead > 0
      PROVE  Advance(w).ahead = w.ahead - 1
  BY <1>3 DEF Advance, FlushCalls
<1>4. Advance(NoFlush) = NoFlush /\ Advance(NoStartup) = NoStartup
  BY DEF Advance, NoFlush, NoStartup, FlushAt, StartupAt
<1> QED BY <1>1, <1>2, <1>3, <1>4, AdvanceType

\* A promise that nobody waits for keeps no trace of who did.
LEMMA BlankStep ==
    ASSUME TypeOK, IdleIsBlank, [Next]_vars
    PROVE  IdleIsBlank'
<1> USE DEF TypeOK, IdleIsBlank, NoFlush, NoStartup, FlushAt, StartupAt
<1>0. CASE UNCHANGED vars BY <1>0 DEF vars, disk, env
<1>1. CASE Open BY <1>1 DEF Open, disk, env
<1>2. CASE OpenWiped BY <1>2 DEF OpenWiped, disk, env
<1>3. CASE OpenWipedFails BY <1>3 DEF OpenWipedFails, disk, env
<1>4. CASE Abandon BY <1>4 DEF Abandon, disk, env
<1>5. CASE StartSession BY <1>5 DEF StartSession, disk, env
<1>6. ASSUME NEW b \in Batches, Scrape(b) PROVE IdleIsBlank'
  BY <1>6 DEF Scrape, disk, env
<1>7. ASSUME NEW b \in Batches, StoreCommits(b) PROVE IdleIsBlank'
  BY <1>7 DEF StoreCommits, disk, env
<1>8. ASSUME NEW b \in Batches, IngestFails(b) PROVE IdleIsBlank'
  BY <1>8 DEF IngestFails, disk, env
<1>9. ASSUME NEW b \in Batches, LogBatch(b) PROVE IdleIsBlank'
  BY <1>9 DEF LogBatch, disk, env
<1>10. CASE AppendLine
  <2>1. Dequeue BY <1>10 DEF AppendLine
  <2> QED BY <2>1, DequeueWaits
<1>11. CASE AppendFails
  <2>1. Dequeue BY <1>11 DEF AppendFails
  <2> QED BY <2>1, DequeueWaits
<1>12. CASE TruncateFile
  <2>1. Dequeue BY <1>12 DEF TruncateFile
  <2> QED BY <2>1, DequeueWaits
<1>13. CASE TruncateFails
  <2>1. Dequeue BY <1>13 DEF TruncateFails
  <2> QED BY <2>1, DequeueWaits
<1>14. ASSUME NEW f \in Flushers, FlushBegins(f) PROVE IdleIsBlank'
  BY <1>14 DEF FlushBegins, disk, env
<1>15. ASSUME NEW f \in Flushers, FlushChecks(f) PROVE IdleIsBlank'
  BY <1>15 DEF FlushChecks, disk, env
<1>16. ASSUME NEW f \in Flushers, FlushEnds(f) PROVE IdleIsBlank'
  BY <1>16 DEF FlushEnds, disk, env
<1>17. CASE ReadLog BY <1>17 DEF ReadLog, disk, env
<1>18. CASE ReplayTakesLine BY <1>18 DEF ReplayTakesLine, disk, env
<1>19. CASE ReplayIngests BY <1>19 DEF ReplayIngests, disk, env
<1>20. CASE ReplayStops BY <1>20 DEF ReplayStops, disk, env
<1>21. CASE ReplayEnds BY <1>21 DEF ReplayEnds, disk, env
<1>22. CASE StartupTruncates BY <1>22 DEF StartupTruncates, disk, env
<1>23. CASE StartupEnds BY <1>23 DEF StartupEnds, disk, env
<1>24. CASE Unload BY <1>24 DEF Unload, disk, env
<1>25. CASE CloseStore BY <1>25 DEF CloseStore, disk, env
<1>26. CASE EndTeardown BY <1>26 DEF EndTeardown, disk, env
<1>27. CASE Crash BY <1>27 DEF Crash, disk, env
<1>28. CASE Damage BY <1>28 DEF Damage, disk, env
<1> QED BY <1>0, <1>1, <1>2, <1>3, <1>4, <1>5, <1>6, <1>7, <1>8, <1>9, <1>10,
      <1>11, <1>12, <1>13, <1>14, <1>15, <1>16, <1>17, <1>18, <1>19, <1>20,
      <1>21, <1>22, <1>23, <1>24, <1>25, <1>26, <1>27, <1>28 DEF Next

\* Each part of unloading waits for the parts before it.
LEMMA OrderStep ==
    ASSUME TypeOK, IdleIsBlank, SessionsDoNotOverlap, TeardownOrder, [Next]_vars
    PROVE  TeardownOrder'
<1> USE DEF InFlight
<1>d. "teardown" \in Flushers /\ flush \in [Flushers -> FlushCalls]
  BY DEF Flushers, TypeOK
<1> USE <1>d
<1>0. CASE UNCHANGED vars BY <1>0 DEF vars, disk, env, TeardownOrder
<1>1. CASE Open BY <1>1 DEF Open, disk, env, TeardownOrder
<1>2. CASE OpenWiped BY <1>2 DEF OpenWiped, disk, env, TeardownOrder
<1>3. CASE OpenWipedFails BY <1>3 DEF OpenWipedFails, disk, env, TeardownOrder
<1>4. CASE Abandon BY <1>4 DEF Abandon, disk, env, TeardownOrder
<1>5. CASE StartSession BY <1>5 DEF StartSession, disk, env, TeardownOrder
<1>6. ASSUME NEW b \in Batches, Scrape(b) PROVE TeardownOrder'
  BY <1>6 DEF Scrape, disk, env, TeardownOrder
<1>7. ASSUME NEW b \in Batches, StoreCommits(b) PROVE TeardownOrder'
  BY <1>7 DEF StoreCommits, disk, env, TeardownOrder
<1>8. ASSUME NEW b \in Batches, IngestFails(b) PROVE TeardownOrder'
  BY <1>8 DEF IngestFails, disk, env, TeardownOrder
<1>9. ASSUME NEW b \in Batches, LogBatch(b) PROVE TeardownOrder'
  BY <1>9 DEF LogBatch, disk, env, TeardownOrder
<1>10. CASE AppendLine
  <2>1. Dequeue BY <1>10 DEF AppendLine
  <2>2. UNCHANGED <<phase, stage, damaged>> BY <1>10 DEF AppendLine, Dequeue
  <2>3. ASSUME phase' = "flushing", queue' # <<>>
        PROVE  \E f \in Flushers : flush'[f].pc # "idle" /\ flush'[f].ahead >= Len(queue')
    <3>1. queue # <<>> /\ queue' = Tail(queue) BY <2>1 DEF Dequeue
    <3>2. PICK f \in Flushers : flush[f].pc # "idle" /\ flush[f].ahead >= Len(queue)
      BY <2>2, <2>3, <3>1 DEF TeardownOrder
    <3>3. Len(queue) \in Nat \ {0} /\ Len(queue') = Len(queue) - 1
      BY <3>1, HeadTail DEF TypeOK
    <3>4. flush[f].ahead \in Nat BY DEF TypeOK, FlushCalls
    <3>5. flush'[f].ahead = flush[f].ahead - 1 /\ flush'[f].pc # "idle"
      BY <2>1, <3>2, <3>3, <3>4, DequeueWaits
    <3> QED BY <3>2, <3>3, <3>4, <3>5
  <2>4. flush'["teardown"].pc = flush["teardown"].pc BY <2>1, DequeueWaits DEF Flushers
  <2>5. startup'.pc = startup.pc BY <2>1, DequeueWaits
  <2> QED BY <2>2, <2>3, <2>4, <2>5 DEF TeardownOrder
<1>11. CASE AppendFails
  <2>1. Dequeue BY <1>11 DEF AppendFails
  <2>2. UNCHANGED <<phase, stage, damaged>> BY <1>11 DEF AppendFails, Dequeue
  <2>3. ASSUME phase' = "flushing", queue' # <<>>
        PROVE  \E f \in Flushers : flush'[f].pc # "idle" /\ flush'[f].ahead >= Len(queue')
    <3>1. queue # <<>> /\ queue' = Tail(queue) BY <2>1 DEF Dequeue
    <3>2. PICK f \in Flushers : flush[f].pc # "idle" /\ flush[f].ahead >= Len(queue)
      BY <2>2, <2>3, <3>1 DEF TeardownOrder
    <3>3. Len(queue) \in Nat \ {0} /\ Len(queue') = Len(queue) - 1
      BY <3>1, HeadTail DEF TypeOK
    <3>4. flush[f].ahead \in Nat BY DEF TypeOK, FlushCalls
    <3>5. flush'[f].ahead = flush[f].ahead - 1 /\ flush'[f].pc # "idle"
      BY <2>1, <3>2, <3>3, <3>4, DequeueWaits
    <3> QED BY <3>2, <3>3, <3>4, <3>5
  <2>4. flush'["teardown"].pc = flush["teardown"].pc BY <2>1, DequeueWaits DEF Flushers
  <2>5. startup'.pc = startup.pc BY <2>1, DequeueWaits
  <2> QED BY <2>2, <2>3, <2>4, <2>5 DEF TeardownOrder
<1>12. CASE TruncateFile
  <2>1. Dequeue BY <1>12 DEF TruncateFile
  <2>2. UNCHANGED <<phase, stage, damaged>> BY <1>12 DEF TruncateFile, Dequeue
  <2>3. ASSUME phase' = "flushing", queue' # <<>>
        PROVE  \E f \in Flushers : flush'[f].pc # "idle" /\ flush'[f].ahead >= Len(queue')
    <3>1. queue # <<>> /\ queue' = Tail(queue) BY <2>1 DEF Dequeue
    <3>2. PICK f \in Flushers : flush[f].pc # "idle" /\ flush[f].ahead >= Len(queue)
      BY <2>2, <2>3, <3>1 DEF TeardownOrder
    <3>3. Len(queue) \in Nat \ {0} /\ Len(queue') = Len(queue) - 1
      BY <3>1, HeadTail DEF TypeOK
    <3>4. flush[f].ahead \in Nat BY DEF TypeOK, FlushCalls
    <3>5. flush'[f].ahead = flush[f].ahead - 1 /\ flush'[f].pc # "idle"
      BY <2>1, <3>2, <3>3, <3>4, DequeueWaits
    <3> QED BY <3>2, <3>3, <3>4, <3>5
  <2>4. flush'["teardown"].pc = flush["teardown"].pc BY <2>1, DequeueWaits DEF Flushers
  <2>5. startup'.pc = startup.pc BY <2>1, DequeueWaits
  <2> QED BY <2>2, <2>3, <2>4, <2>5 DEF TeardownOrder
<1>13. CASE TruncateFails
  <2>1. Dequeue BY <1>13 DEF TruncateFails
  <2>2. UNCHANGED <<phase, stage, damaged>> BY <1>13 DEF TruncateFails, Dequeue
  <2>3. ASSUME phase' = "flushing", queue' # <<>>
        PROVE  \E f \in Flushers : flush'[f].pc # "idle" /\ flush'[f].ahead >= Len(queue')
    <3>1. queue # <<>> /\ queue' = Tail(queue) BY <2>1 DEF Dequeue
    <3>2. PICK f \in Flushers : flush[f].pc # "idle" /\ flush[f].ahead >= Len(queue)
      BY <2>2, <2>3, <3>1 DEF TeardownOrder
    <3>3. Len(queue) \in Nat \ {0} /\ Len(queue') = Len(queue) - 1
      BY <3>1, HeadTail DEF TypeOK
    <3>4. flush[f].ahead \in Nat BY DEF TypeOK, FlushCalls
    <3>5. flush'[f].ahead = flush[f].ahead - 1 /\ flush'[f].pc # "idle"
      BY <2>1, <3>2, <3>3, <3>4, DequeueWaits
    <3> QED BY <3>2, <3>3, <3>4, <3>5
  <2>4. flush'["teardown"].pc = flush["teardown"].pc BY <2>1, DequeueWaits DEF Flushers
  <2>5. startup'.pc = startup.pc BY <2>1, DequeueWaits
  <2> QED BY <2>2, <2>3, <2>4, <2>5 DEF TeardownOrder
<1>14. ASSUME NEW f \in Flushers, FlushBegins(f) PROVE TeardownOrder'
  <2>1. flush'[f] = FlushAt("barrier", epoch, Len(queue)) /\ UNCHANGED <<damaged, queue, stage, startup>>
    BY <1>14 DEF FlushBegins, disk
  <2>2. flush'[f].pc # "idle" /\ flush'[f].ahead = Len(queue) BY <2>1 DEF FlushAt
  <2>3. Len(queue) \in Nat /\ startup.pc = "none" BY <1>14 DEF TypeOK, FlushBegins
  <2>4. CASE f = "timer"
    <3>1. phase = "up" /\ phase' = "up" BY <1>14, <2>4 DEF FlushBegins
    <3>2. flush'["teardown"] = flush["teardown"] BY <1>14, <2>4 DEF FlushBegins
    <3> QED BY <2>1, <3>1, <3>2 DEF TeardownOrder
  <2>5. CASE f = "teardown"
    <3>1. phase = "closing" /\ phase' = "flushing" /\ InFlight = {}
      BY <1>14, <2>5 DEF FlushBegins
    <3> QED BY <2>1, <2>2, <2>3, <3>1 DEF TeardownOrder
  <2> QED BY <2>4, <2>5 DEF Flushers
<1>15. ASSUME NEW f \in Flushers, FlushChecks(f) PROVE TeardownOrder'
  <2>1. UNCHANGED <<damaged, phase, stage, startup>> BY <1>15 DEF FlushChecks, disk
  <2>2. flush[f].pc = "barrier" /\ flush[f].ahead = 0 BY <1>15 DEF FlushChecks
  <2>3. \A g \in Flushers \ {f} : flush'[g] = flush[g] BY <1>15 DEF FlushChecks
  <2>4. flush'["teardown"].pc # "idle" => phase = "flushing"
    <3>1. CASE f = "teardown" BY <2>2, <3>1 DEF TeardownOrder
    <3>2. CASE f # "teardown" BY <2>3, <3>2 DEF TeardownOrder
    <3> QED BY <3>1, <3>2
  <2>5. ASSUME phase = "flushing", queue' # <<>>
        PROVE  \E g \in Flushers : flush'[g].pc # "idle" /\ flush'[g].ahead >= Len(queue')
    <3>1. CASE flush[f].epoch = epoch
      <4>1. queue' = Append(queue, Truncate) /\ flush'[f] = FlushAt("truncate", epoch, Len(queue) + 1)
        BY <1>15, <3>1 DEF FlushChecks
      <4>2. Len(queue') = Len(queue) + 1 /\ Len(queue) \in Nat
        BY <4>1, AppendEntry DEF TypeOK
      <4>3. flush'[f].pc # "idle" /\ flush'[f].ahead >= Len(queue')
        BY <4>1, <4>2 DEF FlushAt
      <4> QED BY <4>3
    <3>2. CASE flush[f].epoch # epoch
      <4>1. UNCHANGED queue BY <1>15, <3>2 DEF FlushChecks
      <4>2. PICK g \in Flushers : flush[g].pc # "idle" /\ flush[g].ahead >= Len(queue)
        BY <2>5, <4>1 DEF TeardownOrder
      <4>3. Len(queue) \in Nat \ {0} BY <2>5, <4>1, HeadTail DEF TypeOK
      <4>4. g # f BY <2>2, <4>2, <4>3
      <4> QED BY <2>3, <4>1, <4>2, <4>4
    <3> QED BY <3>1, <3>2
  <2> QED BY <2>1, <2>4, <2>5 DEF TeardownOrder
<1>16. ASSUME NEW f \in Flushers, FlushEnds(f) PROVE TeardownOrder'
  BY <1>16 DEF FlushEnds, disk, env, TeardownOrder
<1>17. CASE ReadLog BY <1>17 DEF ReadLog, disk, env, TeardownOrder
<1>18. CASE ReplayTakesLine
  BY <1>18 DEF ReplayTakesLine, disk, env, TeardownOrder
<1>19. CASE ReplayIngests BY <1>19 DEF ReplayIngests, disk, env, TeardownOrder
<1>20. CASE ReplayStops BY <1>20 DEF ReplayStops, disk, env, TeardownOrder
<1>21. CASE ReplayEnds BY <1>21 DEF ReplayEnds, disk, env, TeardownOrder
<1>22. CASE StartupTruncates
  BY <1>22 DEF StartupTruncates, disk, env, TeardownOrder
<1>23. CASE StartupEnds BY <1>23 DEF StartupEnds, disk, env, TeardownOrder
<1>24. CASE Unload BY <1>24 DEF Unload, disk, env, TeardownOrder
<1>25. CASE CloseStore BY <1>25 DEF CloseStore, disk, env, TeardownOrder
<1>26. CASE EndTeardown
  <2>1. phase' = "down" /\ UNCHANGED <<damaged, flush>> /\ flush["teardown"].pc = "idle"
    BY <1>26 DEF EndTeardown, disk
  <2> QED BY <2>1 DEF TeardownOrder
<1>27. CASE Crash
  <2>1. phase' = "down" /\ flush' = [f \in Flushers |-> NoFlush] BY <1>27 DEF Crash
  <2>2. flush'["teardown"].pc = "idle" BY <2>1 DEF NoFlush, FlushAt
  <2> QED BY <2>1, <2>2 DEF TeardownOrder
<1>28. CASE Damage BY <1>28 DEF Damage, disk, env, TeardownOrder
<1> QED BY <1>0, <1>1, <1>2, <1>3, <1>4, <1>5, <1>6, <1>7, <1>8, <1>9, <1>10,
      <1>11, <1>12, <1>13, <1>14, <1>15, <1>16, <1>17, <1>18, <1>19, <1>20,
      <1>21, <1>22, <1>23, <1>24, <1>25, <1>26, <1>27, <1>28 DEF Next

\* When a session has ended, nothing of it is left to run.
LEMMA QuietStep ==
    ASSUME TypeOK, IdleIsBlank, SessionsDoNotOverlap, TeardownOrder, [Next]_vars
    PROVE  SessionsDoNotOverlap'
<1> USE DEF SessionsDoNotOverlap, InFlight
<1>0. CASE UNCHANGED vars BY <1>0 DEF vars, disk, env
<1>1. CASE Open BY <1>1 DEF Open, disk, env
<1>2. CASE OpenWiped BY <1>2 DEF OpenWiped, disk, env
<1>3. CASE OpenWipedFails BY <1>3 DEF OpenWipedFails, disk, env
<1>4. CASE Abandon BY <1>4 DEF Abandon, disk, env
<1>5. CASE StartSession BY <1>5 DEF StartSession, disk, env
<1>6. ASSUME NEW b \in Batches, Scrape(b) PROVE SessionsDoNotOverlap'
  BY <1>6 DEF Scrape, disk, env
<1>7. ASSUME NEW b \in Batches, StoreCommits(b) PROVE SessionsDoNotOverlap'
  BY <1>7 DEF StoreCommits, disk, env
<1>8. ASSUME NEW b \in Batches, IngestFails(b) PROVE SessionsDoNotOverlap'
  BY <1>8 DEF IngestFails, disk, env
<1>9. ASSUME NEW b \in Batches, LogBatch(b) PROVE SessionsDoNotOverlap'
  BY <1>9 DEF LogBatch, disk, env
<1>10. CASE AppendLine BY <1>10 DEF AppendLine, disk, env, Dequeue
<1>11. CASE AppendFails BY <1>11 DEF AppendFails, disk, env, Dequeue
<1>12. CASE TruncateFile BY <1>12 DEF TruncateFile, disk, env, Dequeue
<1>13. CASE TruncateFails BY <1>13 DEF TruncateFails, disk, env, Dequeue
<1>14. ASSUME NEW f \in Flushers, FlushBegins(f) PROVE SessionsDoNotOverlap'
  BY <1>14 DEF FlushBegins, disk, env
<1>15. ASSUME NEW f \in Flushers, FlushChecks(f) PROVE SessionsDoNotOverlap'
  BY <1>15 DEF FlushChecks, disk, env, NoFlush, FlushAt
<1>16. ASSUME NEW f \in Flushers, FlushEnds(f) PROVE SessionsDoNotOverlap'
  BY <1>16 DEF FlushEnds, disk, env, NoFlush, FlushAt
<1>17. CASE ReadLog BY <1>17 DEF ReadLog, disk, env, NoStartup, StartupAt
<1>18. CASE ReplayTakesLine
  BY <1>18 DEF ReplayTakesLine, disk, env, NoStartup, StartupAt
<1>19. CASE ReplayIngests
  BY <1>19 DEF ReplayIngests, disk, env, NoStartup, StartupAt
<1>20. CASE ReplayStops
  BY <1>20 DEF ReplayStops, disk, env, NoStartup, StartupAt
<1>21. CASE ReplayEnds BY <1>21 DEF ReplayEnds, disk, env, NoStartup, StartupAt
<1>22. CASE StartupTruncates
  BY <1>22 DEF StartupTruncates, disk, env, NoStartup, StartupAt
<1>23. CASE StartupEnds
  BY <1>23 DEF StartupEnds, disk, env, NoStartup, StartupAt
<1>24. CASE Unload BY <1>24 DEF Unload, disk, env
<1>25. CASE CloseStore BY <1>25 DEF CloseStore, disk, env
<1>26. CASE EndTeardown
  <2>1. phase = "flushing" /\ \A f \in Flushers : flush[f].pc = "idle"
    BY <1>26 DEF EndTeardown
  <2>2. queue = <<>> /\ InFlight = {} /\ startup.pc = "none"
    BY <2>1 DEF TeardownOrder
  <2>3. UNCHANGED <<queue, stage, startup, flush>> BY <1>26 DEF EndTeardown
  <2> QED BY <2>1, <2>2, <2>3 DEF IdleIsBlank
<1>27. CASE Crash
  <2>1. /\ queue' = <<>> /\ startup' = NoStartup /\ flush' = [f \in Flushers |-> NoFlush]
        /\ stage' = [b \in Batches |-> IF b \in InFlight THEN "done" ELSE stage[b]]
    BY <1>27 DEF Crash
  <2> QED BY <2>1
<1>28. CASE Damage BY <1>28 DEF Damage, disk, env
<1> QED BY <1>0, <1>1, <1>2, <1>3, <1>4, <1>5, <1>6, <1>7, <1>8, <1>9, <1>10,
      <1>11, <1>12, <1>13, <1>14, <1>15, <1>16, <1>17, <1>18, <1>19, <1>20,
      <1>21, <1>22, <1>23, <1>24, <1>25, <1>26, <1>27, <1>28 DEF Next

--------------------------------------------------------------------------------
(***************************************************************************)
(* What the log holds.                                                     *)
(***************************************************************************)
\* An entry that runs leaves the queue.
LEMMA DequeuedLeaves ==
    ASSUME TypeOK, Dequeue
    PROVE  /\ Queued' \subseteq Queued
           /\ Head(queue) \in Batches => Head(queue) \in Queued
           /\ \A i \in DOMAIN queue' : \E j \in DOMAIN queue : queue'[i] = queue[j]
<1>1. queue \in Seq(Batches \cup {Truncate}) /\ queue # <<>> /\ queue' = Tail(queue)
  BY DEF TypeOK, Dequeue
<1>2. \A i \in DOMAIN queue' : i + 1 \in DOMAIN queue /\ queue'[i] = queue[i + 1]
  BY <1>1, HeadTail
<1>3. 1 \in DOMAIN queue /\ Head(queue) = queue[1] BY <1>1, HeadTail
<1> QED BY <1>2, <1>3 DEF Queued

\* An entry that is added joins those that wait.
LEMMA AppendedJoins ==
    ASSUME TypeOK, NEW e \in Batches \cup {Truncate}, queue' = Append(queue, e)
    PROVE  Queued' \subseteq Queued \cup {e}
<1>1. queue \in Seq(Batches \cup {Truncate}) BY DEF TypeOK
<1>2. \A i \in DOMAIN queue' :
          queue'[i] = e \/ (i \in DOMAIN queue /\ queue'[i] = queue[i])
  BY <1>1, AppendEntry
<1> QED BY <1>2 DEF Queued

\* The queue a session starts with holds no batch.
LEMMA FreshQueue ==
    ASSUME queue' \in {<<>>, <<Truncate>>}
    PROVE  Queued' = {}
<1>1. \A i \in DOMAIN queue' : queue'[i] = Truncate OBVIOUS
<1> QED BY <1>1, WalAssumption DEF Queued

\* Only batches that are committed wait to be logged.
LEMMA CommittedStep ==
    ASSUME TypeOK, SessionsDoNotOverlap, TeardownOrder, CommittedFirst,
      [Next]_vars
    PROVE  CommittedFirst'
<1> USE DEF InFlight
<1>0. CASE UNCHANGED vars BY <1>0 DEF vars, disk, env, CommittedFirst, Queued
<1>1. CASE Open
  <2>1. InFlight = {} /\ queue = <<>> BY <1>1 DEF Open, SessionsDoNotOverlap
  <2>2. Queued' = {} BY <2>1, <1>1 DEF Open, Queued
  <2> QED BY <2>1, <2>2, <1>1 DEF Open, CommittedFirst
<1>2. CASE OpenWiped BY <1>2 DEF OpenWiped, disk, env, CommittedFirst, Queued
<1>3. CASE OpenWipedFails
  BY <1>3 DEF OpenWipedFails, disk, env, CommittedFirst, Queued
<1>4. CASE Abandon BY <1>4 DEF Abandon, disk, env, CommittedFirst, Queued
<1>5. CASE StartSession
  <2>1. queue' \in {<<>>, <<Truncate>>} /\ UNCHANGED <<db, stage>>
    BY <1>5 DEF StartSession, disk
  <2> QED BY <2>1, FreshQueue DEF CommittedFirst
<1>6. ASSUME NEW b \in Batches, Scrape(b) PROVE CommittedFirst'
  BY <1>6 DEF Scrape, disk, env, CommittedFirst, Queued
<1>7. ASSUME NEW b \in Batches, StoreCommits(b) PROVE CommittedFirst'
  BY <1>7 DEF StoreCommits, disk, env, CommittedFirst, Queued
<1>8. ASSUME NEW b \in Batches, IngestFails(b) PROVE CommittedFirst'
  BY <1>8 DEF IngestFails, disk, env, CommittedFirst, Queued
<1>9. ASSUME NEW b \in Batches, LogBatch(b) PROVE CommittedFirst'
  <2>1. b \in db BY <1>9 DEF LogBatch, CommittedFirst
  <2>2. Queued' \subseteq Queued \cup {b} BY <1>9, AppendedJoins DEF LogBatch
  <2>3. \A c \in Batches : stage'[c] = "committed" => stage[c] = "committed"
    BY <1>9 DEF LogBatch, TypeOK
  <2> QED BY <1>9, <2>1, <2>2, <2>3 DEF LogBatch, disk, CommittedFirst
<1>10. CASE AppendLine
  <2>1. Dequeue BY <1>10 DEF AppendLine
  <2>2. UNCHANGED <<db, stage>> BY <2>1, <1>10 DEF Dequeue, AppendLine
  <2> QED BY <2>1, <2>2, DequeuedLeaves DEF CommittedFirst
<1>11. CASE AppendFails
  <2>1. Dequeue BY <1>11 DEF AppendFails
  <2>2. UNCHANGED <<db, stage>> BY <2>1, <1>11 DEF Dequeue, AppendFails
  <2> QED BY <2>1, <2>2, DequeuedLeaves DEF CommittedFirst
<1>12. CASE TruncateFile
  <2>1. Dequeue BY <1>12 DEF TruncateFile
  <2>2. UNCHANGED <<db, stage>> BY <2>1, <1>12 DEF Dequeue, TruncateFile
  <2> QED BY <2>1, <2>2, DequeuedLeaves DEF CommittedFirst
<1>13. CASE TruncateFails
  <2>1. Dequeue BY <1>13 DEF TruncateFails
  <2>2. UNCHANGED <<db, stage>> BY <2>1, <1>13 DEF Dequeue, TruncateFails
  <2> QED BY <2>1, <2>2, DequeuedLeaves DEF CommittedFirst
<1>14. ASSUME NEW f \in Flushers, FlushBegins(f) PROVE CommittedFirst'
  BY <1>14 DEF FlushBegins, disk, env, CommittedFirst, Queued
<1>15. ASSUME NEW f \in Flushers, FlushChecks(f) PROVE CommittedFirst'
  <2>1. Queued' \subseteq Queued
    <3>1. CASE queue' = Append(queue, Truncate)
      <4>1. Queued' \subseteq Queued \cup {Truncate} BY <3>1, AppendedJoins
      <4> QED BY <4>1, WalAssumption DEF Queued
    <3>2. CASE UNCHANGED queue BY <3>2 DEF Queued
    <3> QED BY <1>15, <3>1, <3>2 DEF FlushChecks
  <2> QED BY <1>15, <2>1 DEF FlushChecks, disk, CommittedFirst
<1>16. ASSUME NEW f \in Flushers, FlushEnds(f) PROVE CommittedFirst'
  BY <1>16 DEF FlushEnds, disk, env, CommittedFirst, Queued
<1>17. CASE ReadLog BY <1>17 DEF ReadLog, disk, env, CommittedFirst, Queued
<1>18. CASE ReplayTakesLine
  BY <1>18 DEF ReplayTakesLine, disk, env, CommittedFirst, Queued
<1>19. CASE ReplayIngests
  BY <1>19 DEF ReplayIngests, disk, env, CommittedFirst, Queued
<1>20. CASE ReplayStops
  BY <1>20 DEF ReplayStops, disk, env, CommittedFirst, Queued
<1>21. CASE ReplayEnds
  BY <1>21 DEF ReplayEnds, disk, env, CommittedFirst, Queued
<1>22. CASE StartupTruncates
  <2>1. Queued' \subseteq Queued \cup {Truncate}
    BY <1>22, AppendedJoins DEF StartupTruncates
  <2>2. Queued' \subseteq Queued BY <2>1, WalAssumption DEF Queued
  <2> QED BY <1>22, <2>2 DEF StartupTruncates, disk, CommittedFirst
<1>23. CASE StartupEnds
  BY <1>23 DEF StartupEnds, disk, env, CommittedFirst, Queued
<1>24. CASE Unload BY <1>24 DEF Unload, disk, env, CommittedFirst, Queued
<1>25. CASE CloseStore
  BY <1>25 DEF CloseStore, disk, env, CommittedFirst, Queued
<1>26. CASE EndTeardown
  BY <1>26 DEF EndTeardown, disk, env, CommittedFirst, Queued
<1>27. CASE Crash
  <2>1. queue' = <<>> /\ UNCHANGED db BY <1>27 DEF Crash
  <2>2. \A b \in Batches : stage'[b] # "committed" BY <1>27 DEF Crash
  <2> QED BY <2>1, <2>2, FreshQueue DEF CommittedFirst
<1>28. CASE Damage BY <1>28 DEF Damage, disk, env, CommittedFirst, Queued
<1> QED BY <1>0, <1>1, <1>2, <1>3, <1>4, <1>5, <1>6, <1>7, <1>8, <1>9, <1>10,
      <1>11, <1>12, <1>13, <1>14, <1>15, <1>16, <1>17, <1>18, <1>19, <1>20,
      <1>21, <1>22, <1>23, <1>24, <1>25, <1>26, <1>27, <1>28 DEF Next

\* An append writes the batch at the head of the queue, or a line that is lost,
\* and loses nothing that was logged unless it was on a line without newline.
LEMMA AppendLineLogs ==
    ASSUME TypeOK, AppendLine
    PROVE  /\ Logged' \subseteq Logged \cup Queued
           /\ tail \notin Batches => Logged \subseteq Logged'
<1> DEFINE line == IF tail = NoTail THEN Head(queue) ELSE Garbled
<1>1. Dequeue /\ Head(queue) # Truncate /\ tail' = NoTail BY DEF AppendLine
<1>2. Head(queue) \in Batches BY <1>1, DequeueType
<1>3. Head(queue) \in Queued BY <1>1, <1>2, DequeuedLeaves
<1>4. /\ line \in Batches \cup {Garbled} /\ file' = Append(file, line)
      /\ line \in Batches => line \in Queued
  BY <1>2, <1>3, WalAssumption DEF AppendLine
<1> HIDE DEF line
<1>5. file \in Seq(Batches \cup {Garbled}) BY DEF TypeOK
<1>6. /\ \A i \in DOMAIN file' : file'[i] = line \/ (i \in DOMAIN file /\ file'[i] = file[i])
      /\ \A i \in DOMAIN file : i \in DOMAIN file' /\ file'[i] = file[i]
  BY <1>4, <1>5, AppendEntry
<1>7. Logged' \subseteq Logged \cup Queued
  BY <1>1, <1>4, <1>6, WalAssumption DEF Logged
<1>8. tail \notin Batches => Logged \subseteq Logged' BY <1>6 DEF Logged
<1> QED BY <1>7, <1>8

\* An append that is cut short logs no other batch either.
LEMMA TornLogs ==
    ASSUME TypeOK, NEW b \in Batches, tail' \in Torn(b), UNCHANGED file
    PROVE  /\ Logged' \subseteq Logged \cup {b}
           /\ tail \notin Batches => Logged \subseteq Logged'
<1>1. /\ tail = NoTail => tail' \in {NoTail, Garbled, b}
      /\ tail # NoTail => tail' \in {tail, Garbled}
  BY TornType
<1> QED BY <1>1, WalAssumption DEF Logged

\* A step logs only what was waiting to be logged.
LEMMA OnlyQueuedIsLogged == TypeOK /\ [Next]_vars => Logged' \subseteq Logged \cup Queued
<1> SUFFICES ASSUME TypeOK, [Next]_vars PROVE Logged' \subseteq Logged \cup Queued
  OBVIOUS
<1>1. CASE UNCHANGED <<file, tail>> BY <1>1 DEF Logged
<1>2. CASE AppendLine BY <1>2, AppendLineLogs
<1>3. CASE AppendFails
  <2>1. Dequeue /\ Head(queue) # Truncate /\ UNCHANGED file BY <1>3 DEF AppendFails
  <2>2. Head(queue) \in Batches /\ Head(queue) \in Queued
    BY <2>1, DequeueType, DequeuedLeaves
  <2> QED BY <1>3, <2>1, <2>2, TornLogs DEF AppendFails
<1>4. CASE TruncateFile
  <2>1. file' = <<>> /\ tail' = NoTail BY <1>4 DEF TruncateFile
  <2>2. Logged' = {} BY <2>1, WalAssumption DEF Logged
  <2> QED BY <2>2
<1>5. CASE Crash
  <2>1. UNCHANGED file BY <1>5 DEF Crash
  <2>2. CASE queue # <<>> /\ Head(queue) # Truncate
    <3>1. /\ queue \in Seq(Batches \cup {Truncate}) BY DEF TypeOK
    <3>2. Head(queue) \in Batches /\ 1 \in DOMAIN queue /\ Head(queue) = queue[1]
      BY <2>2, <3>1, HeadTail
    <3>3. Head(queue) \in Queued BY <3>2 DEF Queued
    <3> QED BY <1>5, <2>1, <2>2, <3>2, <3>3, TornLogs DEF Crash
  <2>3. CASE ~(queue # <<>> /\ Head(queue) # Truncate)
    <3>1. UNCHANGED tail BY <1>5, <2>3 DEF Crash
    <3> QED BY <2>1, <3>1 DEF Logged
  <2> QED BY <2>2, <2>3
<1>6. CASE TruncateFails
  <2>1. UNCHANGED <<file, tail>> BY <1>6 DEF TruncateFails
  <2> QED BY <1>1, <2>1
<1>7. CASE Open \/ OpenWiped \/ OpenWipedFails \/ Abandon \/ StartSession \/ ReadLog
  BY <1>1, <1>7 DEF Open, OpenWiped, OpenWipedFails, Abandon, StartSession,
    ReadLog, disk
<1>8. CASE \/ ReplayTakesLine \/ ReplayIngests \/ ReplayStops \/ ReplayEnds \/ StartupTruncates
           \/ StartupEnds \/ Unload \/ CloseStore \/ EndTeardown \/ Damage
  BY <1>1, <1>8 DEF ReplayTakesLine, ReplayIngests, ReplayStops, ReplayEnds,
    StartupTruncates, StartupEnds, Unload, CloseStore, EndTeardown, Damage, disk
<1>9. ASSUME NEW b \in Batches,
             Scrape(b) \/ StoreCommits(b) \/ IngestFails(b) \/ LogBatch(b)
      PROVE  Logged' \subseteq Logged \cup Queued
  BY <1>1, <1>9 DEF Scrape, StoreCommits, IngestFails, LogBatch, disk
<1>10. ASSUME NEW f \in Flushers, FlushBegins(f) \/ FlushChecks(f) \/ FlushEnds(f)
       PROVE  Logged' \subseteq Logged \cup Queued
  BY <1>1, <1>10 DEF FlushBegins, FlushChecks, FlushEnds, disk
<1>11. CASE UNCHANGED vars BY <1>1, <1>11 DEF vars, disk
<1> QED
  BY <1>2, <1>3, <1>4, <1>5, <1>6, <1>7, <1>8, <1>9, <1>10, <1>11 DEF Next

--------------------------------------------------------------------------------
(***************************************************************************)
(* The refilling of a wiped database.                                      *)
(***************************************************************************)
\* The log is replayed only into a database that was wiped.
LEMMA AfterWipeStep ==
    ASSUME TypeOK, SessionsDoNotOverlap, ReplayAfterWipe, [Next]_vars
    PROVE  ReplayAfterWipe'
<1> USE DEF ReplayAfterWipe, NoStartup, StartupAt
<1>0. CASE UNCHANGED vars BY <1>0 DEF vars, disk, env
<1>1. CASE Open \/ OpenWiped
  BY <1>1 DEF Open, OpenWiped, disk, env, SessionsDoNotOverlap
<1>2. CASE \/ OpenWipedFails \/ Abandon \/ StartSession \/ ReadLog
           \/ ReplayTakesLine \/ ReplayIngests \/ ReplayStops \/ ReplayEnds
  BY <1>2 DEF OpenWipedFails, Abandon, StartSession, ReadLog, ReplayTakesLine,
    ReplayIngests, ReplayStops, ReplayEnds, disk, env
<1>3. CASE \/ StartupTruncates \/ StartupEnds \/ Unload \/ CloseStore
           \/ EndTeardown \/ Crash \/ Damage
  BY <1>3 DEF StartupTruncates, StartupEnds, Unload, CloseStore, EndTeardown,
    Crash, Damage, disk, env
<1>4. ASSUME NEW b \in Batches,
             Scrape(b) \/ StoreCommits(b) \/ IngestFails(b) \/ LogBatch(b)
      PROVE  ReplayAfterWipe'
  BY <1>4 DEF Scrape, StoreCommits, IngestFails, LogBatch, disk, env
<1>5. ASSUME NEW f \in Flushers,
             FlushBegins(f) \/ FlushChecks(f) \/ FlushEnds(f)
      PROVE  ReplayAfterWipe'
  BY <1>5 DEF FlushBegins, FlushChecks, FlushEnds, disk, env
<1>6. CASE AppendLine
  <2>1. Dequeue BY <1>6 DEF AppendLine
  <2> QED BY <2>1, DequeueWaits DEF Dequeue
<1>7. CASE AppendFails
  <2>1. Dequeue BY <1>7 DEF AppendFails
  <2> QED BY <2>1, DequeueWaits DEF Dequeue
<1>8. CASE TruncateFile
  <2>1. Dequeue BY <1>8 DEF TruncateFile
  <2> QED BY <2>1, DequeueWaits DEF Dequeue
<1>9. CASE TruncateFails
  <2>1. Dequeue BY <1>9 DEF TruncateFails
  <2> QED BY <2>1, DequeueWaits DEF Dequeue
<1> QED BY <1>0, <1>1, <1>2, <1>3, <1>4, <1>5, <1>6, <1>7, <1>8, <1>9 DEF Next

\* While the log is replayed nothing truncates it.
LEMMA NothingTruncatesStep ==
    ASSUME TypeOK, SessionsDoNotOverlap, ReplayAfterWipe, NothingTruncates,
      [Next]_vars
    PROVE  NothingTruncates'
<1> USE DEF NothingTruncates
<1>0. CASE UNCHANGED vars BY <1>0 DEF vars, disk, env, Replaying
<1>1. CASE Open
  BY <1>1 DEF Open, disk, env, Replaying, NoStartup, StartupAt,
    SessionsDoNotOverlap
<1>2. CASE OpenWiped
  BY <1>2 DEF OpenWiped, disk, env, Replaying, NoStartup, StartupAt,
    SessionsDoNotOverlap
<1>3. CASE OpenWipedFails
  BY <1>3 DEF OpenWipedFails, disk, env, Replaying, NoStartup, StartupAt,
    SessionsDoNotOverlap
<1>4. CASE Abandon
  BY <1>4 DEF Abandon, disk, env, Replaying, NoStartup, StartupAt,
    SessionsDoNotOverlap
<1>5. CASE StartSession
  <2>1. \A f \in Flushers : flush'[f].pc = "idle"
    BY <1>5 DEF StartSession, SessionsDoNotOverlap, NoFlush, FlushAt
  <2>2. phase' = "up" BY <1>5 DEF StartSession
  <2>3. CASE recovered
    <3>1. queue' = <<>> BY <1>5, <2>3 DEF StartSession
    <3>2. DOMAIN queue' = {} BY <3>1
    <3> QED BY <2>1, <2>2, <3>2
  <2>4. CASE ~recovered
    <3>1. startup'.pc = "truncate" BY <1>5, <2>4 DEF StartSession, StartupAt
    <3> QED BY <3>1 DEF Replaying
  <2> QED BY <2>3, <2>4
<1>6. ASSUME NEW b \in Batches, Scrape(b) PROVE NothingTruncates'
  BY <1>6 DEF Scrape, disk, env, Replaying
<1>7. ASSUME NEW b \in Batches, StoreCommits(b) PROVE NothingTruncates'
  BY <1>7 DEF StoreCommits, disk, env, Replaying
<1>8. ASSUME NEW b \in Batches, IngestFails(b) PROVE NothingTruncates'
  BY <1>8 DEF IngestFails, disk, env, Replaying
<1>9. ASSUME NEW b \in Batches, LogBatch(b) PROVE NothingTruncates'
  <2>1. queue' = Append(queue, b) /\ b # Truncate BY <1>9, WalAssumption DEF LogBatch
  <2>2. \A i \in DOMAIN queue' : queue'[i] = b \/ (i \in DOMAIN queue /\ queue'[i] = queue[i])
    BY <2>1, AppendEntry DEF TypeOK
  <2> QED BY <1>9, <2>1, <2>2 DEF LogBatch, disk, env, Replaying
<1>10. CASE AppendLine
  <2>1. Dequeue /\ UNCHANGED phase /\ (interrupted => interrupted')
    BY <1>10 DEF AppendLine, Dequeue, NoFault, env
  <2> QED BY <2>1, DequeueWaits, DequeuedLeaves DEF Replaying
<1>11. CASE AppendFails
  <2>1. Dequeue /\ UNCHANGED phase /\ (interrupted => interrupted')
    BY <1>11 DEF AppendFails, Dequeue, NoFault, env
  <2> QED BY <2>1, DequeueWaits, DequeuedLeaves DEF Replaying
<1>12. CASE TruncateFile
  <2>1. Dequeue /\ UNCHANGED phase /\ (interrupted => interrupted')
    BY <1>12 DEF TruncateFile, Dequeue, NoFault, env
  <2> QED BY <2>1, DequeueWaits, DequeuedLeaves DEF Replaying
<1>13. CASE TruncateFails
  <2>1. Dequeue /\ UNCHANGED phase /\ (interrupted => interrupted')
    BY <1>13 DEF TruncateFails, Dequeue, NoFault, env
  <2> QED BY <2>1, DequeueWaits, DequeuedLeaves DEF Replaying
<1>14. ASSUME NEW f \in Flushers, FlushBegins(f) PROVE NothingTruncates'
  BY <1>14 DEF FlushBegins, disk, env, Replaying
<1>15. ASSUME NEW f \in Flushers, FlushChecks(f) PROVE NothingTruncates'
  <2>1. ~Replaying /\ UNCHANGED startup BY <1>15 DEF FlushChecks
  <2> QED BY <2>1 DEF Replaying
<1>16. ASSUME NEW f \in Flushers, FlushEnds(f) PROVE NothingTruncates'
  <2>1. ~Replaying /\ UNCHANGED startup BY <1>16 DEF FlushEnds
  <2> QED BY <2>1 DEF Replaying
<1>17. CASE ReadLog
  <2>1. Replaying /\ UNCHANGED <<phase, queue, flush>> BY <1>17 DEF ReadLog, Replaying
  <2>2. interrupted => interrupted' BY <1>17 DEF ReadLog, NoFault, env, Interrupts
  <2> QED BY <2>1, <2>2
<1>18. CASE ReplayTakesLine
  <2>1. Replaying /\ UNCHANGED <<phase, queue, flush, interrupted>>
    BY <1>18 DEF ReplayTakesLine, Replaying, env
  <2> QED BY <2>1
<1>19. CASE ReplayIngests
  <2>1. Replaying /\ UNCHANGED <<phase, queue, flush>>
    BY <1>19 DEF ReplayIngests, Replaying
  <2>2. interrupted => interrupted' BY <1>19 DEF ReplayIngests, NoFault, env, Interrupts
  <2> QED BY <2>1, <2>2
<1>20. CASE ReplayStops
  <2>1. startup'.pc \notin {"read", "lines", "ingest"}
    BY <1>20 DEF ReplayStops, NoStartup, StartupAt
  <2> QED BY <2>1 DEF Replaying
<1>21. CASE ReplayEnds
  <2>1. startup'.pc \notin {"read", "lines", "ingest"}
    BY <1>21 DEF ReplayEnds, NoStartup, StartupAt
  <2> QED BY <2>1 DEF Replaying
<1>22. CASE StartupTruncates
  <2>1. startup'.pc \notin {"read", "lines", "ingest"}
    BY <1>22 DEF StartupTruncates, NoStartup, StartupAt
  <2> QED BY <2>1 DEF Replaying
<1>23. CASE StartupEnds
  <2>1. startup'.pc \notin {"read", "lines", "ingest"}
    BY <1>23 DEF StartupEnds, NoStartup, StartupAt
  <2> QED BY <2>1 DEF Replaying
<1>24. CASE Unload
  <2>1. UNCHANGED <<queue, flush, startup>> BY <1>24 DEF Unload
  <2>2. Replaying => interrupted'
    BY <1>24 DEF Unload, Interrupts, Refilling, Replaying, ReplayAfterWipe
  <2> QED BY <2>1, <2>2 DEF Replaying
<1>25. CASE CloseStore BY <1>25 DEF CloseStore, disk, env, Replaying
<1>26. CASE EndTeardown BY <1>26 DEF EndTeardown, disk, env, Replaying
<1>27. CASE Crash
  <2>1. startup'.pc \notin {"read", "lines", "ingest"}
    BY <1>27 DEF Crash, NoStartup, StartupAt
  <2> QED BY <2>1 DEF Replaying
<1>28. CASE Damage BY <1>28 DEF Damage, disk, env, Replaying
<1> QED BY <1>0, <1>1, <1>2, <1>3, <1>4, <1>5, <1>6, <1>7, <1>8, <1>9, <1>10,
      <1>11, <1>12, <1>13, <1>14, <1>15, <1>16, <1>17, <1>18, <1>19, <1>20,
      <1>21, <1>22, <1>23, <1>24, <1>25, <1>26, <1>27, <1>28 DEF Next

\* What the replay has not put back is still in the text it has read.
LEMMA TextCoversStep ==
    ASSUME TypeOK, SessionsDoNotOverlap, CommittedFirst, ReplayAfterWipe,
      TextCoversLog, [Next]_vars
    PROVE  TextCoversLog'
<1> USE DEF TextCoversLog
<1>0. CASE UNCHANGED vars BY <1>0 DEF vars, disk, env, Logged, InText
<1>1. CASE Open
  <2>1. startup.pc = "none" /\ UNCHANGED startup
    BY <1>1 DEF Open, SessionsDoNotOverlap, NoStartup, StartupAt
  <2> QED BY <2>1
<1>2. CASE OpenWiped
  <2>1. startup.pc = "none" /\ UNCHANGED startup
    BY <1>2 DEF OpenWiped, SessionsDoNotOverlap, NoStartup, StartupAt
  <2> QED BY <2>1
<1>3. CASE OpenWipedFails
  <2>1. startup.pc = "none" /\ UNCHANGED startup
    BY <1>3 DEF OpenWipedFails, SessionsDoNotOverlap, NoStartup, StartupAt
  <2> QED BY <2>1
<1>4. CASE Abandon
  <2>1. startup.pc = "none" /\ UNCHANGED startup
    BY <1>4 DEF Abandon, SessionsDoNotOverlap, NoStartup, StartupAt
  <2> QED BY <2>1
<1>5. CASE StartSession
  <2>1. startup'.pc \notin {"lines", "ingest"}
    BY <1>5 DEF StartSession, NoStartup, StartupAt
  <2> QED BY <2>1
<1>6. ASSUME NEW b \in Batches, Scrape(b) PROVE TextCoversLog'
  <2>1. UNCHANGED <<file, tail, db, startup, interrupted>> BY <1>6 DEF Scrape, disk, env
  <2>2. Logged' = Logged /\ InText' = InText BY <2>1 DEF Logged, InText
  <2> QED BY <2>1, <2>2
<1>7. ASSUME NEW b \in Batches, StoreCommits(b) PROVE TextCoversLog'
  <2>1. UNCHANGED <<file, tail, startup, interrupted>> /\ db \subseteq db'
    BY <1>7 DEF StoreCommits, disk, env, Fault
  <2>2. Logged' = Logged /\ InText' = InText BY <2>1 DEF Logged, InText
  <2> QED BY <2>1, <2>2
<1>8. ASSUME NEW b \in Batches, IngestFails(b) PROVE TextCoversLog'
  <2>1. UNCHANGED <<file, tail, startup, interrupted>> /\ db \subseteq db'
    BY <1>8 DEF IngestFails, disk, env, Fault
  <2>2. Logged' = Logged /\ InText' = InText BY <2>1 DEF Logged, InText
  <2> QED BY <2>1, <2>2
<1>9. ASSUME NEW b \in Batches, LogBatch(b) PROVE TextCoversLog'
  <2>1. UNCHANGED <<file, tail, db, startup, interrupted>>
    BY <1>9 DEF LogBatch, disk, env
  <2>2. Logged' = Logged /\ InText' = InText BY <2>1 DEF Logged, InText
  <2> QED BY <2>1, <2>2
<1>10. CASE AppendLine
  <2>1. Dequeue /\ (interrupted => interrupted') BY <1>10 DEF AppendLine, NoFault, env
  <2>2. UNCHANGED db BY <2>1 DEF Dequeue
  <2>3. startup'.pc = startup.pc /\ InText' = InText BY <2>1, DequeueWaits DEF InText
  <2> QED BY <2>1, <2>2, <2>3, OnlyQueuedIsLogged DEF CommittedFirst
<1>11. CASE AppendFails
  <2>1. Dequeue /\ (interrupted => interrupted') BY <1>11 DEF AppendFails, NoFault, env
  <2>2. UNCHANGED db BY <2>1 DEF Dequeue
  <2>3. startup'.pc = startup.pc /\ InText' = InText BY <2>1, DequeueWaits DEF InText
  <2> QED BY <2>1, <2>2, <2>3, OnlyQueuedIsLogged DEF CommittedFirst
<1>12. CASE TruncateFile
  <2>1. Dequeue /\ (interrupted => interrupted') BY <1>12 DEF TruncateFile, NoFault, env
  <2>2. UNCHANGED db BY <2>1 DEF Dequeue
  <2>3. startup'.pc = startup.pc /\ InText' = InText BY <2>1, DequeueWaits DEF InText
  <2> QED BY <2>1, <2>2, <2>3, OnlyQueuedIsLogged DEF CommittedFirst
<1>13. CASE TruncateFails
  <2>1. Dequeue /\ (interrupted => interrupted')
    BY <1>13 DEF TruncateFails, NoFault, env
  <2>2. UNCHANGED db BY <2>1 DEF Dequeue
  <2>3. startup'.pc = startup.pc /\ InText' = InText BY <2>1, DequeueWaits DEF InText
  <2> QED BY <2>1, <2>2, <2>3, OnlyQueuedIsLogged DEF CommittedFirst
<1>14. ASSUME NEW f \in Flushers, FlushBegins(f) PROVE TextCoversLog'
  <2>1. startup.pc = "none" /\ UNCHANGED startup
    BY <1>14 DEF FlushBegins, SessionsDoNotOverlap, NoStartup, StartupAt
  <2> QED BY <2>1
<1>15. ASSUME NEW f \in Flushers, FlushChecks(f) PROVE TextCoversLog'
  <2>1. UNCHANGED <<file, tail, db, startup, interrupted>>
    BY <1>15 DEF FlushChecks, disk, env
  <2>2. Logged' = Logged /\ InText' = InText BY <2>1 DEF Logged, InText
  <2> QED BY <2>1, <2>2
<1>16. ASSUME NEW f \in Flushers, FlushEnds(f) PROVE TextCoversLog'
  <2>1. UNCHANGED <<file, tail, db, startup, interrupted>>
    BY <1>16 DEF FlushEnds, disk, env
  <2>2. Logged' = Logged /\ InText' = InText BY <2>1 DEF Logged, InText
  <2> QED BY <2>1, <2>2
<1>17. CASE ReadLog
  <2> DEFINE text == IF tail = NoTail THEN file ELSE Append(file, tail)
  <2>1. UNCHANGED <<file, tail>> BY <1>17 DEF ReadLog, disk
  <2>2. Logged' = Logged BY <2>1 DEF Logged
  <2>3. CASE startup' = StartupAt("lines", text, 0) /\ NoFault
    <3>1. startup'.text = text BY <2>3 DEF StartupAt
    <3>2. ASSUME NEW b \in Logged PROVE \E i \in DOMAIN text : text[i] = b
      <4>1. CASE tail = NoTail
        <5>1. b \in Batches /\ text = file BY <4>1 DEF Logged
        <5>2. b # tail BY <4>1, <5>1, WalAssumption
        <5> QED BY <5>1, <5>2 DEF Logged
      <4>2. CASE tail # NoTail
        <5>1. text = Append(file, tail) /\ tail \in Batches \cup {Garbled}
          BY <4>2 DEF TypeOK
        <5>2. file \in Seq(Batches \cup {Garbled}) BY DEF TypeOK
        <5> HIDE DEF text
        <5>3. \A i \in DOMAIN file : i \in DOMAIN text /\ text[i] = file[i]
          BY <5>1, <5>2, AppendEntry
        <5>4. \E i \in DOMAIN text : text[i] = tail BY <5>1, <5>2, AppendEntry
        <5> QED BY <5>3, <5>4 DEF Logged
      <4> QED BY <4>1, <4>2
    <3> HIDE DEF text
    <3>3. Logged \subseteq InText' BY <3>1, <3>2 DEF InText, Logged
    <3>4. interrupted' = interrupted BY <2>3 DEF NoFault, env
    <3> QED BY <2>2, <3>3, <3>4
  <2>4. CASE Interrupts("read") /\ startup' = StartupAt("lines", <<>>, 0)
    <3>1. interrupted'
      BY <1>17, <2>4 DEF ReadLog, Interrupts, Refilling, ReplayAfterWipe
    <3> QED BY <3>1
  <2>5. CASE startup' = NoStartup BY <2>5 DEF NoStartup, StartupAt
  <2> QED BY <1>17, <2>3, <2>4, <2>5 DEF ReadLog
<1>18. CASE ReplayTakesLine
  <2>1. UNCHANGED <<file, tail, db, interrupted>> /\ startup.pc = "lines"
    BY <1>18 DEF ReplayTakesLine, disk, env
  <2>2. startup'.text = startup.text BY <1>18 DEF ReplayTakesLine, StartupAt
  <2>3. Logged' = Logged /\ InText' = InText BY <2>1, <2>2 DEF Logged, InText
  <2> QED BY <2>1, <2>3
<1>19. CASE ReplayIngests
  <2>1. UNCHANGED <<file, tail>> /\ startup.pc = "ingest" /\ startup.text # <<>>
    BY <1>19 DEF ReplayIngests
  <2>2. Logged' = Logged BY <2>1 DEF Logged
  <2>3. startup'.text = Tail(startup.text) BY <1>19 DEF ReplayIngests, StartupAt
  <2>4. CASE db' = db \cup ({Head(startup.text)} \cap Batches) /\ NoFault
    <3>1. startup.text \in Seq(Batches \cup {Garbled}) BY DEF TypeOK, Startups
    <3>2. \A i \in DOMAIN startup.text :
              \/ startup.text[i] = Head(startup.text)
              \/ \E j \in DOMAIN startup'.text : startup.text[i] = startup'.text[j]
      BY <2>1, <2>3, <3>1, HeadTail
    <3>3. db \cup InText \subseteq db' \cup InText' BY <2>4, <3>2 DEF InText
    <3>4. interrupted' = interrupted BY <2>4 DEF NoFault, env
    <3> QED BY <2>1, <2>2, <3>3, <3>4
  <2>5. CASE Interrupts("ingest")
    <3>1. interrupted' BY <2>1, <2>5 DEF Interrupts, Refilling, ReplayAfterWipe
    <3> QED BY <3>1
  <2> QED BY <1>19, <2>4, <2>5 DEF ReplayIngests
<1>20. CASE ReplayStops
  <2>1. startup'.pc \notin {"lines", "ingest"}
    BY <1>20 DEF ReplayStops, NoStartup, StartupAt
  <2> QED BY <2>1
<1>21. CASE ReplayEnds
  <2>1. startup'.pc \notin {"lines", "ingest"}
    BY <1>21 DEF ReplayEnds, NoStartup, StartupAt
  <2> QED BY <2>1
<1>22. CASE StartupTruncates
  <2>1. startup'.pc \notin {"lines", "ingest"}
    BY <1>22 DEF StartupTruncates, NoStartup, StartupAt
  <2> QED BY <2>1
<1>23. CASE StartupEnds
  <2>1. startup'.pc \notin {"lines", "ingest"}
    BY <1>23 DEF StartupEnds, NoStartup, StartupAt
  <2> QED BY <2>1
<1>24. CASE Unload
  <2>1. UNCHANGED <<file, tail, db, startup>> /\ (interrupted => interrupted')
    BY <1>24 DEF Unload, disk, Interrupts
  <2>2. Logged' = Logged /\ InText' = InText BY <2>1 DEF Logged, InText
  <2> QED BY <2>1, <2>2
<1>25. CASE CloseStore
  <2>1. startup.pc = "none" /\ UNCHANGED startup
    BY <1>25 DEF CloseStore, SessionsDoNotOverlap, NoStartup, StartupAt
  <2> QED BY <2>1
<1>26. CASE EndTeardown
  <2>1. UNCHANGED <<file, tail, db, startup, interrupted>>
    BY <1>26 DEF EndTeardown, disk, env
  <2>2. Logged' = Logged /\ InText' = InText BY <2>1 DEF Logged, InText
  <2> QED BY <2>1, <2>2
<1>27. CASE Crash
  <2>1. startup'.pc \notin {"lines", "ingest"}
    BY <1>27 DEF Crash, NoStartup, StartupAt
  <2> QED BY <2>1
<1>28. CASE Damage
  <2>1. startup.pc = "none" /\ UNCHANGED startup
    BY <1>28 DEF Damage, SessionsDoNotOverlap, NoStartup, StartupAt
  <2> QED BY <2>1
<1> QED BY <1>0, <1>1, <1>2, <1>3, <1>4, <1>5, <1>6, <1>7, <1>8, <1>9, <1>10,
      <1>11, <1>12, <1>13, <1>14, <1>15, <1>16, <1>17, <1>18, <1>19, <1>20,
      <1>21, <1>22, <1>23, <1>24, <1>25, <1>26, <1>27, <1>28 DEF Next

--------------------------------------------------------------------------------
(***************************************************************************)
(* The log and the database.                                               *)
(***************************************************************************)
\* A database that does not open is wiped by the next open.
LEMMA DamagedIsWiped ==
    ASSUME damaged, [Next]_vars
    PROVE  damaged' \/ phase' = "wiped"
<1>0. CASE UNCHANGED vars BY <1>0 DEF vars, disk, env
<1>1. CASE \/ Open \/ OpenWiped \/ OpenWipedFails \/ Abandon \/ StartSession
           \/ ReadLog \/ ReplayTakesLine \/ ReplayIngests
  BY <1>1 DEF Open, OpenWiped, OpenWipedFails, Abandon, StartSession, ReadLog,
    ReplayTakesLine, ReplayIngests, disk, env
<1>2. CASE \/ ReplayStops \/ ReplayEnds \/ StartupTruncates \/ StartupEnds
           \/ Unload \/ CloseStore \/ EndTeardown \/ Crash \/ Damage
  BY <1>2 DEF ReplayStops, ReplayEnds, StartupTruncates, StartupEnds, Unload,
    CloseStore, EndTeardown, Crash, Damage, disk, env
<1>3. ASSUME NEW b \in Batches,
             Scrape(b) \/ StoreCommits(b) \/ IngestFails(b) \/ LogBatch(b)
      PROVE  damaged' \/ phase' = "wiped"
  BY <1>3 DEF Scrape, StoreCommits, IngestFails, LogBatch, disk, env
<1>4. CASE AppendLine \/ AppendFails \/ TruncateFile \/ TruncateFails
  BY <1>4 DEF AppendLine, AppendFails, TruncateFile, TruncateFails, disk, env,
    Dequeue
<1>5. ASSUME NEW f \in Flushers,
             FlushBegins(f) \/ FlushChecks(f) \/ FlushEnds(f)
      PROVE  damaged' \/ phase' = "wiped"
  BY <1>5 DEF FlushBegins, FlushChecks, FlushEnds, disk, env
<1> QED BY <1>0, <1>1, <1>2, <1>3, <1>4, <1>5 DEF Next

\* Only a wipe forgets that a refill was interrupted.
LEMMA InterruptedStays ==
    ASSUME interrupted, ~damaged, [Next]_vars
    PROVE  interrupted'
<1> USE DEF NoFault, Interrupts
<1>0. CASE UNCHANGED vars BY <1>0 DEF vars, disk, env
<1>1. CASE \/ Open \/ OpenWiped \/ OpenWipedFails \/ Abandon \/ StartSession
           \/ AppendLine \/ AppendFails \/ TruncateFile
  BY <1>1 DEF Open, OpenWiped, OpenWipedFails, Abandon, StartSession,
    AppendLine, AppendFails, TruncateFile, disk, env
<1>2. CASE \/ TruncateFails \/ ReadLog \/ ReplayTakesLine \/ ReplayIngests
           \/ ReplayStops \/ ReplayEnds \/ StartupTruncates \/ StartupEnds
  BY <1>2 DEF TruncateFails, ReadLog, ReplayTakesLine, ReplayIngests,
    ReplayStops, ReplayEnds, StartupTruncates, StartupEnds, disk, env
<1>3. CASE Unload \/ CloseStore \/ EndTeardown \/ Crash \/ Damage
  BY <1>3 DEF Unload, CloseStore, EndTeardown, Crash, Damage, disk, env
<1>4. ASSUME NEW b \in Batches,
             Scrape(b) \/ StoreCommits(b) \/ IngestFails(b) \/ LogBatch(b)
      PROVE  interrupted'
  BY <1>4 DEF Scrape, StoreCommits, IngestFails, LogBatch, disk, env
<1>5. ASSUME NEW f \in Flushers,
             FlushBegins(f) \/ FlushChecks(f) \/ FlushEnds(f)
      PROVE  interrupted'
  BY <1>5 DEF FlushBegins, FlushChecks, FlushEnds, disk, env
<1> QED BY <1>0, <1>1, <1>2, <1>3, <1>4, <1>5 DEF Next

\* A database that opens loses nothing.
LEMMA DatabaseGrows ==
    ASSUME ~damaged, [Next]_vars
    PROVE  db \subseteq db'
<1>0. CASE UNCHANGED vars BY <1>0 DEF vars, disk, env
<1>1. CASE \/ Open \/ OpenWiped \/ OpenWipedFails \/ Abandon \/ StartSession
           \/ ReadLog \/ ReplayTakesLine \/ ReplayIngests
  BY <1>1 DEF Open, OpenWiped, OpenWipedFails, Abandon, StartSession, ReadLog,
    ReplayTakesLine, ReplayIngests, disk, env
<1>2. CASE \/ ReplayStops \/ ReplayEnds \/ StartupTruncates \/ StartupEnds
           \/ Unload \/ CloseStore \/ EndTeardown \/ Crash \/ Damage
  BY <1>2 DEF ReplayStops, ReplayEnds, StartupTruncates, StartupEnds, Unload,
    CloseStore, EndTeardown, Crash, Damage, disk, env
<1>3. ASSUME NEW b \in Batches,
             Scrape(b) \/ StoreCommits(b) \/ IngestFails(b) \/ LogBatch(b)
      PROVE  db \subseteq db'
  BY <1>3 DEF Scrape, StoreCommits, IngestFails, LogBatch, disk, env
<1>4. CASE AppendLine \/ AppendFails \/ TruncateFile \/ TruncateFails
  BY <1>4 DEF AppendLine, AppendFails, TruncateFile, TruncateFails, disk, env,
    Dequeue
<1>5. ASSUME NEW f \in Flushers,
             FlushBegins(f) \/ FlushChecks(f) \/ FlushEnds(f)
      PROVE  db \subseteq db'
  BY <1>5 DEF FlushBegins, FlushChecks, FlushEnds, disk, env
<1> QED BY <1>0, <1>1, <1>2, <1>3, <1>4, <1>5 DEF Next

\* A refill that is not interrupted ends with everything in the database that the
\* log holds.
LEMMA RefillEnds ==
    ASSUME TypeOK, SessionsDoNotOverlap, NothingTruncates, TextCoversLog,
      Refilling, ~interrupted, [Next]_vars
    PROVE  Refilling' \/ interrupted' \/ Logged \subseteq db
<1> USE DEF Refilling
<1>0. CASE UNCHANGED vars BY <1>0 DEF vars, disk, env
<1>1. CASE Open
  <2>1. phase = "down" /\ startup.pc \notin {"read", "lines", "ingest"}
    BY <1>1 DEF Open, SessionsDoNotOverlap, NoStartup, StartupAt
  <2> QED BY <2>1 DEF SessionsDoNotOverlap, NoStartup, StartupAt
<1>2. CASE OpenWiped BY <1>2 DEF OpenWiped, disk, env
<1>3. CASE OpenWipedFails
  <2>1. Interrupts("crash") BY <1>3 DEF OpenWipedFails
  <2> QED BY <2>1 DEF Interrupts
<1>4. CASE Abandon
  <2>1. Interrupts("abandon") BY <1>4 DEF Abandon
  <2> QED BY <2>1 DEF Interrupts
<1>5. CASE StartSession
  <2>1. phase = "opened" /\ startup.pc = "none"
    BY <1>5 DEF StartSession, SessionsDoNotOverlap, NoStartup, StartupAt
  <2>2. recovered BY <2>1
  <2>3. recovered' /\ startup'.pc = "read" BY <1>5, <2>2 DEF StartSession, StartupAt
  <2> QED BY <2>3
<1>6. ASSUME NEW b \in Batches, Scrape(b)
      PROVE  Refilling' \/ interrupted' \/ Logged \subseteq db
  BY <1>6 DEF Scrape, disk, env
<1>7. ASSUME NEW b \in Batches, StoreCommits(b)
      PROVE  Refilling' \/ interrupted' \/ Logged \subseteq db
  BY <1>7 DEF StoreCommits, disk, env
<1>8. ASSUME NEW b \in Batches, IngestFails(b)
      PROVE  Refilling' \/ interrupted' \/ Logged \subseteq db
  BY <1>8 DEF IngestFails, disk, env
<1>9. ASSUME NEW b \in Batches, LogBatch(b)
      PROVE  Refilling' \/ interrupted' \/ Logged \subseteq db
  BY <1>9 DEF LogBatch, disk, env
<1>10. CASE AppendLine
  <2>1. Dequeue BY <1>10 DEF AppendLine
  <2>2. UNCHANGED <<phase, recovered>> BY <2>1 DEF Dequeue
  <2> QED BY <2>1, <2>2, DequeueWaits
<1>11. CASE AppendFails
  <2>1. Dequeue BY <1>11 DEF AppendFails
  <2>2. UNCHANGED <<phase, recovered>> BY <2>1 DEF Dequeue
  <2> QED BY <2>1, <2>2, DequeueWaits
<1>12. CASE TruncateFile
  <2>1. Dequeue BY <1>12 DEF TruncateFile
  <2>2. UNCHANGED <<phase, recovered>> BY <2>1 DEF Dequeue
  <2> QED BY <2>1, <2>2, DequeueWaits
<1>13. CASE TruncateFails
  <2>1. Dequeue BY <1>13 DEF TruncateFails
  <2>2. UNCHANGED <<phase, recovered>> BY <2>1 DEF Dequeue
  <2> QED BY <2>1, <2>2, DequeueWaits
<1>14. ASSUME NEW f \in Flushers, FlushBegins(f)
       PROVE  Refilling' \/ interrupted' \/ Logged \subseteq db
  <2>1. phase \in {"up", "closing"} /\ startup.pc \notin {"read", "lines", "ingest"}
    BY <1>14 DEF FlushBegins, SessionsDoNotOverlap, NoStartup, StartupAt
  <2> QED BY <2>1 DEF SessionsDoNotOverlap, NoStartup, StartupAt
<1>15. ASSUME NEW f \in Flushers, FlushChecks(f)
       PROVE  Refilling' \/ interrupted' \/ Logged \subseteq db
  BY <1>15 DEF FlushChecks, disk, env
<1>16. ASSUME NEW f \in Flushers, FlushEnds(f)
       PROVE  Refilling' \/ interrupted' \/ Logged \subseteq db
  BY <1>16 DEF FlushEnds, disk, env
<1>17. CASE ReadLog
  <2>1. startup.pc = "read" /\ recovered /\ UNCHANGED <<phase, recovered>>
    BY <1>17 DEF ReadLog, SessionsDoNotOverlap, NoStartup, StartupAt
  <2>2. startup'.pc = "lines" \/ Interrupts("read") BY <1>17 DEF ReadLog, StartupAt
  <2> QED BY <2>1, <2>2 DEF Interrupts
<1>18. CASE ReplayTakesLine BY <1>18 DEF ReplayTakesLine, disk, env, StartupAt
<1>19. CASE ReplayIngests
  <2>1. startup'.pc = "lines" /\ UNCHANGED <<phase, recovered>>
    BY <1>19 DEF ReplayIngests, StartupAt
  <2>2. phase # "wiped" /\ recovered
    BY <1>19 DEF ReplayIngests, SessionsDoNotOverlap, NoStartup, StartupAt
  <2> QED BY <2>1, <2>2
<1>20. CASE ReplayStops
  <2>1. phase # "up" /\ startup.pc = "lines" BY <1>20 DEF ReplayStops
  <2> QED BY <2>1 DEF NothingTruncates, Replaying
<1>21. CASE ReplayEnds
  <2>1. startup.pc = "lines" /\ startup.text = <<>> BY <1>21 DEF ReplayEnds
  <2>2. DOMAIN startup.text = {} BY <2>1
  <2>3. InText = {} BY <2>2 DEF InText
  <2> QED BY <2>1, <2>3 DEF TextCoversLog
<1>22. CASE StartupTruncates
  <2>1. startup.pc = "barrier" /\ startup.pc \notin {"read", "lines", "ingest"}
    BY <1>22 DEF StartupTruncates, SessionsDoNotOverlap, NoStartup, StartupAt
  <2> QED BY <2>1 DEF SessionsDoNotOverlap, NoStartup, StartupAt
<1>23. CASE StartupEnds
  <2>1. startup.pc = "truncate" /\ startup.pc \notin {"read", "lines", "ingest"}
    BY <1>23 DEF StartupEnds, SessionsDoNotOverlap, NoStartup, StartupAt
  <2> QED BY <2>1 DEF SessionsDoNotOverlap, NoStartup, StartupAt
<1>24. CASE Unload
  <2>1. Interrupts("unload") BY <1>24 DEF Unload
  <2> QED BY <2>1 DEF Interrupts
<1>25. CASE CloseStore
  <2>1. phase = "stopping" /\ startup.pc \notin {"read", "lines", "ingest"}
    BY <1>25 DEF CloseStore, SessionsDoNotOverlap, NoStartup, StartupAt
  <2> QED BY <2>1 DEF SessionsDoNotOverlap, NoStartup, StartupAt
<1>26. CASE EndTeardown
  <2>1. phase = "flushing" /\ UNCHANGED <<recovered, startup>> BY <1>26 DEF EndTeardown
  <2> QED BY <2>1
<1>27. CASE Crash
  <2>1. Interrupts("crash") BY <1>27 DEF Crash
  <2> QED BY <2>1 DEF Interrupts
<1>28. CASE Damage
  <2>1. phase = "down" /\ startup.pc \notin {"read", "lines", "ingest"}
    BY <1>28 DEF Damage, SessionsDoNotOverlap, NoStartup, StartupAt
  <2> QED BY <2>1 DEF SessionsDoNotOverlap, NoStartup, StartupAt
<1> QED BY <1>0, <1>1, <1>2, <1>3, <1>4, <1>5, <1>6, <1>7, <1>8, <1>9, <1>10,
      <1>11, <1>12, <1>13, <1>14, <1>15, <1>16, <1>17, <1>18, <1>19, <1>20,
      <1>21, <1>22, <1>23, <1>24, <1>25, <1>26, <1>27, <1>28 DEF Next

\* The database goes on holding what is in the log, or on its way there.
LEMMA LogStep ==
    ASSUME IInv, [Next]_vars
    PROVE  LogIsCommitted'
<1> USE DEF IInv
<1>1. CASE damaged
  <2>1. damaged' \/ phase' = "wiped" BY <1>1, DamagedIsWiped
  <2> QED BY <2>1 DEF LogIsCommitted, Refilling
<1>2. CASE ~damaged /\ interrupted
  <2>1. interrupted' BY <1>2, InterruptedStays
  <2> QED BY <2>1 DEF LogIsCommitted
<1>3. CASE ~damaged /\ ~interrupted
  <2>1. Logged \subseteq db \/ Refilling' \/ interrupted'
    <3>1. CASE Refilling BY <1>3, <3>1, RefillEnds
    <3>2. CASE ~Refilling BY <1>3, <3>2 DEF LogIsCommitted
    <3> QED BY <3>1, <3>2
  <2>2. db \subseteq db' BY <1>3, DatabaseGrows
  <2>3. Logged' \subseteq Logged \cup Queued BY OnlyQueuedIsLogged
  <2>4. Queued \subseteq db /\ Queued' \subseteq db' BY CommittedStep DEF CommittedFirst
  <2>5. Logged \subseteq db => Logged' \cup Queued' \subseteq db'
    BY <2>2, <2>3, <2>4
  <2> QED BY <2>1, <2>5 DEF LogIsCommitted
<1> QED BY <1>1, <1>2, <1>3

\* A line cut short does not parse, unless only its newline is missing.
LEMMA TailStep ==
    ASSUME TypeOK, TailIsTorn, [Next]_vars
    PROVE  TailIsTorn'
<1> USE DEF TailIsTorn
<1>0. CASE UNCHANGED vars BY <1>0 DEF vars, disk, env
<1>1. CASE Open BY <1>1 DEF Open, disk, env
<1>2. CASE OpenWiped BY <1>2 DEF OpenWiped, disk, env
<1>3. CASE OpenWipedFails BY <1>3 DEF OpenWipedFails, disk, env
<1>4. CASE Abandon BY <1>4 DEF Abandon, disk, env
<1>5. CASE StartSession BY <1>5 DEF StartSession, disk, env
<1>6. ASSUME NEW b \in Batches, Scrape(b) PROVE TailIsTorn'
  BY <1>6 DEF Scrape, disk, env
<1>7. ASSUME NEW b \in Batches, StoreCommits(b) PROVE TailIsTorn'
  BY <1>7 DEF StoreCommits, disk, env
<1>8. ASSUME NEW b \in Batches, IngestFails(b) PROVE TailIsTorn'
  BY <1>8 DEF IngestFails, disk, env
<1>9. ASSUME NEW b \in Batches, LogBatch(b) PROVE TailIsTorn'
  BY <1>9 DEF LogBatch, disk, env
<1>10. CASE AppendLine BY <1>10 DEF AppendLine, disk, env
<1>11. CASE AppendFails
  <2>1. Dequeue /\ Head(queue) # Truncate BY <1>11 DEF AppendFails
  <2>2. Head(queue) \in Batches BY <2>1, DequeueType
  <2>3. tail' \in Torn(Head(queue)) \cup {NoTail} BY <1>11 DEF AppendFails
  <2> QED BY <2>2, <2>3, TornType
<1>12. CASE TruncateFile BY <1>12 DEF TruncateFile, disk, env
<1>13. CASE TruncateFails BY <1>13 DEF TruncateFails, disk, env
<1>14. ASSUME NEW f \in Flushers, FlushBegins(f) PROVE TailIsTorn'
  BY <1>14 DEF FlushBegins, disk, env
<1>15. ASSUME NEW f \in Flushers, FlushChecks(f) PROVE TailIsTorn'
  BY <1>15 DEF FlushChecks, disk, env
<1>16. ASSUME NEW f \in Flushers, FlushEnds(f) PROVE TailIsTorn'
  BY <1>16 DEF FlushEnds, disk, env
<1>17. CASE ReadLog BY <1>17 DEF ReadLog, disk, env
<1>18. CASE ReplayTakesLine BY <1>18 DEF ReplayTakesLine, disk, env
<1>19. CASE ReplayIngests BY <1>19 DEF ReplayIngests, disk, env
<1>20. CASE ReplayStops BY <1>20 DEF ReplayStops, disk, env
<1>21. CASE ReplayEnds BY <1>21 DEF ReplayEnds, disk, env
<1>22. CASE StartupTruncates BY <1>22 DEF StartupTruncates, disk, env
<1>23. CASE StartupEnds BY <1>23 DEF StartupEnds, disk, env
<1>24. CASE Unload BY <1>24 DEF Unload, disk, env
<1>25. CASE CloseStore BY <1>25 DEF CloseStore, disk, env
<1>26. CASE EndTeardown BY <1>26 DEF EndTeardown, disk, env
<1>27. CASE Crash
  <2>1. CASE queue # <<>> /\ Head(queue) # Truncate
    <3>1. queue \in Seq(Batches \cup {Truncate}) BY DEF TypeOK
    <3>2. Head(queue) \in Batches BY <2>1, <3>1, HeadTail
    <3>3. tail' \in Torn(Head(queue)) BY <1>27, <2>1 DEF Crash
    <3> QED BY <3>2, <3>3, TornType
  <2>2. CASE ~(queue # <<>> /\ Head(queue) # Truncate) BY <1>27, <2>2 DEF Crash
  <2> QED BY <2>1, <2>2
<1>28. CASE Damage BY <1>28 DEF Damage, disk, env
<1> QED BY <1>0, <1>1, <1>2, <1>3, <1>4, <1>5, <1>6, <1>7, <1>8, <1>9, <1>10,
      <1>11, <1>12, <1>13, <1>14, <1>15, <1>16, <1>17, <1>18, <1>19, <1>20,
      <1>21, <1>22, <1>23, <1>24, <1>25, <1>26, <1>27, <1>28 DEF Next

--------------------------------------------------------------------------------
(***************************************************************************)
(* The theorems.                                                           *)
(***************************************************************************)
\* Nothing is damaged, queued or logged before the first load.
LEMMA InitIInv == Init => IInv
<1> SUFFICES ASSUME Init PROVE IInv OBVIOUS
<1> USE DEF Init
<1>1. queue = <<>> /\ file = <<>> /\ DOMAIN queue = {} /\ DOMAIN file = {} OBVIOUS
<1>2. flush = [f \in Flushers |-> NoFlush] /\ startup = NoStartup OBVIOUS
<1>3. TypeOK
  <2>1. NoFlush \in FlushCalls BY DEF NoFlush, FlushAt, FlushCalls
  <2>2. startup \in Startups BY ShortSeqs DEF NoStartup
  <2>3. faults \in 0..MaxFaults BY WalAssumption
  <2>4. file \in Seq(Batches \cup {Garbled}) /\ queue \in Seq(Batches \cup {Truncate})
    BY ShortSeqs
  <2> QED BY <2>1, <2>2, <2>3, <2>4 DEF TypeOK, Phases
<1>4. SessionsDoNotOverlap BY <1>2 DEF SessionsDoNotOverlap, InFlight
<1>5. IdleIsBlank BY <1>2 DEF IdleIsBlank
<1>6. TeardownOrder
  <2>1. flush["teardown"].pc = "idle" BY <1>2 DEF Flushers, NoFlush, FlushAt
  <2> QED BY <2>1 DEF TeardownOrder
<1>7. CommittedFirst BY <1>1 DEF CommittedFirst, Queued
<1>8. startup.pc = "none" BY <1>2 DEF NoStartup, StartupAt
<1>9. ReplayAfterWipe /\ NothingTruncates /\ TextCoversLog
  BY <1>8 DEF ReplayAfterWipe, NothingTruncates, Replaying, TextCoversLog
<1>10. Logged = {} /\ Queued = {} BY <1>1, WalAssumption DEF Logged, Queued
<1>11. LogIsCommitted BY <1>10 DEF LogIsCommitted
<1>12. TailIsTorn BY DEF TailIsTorn
<1> QED
  BY <1>3, <1>4, <1>5, <1>6, <1>7, <1>9, <1>11, <1>12 DEF IInv

\* The invariant is inductive.
LEMMA StepIInv == IInv /\ [Next]_vars => IInv'
<1> SUFFICES ASSUME IInv, [Next]_vars PROVE IInv' OBVIOUS
<1>1. TypeOK' /\ IdleIsBlank' BY TypeStep, BlankStep DEF IInv
<1>2. SessionsDoNotOverlap' /\ TeardownOrder' BY QuietStep, OrderStep DEF IInv
<1>3. CommittedFirst' /\ LogIsCommitted' BY CommittedStep, LogStep DEF IInv
<1>4. ReplayAfterWipe' /\ NothingTruncates'
  BY AfterWipeStep, NothingTruncatesStep DEF IInv
<1>5. TextCoversLog' /\ TailIsTorn' BY TextCoversStep, TailStep DEF IInv
<1> QED BY <1>1, <1>2, <1>3, <1>4, <1>5 DEF IInv

\* A truncation that runs finds everything that is logged in a database that opens.
LEMMA TruncatesCovered ==
    ASSUME IInv, ~interrupted, TruncateFile
    PROVE  ~damaged /\ Logged \subseteq db
<1>1. Dequeue /\ queue # <<>> /\ Head(queue) = Truncate
  BY DEF TruncateFile, Dequeue
<1>2. phase \notin {"down", "wiped", "opened"} BY <1>1 DEF IInv, SessionsDoNotOverlap
<1>3. ~damaged BY <1>2 DEF IInv, TeardownOrder
<1>4. 1 \in DOMAIN queue /\ queue[1] = Truncate BY <1>1, HeadTail DEF IInv, TypeOK
<1>5. ~Refilling BY <1>2, <1>4 DEF IInv, NothingTruncates, Replaying, Refilling
<1> QED BY <1>3, <1>5 DEF IInv, LogIsCommitted

\* No other step takes a batch out of the log, if no line lacks only its newline.
LEMMA LoggedStays ==
    ASSUME TypeOK, TailIsTorn, "newline" \notin Tears, ~TruncateFile,
      [Next]_vars
    PROVE  Logged \subseteq Logged'
<1>0. CASE UNCHANGED vars BY <1>0 DEF vars, disk, env, Logged
<1>1. CASE \/ Open \/ OpenWiped \/ OpenWipedFails \/ Abandon \/ StartSession
           \/ TruncateFails \/ ReadLog \/ ReplayTakesLine
  BY <1>1 DEF Open, OpenWiped, OpenWipedFails, Abandon, StartSession,
    TruncateFails, ReadLog, ReplayTakesLine, disk, env, Logged
<1>2. CASE \/ ReplayIngests \/ ReplayStops \/ ReplayEnds \/ StartupTruncates
           \/ StartupEnds \/ Unload \/ CloseStore \/ EndTeardown \/ Damage
  BY <1>2 DEF ReplayIngests, ReplayStops, ReplayEnds, StartupTruncates,
    StartupEnds, Unload, CloseStore, EndTeardown, Damage, disk, env, Logged
<1>3. ASSUME NEW b \in Batches,
             Scrape(b) \/ StoreCommits(b) \/ IngestFails(b) \/ LogBatch(b)
      PROVE  Logged \subseteq Logged'
  BY <1>3 DEF Scrape, StoreCommits, IngestFails, LogBatch, disk, env, Logged
<1>4. ASSUME NEW f \in Flushers,
             FlushBegins(f) \/ FlushChecks(f) \/ FlushEnds(f)
      PROVE  Logged \subseteq Logged'
  BY <1>4 DEF FlushBegins, FlushChecks, FlushEnds, disk, env, Logged
<1>5. CASE AppendLine
  <2>1. tail \notin Batches BY WalAssumption DEF TailIsTorn
  <2> QED BY <1>5, <2>1, AppendLineLogs
<1>6. CASE AppendFails
  <2>1. tail \notin Batches BY WalAssumption DEF TailIsTorn
  <2>2. Dequeue /\ Head(queue) # Truncate /\ UNCHANGED file BY <1>6 DEF AppendFails
  <2>3. Head(queue) \in Batches BY <2>2, DequeueType
  <2> QED BY <1>6, <2>1, <2>2, <2>3, TornLogs DEF AppendFails
<1>7. CASE Crash
  <2>1. tail \notin Batches BY WalAssumption DEF TailIsTorn
  <2>2. CASE queue # <<>> /\ Head(queue) # Truncate
    <3>1. queue \in Seq(Batches \cup {Truncate}) BY DEF TypeOK
    <3>2. Head(queue) \in Batches BY <2>2, <3>1, HeadTail
    <3> QED BY <1>7, <2>1, <2>2, <3>2, TornLogs DEF Crash
  <2>3. CASE ~(queue # <<>> /\ Head(queue) # Truncate)
    <3>1. UNCHANGED <<file, tail>> BY <1>7, <2>3 DEF Crash
    <3> QED BY <3>1 DEF Logged
  <2> QED BY <2>2, <2>3
<1>8. CASE TruncateFile BY <1>8 DEF TruncateFile, disk, env
<1> QED BY <1>0, <1>1, <1>2, <1>3, <1>4, <1>5, <1>6, <1>7, <1>8 DEF Next

\* The specification keeps its types.
THEOREM LogTypeCorrect == Spec => []TypeOK
<1>1. IInv => TypeOK BY DEF IInv
<1> QED BY InitIInv, StepIInv, <1>1, PTL DEF Spec

\* Two sessions never have work on the same file: a SampleWal is created only
\* when the one before it has settled every write and every promise.
THEOREM SessionsNeverOverlap == Spec => []SessionsDoNotOverlap
<1>1. IInv => SessionsDoNotOverlap BY DEF IInv
<1> QED BY InitIInv, StepIInv, <1>1, PTL DEF Spec

\* What the log holds, or is about to hold, is in the database, except while the
\* log is what refills it or after a refill was interrupted.
THEOREM LogStaysCommitted == Spec => []LogIsCommitted
<1>1. IInv => LogIsCommitted BY DEF IInv
<1> QED BY InitIInv, StepIInv, <1>1, PTL DEF Spec

\* The main promise of the log: as long as the refilling of a wiped database is
\* not interrupted, no step loses a batch that the database or the log had.
THEOREM NothingIsForgotten == "newline" \notin Tears => (Spec => NothingForgotten)
<1> SUFFICES ASSUME "newline" \notin Tears PROVE Spec => NothingForgotten OBVIOUS
<1> DEFINE Kept == (damaged' => damaged) /\ ~interrupted => Recoverable \subseteq Recoverable'
<1>1. ASSUME IInv, [Next]_vars PROVE Kept
  <2> SUFFICES ASSUME damaged' => damaged, ~interrupted
               PROVE  Recoverable \subseteq Recoverable'
    OBVIOUS
  <2>1. ~damaged => db \subseteq db' BY <1>1, DatabaseGrows
  <2>2. CASE TruncateFile
    <3>1. ~damaged /\ Logged \subseteq db BY <1>1, <2>2, TruncatesCovered
    <3> QED BY <2>1, <3>1 DEF Recoverable
  <2>3. CASE ~TruncateFile
    <3>1. Logged \subseteq Logged' BY <1>1, <2>3, LoggedStays DEF IInv
    <3> QED BY <2>1, <3>1 DEF Recoverable
  <2> QED BY <2>2, <2>3
<1>2. IInv /\ [Next]_vars => [Kept]_vars BY <1>1
<1> QED BY InitIInv, StepIInv, <1>2, PTL DEF Spec, NothingForgotten
================================================================================
