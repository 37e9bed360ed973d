------------------------------- MODULE SampleMap -------------------------------
(***************************************************************************)
(* What the sample table promises to the plugin, with nothing said of hot  *)
(* rows, cold blocks or cached bounds: a map from (series, timestamp) to   *)
(* the last value written, changed by one transaction at a time.  A        *)
(* transaction announces its statement, then either commits, with exactly  *)
(* the effect of that statement, or aborts, with none.  A sample of a      *)
(* damaged block is unreadable, a query for it fails, until maintenance    *)
(* drops the block.  That an import keeps what is there is promised only   *)
(* to a connection that is sure of it.  TsdbTable is shown to implement    *)
(* this module.                                                            *)
(***************************************************************************)
EXTENDS Integers

CONSTANTS
    Series,      \* the series ids
    Time,        \* the timestamps
    Values,      \* the values a sample may have
    Absent,      \* not a value: there is no such sample
    Unreadable,  \* not a value: a query for it fails
    Statements,  \* what a transaction may run, a set of statement records
    Idle,        \* the statement record of no transaction
    MayLose      \* whether the medium may damage what is stored

VARIABLES
    samples,     \* the committed samples: samples[s][t] is a value or Absent
    stmt,        \* the statement of the open transaction, or Idle
    sure         \* whether an import keeps all there is

vars == <<samples, stmt, sure>>

Row == [Time -> Values \cup {Absent, Unreadable}]

TypeOK ==
    /\ samples \in [Series -> Row]
    /\ stmt \in Statements \cup {Idle}
    /\ sure \in BOOLEAN

Init ==
    /\ samples = [s \in Series |-> [t \in Time |-> Absent]]
    /\ stmt = Idle
    /\ sure = TRUE

\* A statement may make sure, none makes unsure.
Begin ==
    /\ stmt = Idle
    /\ stmt' \in Statements
    /\ sure' \in {sure, TRUE}
    /\ UNCHANGED samples

(***************************************************************************)
(* The effects a committed statement may have.                             *)
(***************************************************************************)
\* The batch wins over what is there: live ingest, single-row INSERT.  A query
\* that fails over a damaged block does so whatever is written on top of it.
Overwritten(batch) ==
    [s \in Series |-> [t \in Time |->
        IF batch[s][t] = Absent \/ samples[s][t] = Unreadable
        THEN samples[s][t] ELSE batch[s][t]]]

\* What is there wins over the batch: historical import.
FilledIn(batch) ==
    [s \in Series |-> [t \in Time |->
        IF samples[s][t] = Absent THEN batch[s][t] ELSE samples[s][t]]]

\* Either wins, sample by sample: an import that is not sure.
PartlyFilledIn(batch) ==
    \A s \in Series, t \in Time :
        samples'[s][t] \in {FilledIn(batch)[s][t], Overwritten(batch)[s][t]}

\* Maintenance keeps a sample, or makes one readable again.
Kept(s, t) ==
    samples'[s][t] = samples[s][t] \/ samples[s][t] = Unreadable

Compacted == \A s \in Series, t \in Time : Kept(s, t)

\* Everything older than the cutoff is gone: delete-before.
Trimmed(cutoff) ==
    \A s \in Series, t \in Time :
        IF t < cutoff THEN samples'[s][t] = Absent ELSE Kept(s, t)

\* One bounded batch of the retention sweep: only expired samples change, none
\* appears and none is damaged.  (An expired sample that is not dropped yet may
\* fall back to the value it had before its last write, see NoOldWriteReturns in
\* TsdbTable.)
PartlyTrimmed(cutoff) ==
    \A s \in Series, t \in Time :
        samples'[s][t] # samples[s][t] =>
            t < cutoff /\ samples[s][t] # Absent /\ samples'[s][t] # Unreadable

Commit ==
    /\ stmt # Idle
    /\ stmt' = Idle
    /\ samples' \in [Series -> Row]
    /\ \/ stmt.op \in {"ingest", "insert"} /\ samples' = Overwritten(stmt.batch)
       \/ stmt.op = "import" /\ sure /\ samples' = FilledIn(stmt.batch)
       \/ stmt.op = "import" /\ ~sure /\ PartlyFilledIn(stmt.batch)
       \/ stmt.op = "compact" /\ Compacted
       \/ stmt.op = "delete" /\ Trimmed(stmt.cutoff)
       \/ stmt.op = "expire" /\ PartlyTrimmed(stmt.cutoff)
    /\ UNCHANGED sure

Abort ==
    /\ stmt # Idle
    /\ stmt' = Idle
    /\ UNCHANGED <<samples, sure>>

\* The process ends, before a COMMIT perhaps, and another connection begins.
Reconnect ==
    /\ stmt' = Idle
    /\ sure' = FALSE => \E s \in Series, t \in Time : samples[s][t] # Absent
    /\ sure' \in BOOLEAN
    /\ UNCHANGED samples

\* A batch that is refused makes sure, like one that is taken.
LookUp ==
    /\ stmt = Idle
    /\ sure' = TRUE
    /\ UNCHANGED <<samples, stmt>>

\* Damage to the medium makes samples of one series unreadable.
Lose ==
    /\ MayLose
    /\ stmt = Idle
    /\ samples' \in [Series -> Row]
    /\ \E s \in Series :
           \A r \in Series, t \in Time :
               samples'[r][t] # samples[r][t] => r = s /\ samples'[r][t] = Unreadable
    /\ UNCHANGED <<stmt, sure>>

Next == Begin \/ Commit \/ Abort \/ Reconnect \/ LookUp \/ Lose

Spec == Init /\ [][Next]_vars
================================================================================
