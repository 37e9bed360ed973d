----------------------------- MODULE MCWorkerStore -----------------------------
(***************************************************************************)
(* Values of the constants of WorkerStore for TLC.                         *)
(***************************************************************************)
EXTENDS WorkerStore, Naturals

CONSTANTS f1, f2, m1, m2

TwoForeground == {f1, f2}
TwoMaintenance == {m1, m2}
================================================================================
