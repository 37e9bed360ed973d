----------------------------- MODULE MCWalRecovery -----------------------------
(***************************************************************************)
(* Instances of WalRecovery for TLC.                                       *)
(***************************************************************************)
EXTENDS WalRecovery, TLC

CONSTANTS b1, b2, b3

TwoBatches == {b1, b2}
ThreeBatches == {b1, b2, b3}
================================================================================
