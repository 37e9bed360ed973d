------------------------------ MODULE MCTsdbTable ------------------------------
(***************************************************************************)
(* Instances of TsdbTable for TLC.  Series are numbers because the code    *)
(* orders by them; values are model values.                                *)
(***************************************************************************)
EXTENDS TsdbTable, TLC

CONSTANTS v1, v2

OneSeries == {1}
TwoSeries == {1, 2}
OneValue == {v1}
TwoValues == {v1, v2}
ValueSymmetry == Permutations(TwoValues)
================================================================================
