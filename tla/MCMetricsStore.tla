----------------------------- MODULE MCMetricsStore -----------------------------
(***************************************************************************)
(* An instance of MetricsStore for TLC: two series, two minutes in the     *)
(* first retention span, of which one is cut in two, and one beyond it.    *)
(***************************************************************************)
EXTENDS MetricsStore, TLC

CONSTANTS k1, k2

TwoKeys == {k1, k2}
SomeTimes == {0, 1, 4}
SomeCutoffs == {1, 4}
SomeBatches == {{}, {<<k1, 0>>}, {<<k1, 1>>, <<k2, 4>>}, {<<k2, 0>>, <<k2, 1>>}}
================================================================================
