-------------------------------- MODULE MCPlugin --------------------------------
(***************************************************************************)
(* Instances of Plugin for TLC: short lives over reloads, one long life.   *)
(***************************************************************************)
EXTENDS Plugin
================================================================================
