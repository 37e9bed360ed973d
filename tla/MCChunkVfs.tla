------------------------------- MODULE MCChunkVfs -------------------------------
(***************************************************************************)
(* Instances of ChunkVfs for TLC.                                          *)
(***************************************************************************)
EXTENDS ChunkVfs
================================================================================
