---------------------------- MODULE MCVexWriter ----------------------------
(***************************************************************************)
(* One file of at most nine calls, on the four kinds of block: references *)
(* in the block itself, scans, defs of references and defs of statements.  *)
(***************************************************************************)
EXTENDS VexWriter

MCBlocks == {"GLOBAL", "SCHED", "MODE", "FREQ"}
=============================================================================
