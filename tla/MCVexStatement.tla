--------------------------- MODULE MCVexStatement ---------------------------
(* All the statements, with lists of up to three elements. *)
EXTENDS VexStatement

MCTried == Statements

=============================================================================
