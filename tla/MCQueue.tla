------------------------------ MODULE MCQueue ------------------------------
(* Rebuilds of one table, submitted to one or two workers. *)
EXTENDS RebuildQueue

CONSTANTS w1, w2
=============================================================================
