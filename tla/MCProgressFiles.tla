---------------------------- MODULE MCProgressFiles ----------------------------
(***************************************************************************)
(* ProgressFiles for TLC: three positions, so that the place saved before  *)
(* the last one is told from the start, and two faults, so that one may    *)
(* hit the session that recovers from another.                             *)
(***************************************************************************)
EXTENDS ProgressFiles

MCPages == 0 .. 2

\* The text begins on the second of them.
MCTextPlace == [p \in MCPages |-> IF p = 0 THEN 1 ELSE p]

=============================================================================
