---------------------------- MODULE MCBootRecovery -----------------------------
(***************************************************************************)
(* BootRecovery for TLC: two books, so that the newest and the opened one  *)
(* may differ, the budget of the code, and three faults, so that another   *)
(* one hits the boot that recovers from the first.                         *)
(***************************************************************************)
EXTENDS BootRecovery

CONSTANTS b1, b2

=============================================================================
