----------------------------- MODULE MCAsyncWriter -----------------------------
(***************************************************************************)
(* AsyncWriter for TLC: the main loop and the render task, a ring of four  *)
(* slots as in the code, and nine jobs, so that a full ring drops many.    *)
(***************************************************************************)
EXTENDS AsyncWriter

CONSTANTS main, render

=============================================================================
