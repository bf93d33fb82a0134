------------------------------ MODULE MCSafeFile ------------------------------
(***************************************************************************)
(* SafeFile for TLC.  Writes are the only source of new payloads and every *)
(* broken rotation takes one, so four of them cover: a first acknowledged  *)
(* write, three that break off in a row, on all four kinds of path.        *)
(***************************************************************************)
EXTENDS SafeFile


=============================================================================
