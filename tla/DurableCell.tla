------------------------------ MODULE DurableCell ------------------------------
(***************************************************************************)
(* What a persisted file promises the store above it, whatever steps the   *)
(* rotation is made of: a single cell.  Once a first write has been        *)
(* acknowledged, and as long as the cell has not been hurt since the last  *)
(* acknowledgement, what a reboot would read changes only in the step that *)
(* acknowledges a write, and then to that write.                           *)
(***************************************************************************)
EXTENDS Naturals

VARIABLES
    stored,     \* the write a reboot would read now, 0 for none
    latest,     \* the newest write handed in
    acked,      \* the newest write acknowledged
    hurt        \* has a write since then been broken off badly, or cut short?

vars == <<stored, latest, acked, hurt>>

Init ==
    /\ stored = 0
    /\ latest = 0
    /\ acked = 0
    /\ hurt = FALSE

Write ==
    /\ latest' = latest + 1
    /\ UNCHANGED <<stored, acked, hurt>>

Acknowledge ==
    /\ stored' = latest
    /\ acked' = latest
    /\ hurt' = FALSE
    /\ UNCHANGED latest

Hurt ==
    /\ hurt' = TRUE
    /\ UNCHANGED <<stored, latest, acked>>

\* Nothing is promised of a hurt cell, nor before the first acknowledgement.
Drift ==
    /\ hurt \/ acked = 0
    /\ stored' \in 0..latest
    /\ UNCHANGED <<latest, acked, hurt>>

Next == Write \/ Acknowledge \/ Hurt \/ Drift

Spec == Init /\ [][Next]_vars

=============================================================================
