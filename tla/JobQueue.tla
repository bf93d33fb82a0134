------------------------------- MODULE JobQueue -------------------------------
(***************************************************************************)
(* What persist/IAsyncRunner.h promises of a background runner: jobs are   *)
(* run one at a time, in the order they were submitted; a full queue gives *)
(* up its oldest job and never a newer one; and every job is finally run   *)
(* or given up.  Jobs are numbered in the order of their submission.       *)
(***************************************************************************)
EXTENDS Naturals, Sequences

CONSTANT Capacity

VARIABLES
    made,       \* number of jobs submitted so far
    queue,      \* those that wait, oldest first
    running     \* the one that runs, 0 for none

vars == <<made, queue, running>>

Init ==
    /\ made = 0
    /\ queue = <<>>
    /\ running = 0

Submit ==
    /\ made' = made + 1
    /\ \/ Len(queue) < Capacity /\ queue' = Append(queue, made')
       \/ Len(queue) = Capacity /\ queue' = Append(Tail(queue), made')
    /\ UNCHANGED running

\* Before there is a background task the submitter runs the job itself.
RunInline ==
    /\ queue = <<>>
    /\ made' = made + 1
    /\ UNCHANGED <<queue, running>>

Start ==
    /\ running = 0
    /\ queue # <<>>
    /\ running' = Head(queue)
    /\ queue' = Tail(queue)
    /\ UNCHANGED made

Finish ==
    /\ running # 0
    /\ running' = 0
    /\ UNCHANGED <<made, queue>>

Next == Submit \/ RunInline \/ Start \/ Finish

Spec == Init /\ [][Next]_vars

Fairness == WF_vars(Start) /\ WF_vars(Finish)

FairSpec == Spec /\ Fairness

=============================================================================
