------------------------------ MODULE AsyncWriter ------------------------------
(***************************************************************************)
(* The background SD writer: src/persist/AsyncWriter.cpp.  Several tasks   *)
(* submit jobs to a ring of fixed size and may wait for it to drain; one   *)
(* FreeRTOS task takes the jobs out and runs them.  What happens under     *)
(* mtx_ in one go is one step; the task notification comes after mtx_ has  *)
(* been given back, as a step of its own, and so does everything the       *)
(* writer task does between two critical sections.                         *)
(***************************************************************************)
EXTENDS Naturals

CONSTANTS
    Producers,  \* the tasks that submit: the main loop and the render task
    kMaxQueue,
    MaxJobs     \* bound on the number of jobs submitted

ASSUME QueueAssumption == kMaxQueue \in Nat \ {0}
ASSUME MaxJobsAssumption == MaxJobs \in Nat

VARIABLES
    ring,       \* queue_: the jobs, by number; 0 is an empty std::function
    head,       \* head_: next to pop
    tail,       \* tail_: next to push
    count,      \* count_
    busy,       \* busy_, as 0 or 1
    noted,      \* the writer task's notification value, as 0 or 1
    wpc,        \* where the writer task is; "absent" until start() made it
    job,        \* the job in its hands
    ppc,        \* where each producer is
    made,       \* number of jobs submitted so far
    mine,       \* history: the newest job of each producer
    settled     \* history: the jobs that were run, or dropped from a full ring

shared == <<ring, head, tail, count, busy>>
writer == <<noted, wpc, job>>
vars == <<shared, writer, ppc, made, mine, settled>>

Slots == 0 .. kMaxQueue - 1
Jobs == 1 .. made

\* The jobs in the ring, oldest first.
Queued == [i \in 1 .. count |-> ring[(head + i - 1) % kMaxQueue]]
QueuedJobs == {Queued[i] : i \in 1 .. count}

Running == IF wpc = "run" THEN job ELSE 0

-----------------------------------------------------------------------------
Init ==
    /\ ring = [s \in Slots |-> 0]
    /\ head = 0
    /\ tail = 0
    /\ count = 0
    /\ busy = 0
    /\ noted = 0
    /\ wpc = "absent"
    /\ job = 0
    /\ ppc = [p \in Producers |-> "idle"]
    /\ made = 0
    /\ mine = [p \in Producers |-> 0]
    /\ settled = {}

\* start().  When xTaskCreate fails nothing changes, and may be tried again.
Start ==
    /\ wpc = "absent"
    /\ wpc' = "sleep"
    /\ UNCHANGED <<shared, noted, job, ppc, made, mine, settled>>

-----------------------------------------------------------------------------
(* Producers.                                                              *)

NewJob(p) ==
    /\ ppc[p] = "idle"
    /\ made < MaxJobs
    /\ made' = made + 1
    /\ mine' = [mine EXCEPT ![p] = made + 1]

\* Without a writer task the producer runs its job on the spot.
SubmitInline(p) ==
    /\ wpc = "absent"
    /\ NewJob(p)
    /\ settled' = settled \cup {made + 1}
    /\ UNCHANGED <<shared, writer, ppc>>

\* A slip: the index is not wrapped.
PushUnwrapped(p) ==
    /\ tail' = tail + 1
    /\ ppc' = [ppc EXCEPT ![p] = "notify"]
    /\ UNCHANGED <<busy, writer>>

Push(p) ==
    /\ tail' = (tail + 1) % kMaxQueue
    /\ ppc' = [ppc EXCEPT ![p] = "notify"]
    /\ UNCHANGED <<busy, writer>>

\* Slips: no test for a full ring, and a full ring that counts its oldest job
\* as dropped without moving on from it.
SubmitUnbounded(p) ==
    /\ wpc # "absent"
    /\ NewJob(p)
    /\ count' = count + 1
    /\ ring' = [ring EXCEPT ![tail] = made + 1]
    /\ Push(p)
    /\ UNCHANGED <<settled, head>>
SubmitKeepingHead(p) ==
    /\ wpc # "absent"
    /\ NewJob(p)
    /\ IF count = kMaxQueue
         THEN settled' = settled \cup {ring[head]} /\ count' = count
         ELSE settled' = settled /\ count' = count + 1
    /\ ring' = [ring EXCEPT ![tail] = made + 1]
    /\ Push(p)
    /\ UNCHANGED head

\* A full ring drops its oldest job.
Submit(p) ==
    /\ wpc # "absent"
    /\ NewJob(p)
    /\ IF count = kMaxQueue
         THEN /\ settled' = settled \cup {ring[head]}
              /\ head' = (head + 1) % kMaxQueue
              /\ count' = count
         ELSE /\ count' = count + 1
              /\ UNCHANGED <<settled, head>>
    /\ ring' = [ring EXCEPT ![tail] = made + 1]
    /\ Push(p)

Notify(p) ==
    /\ ppc[p] = "notify"
    /\ noted' = 1
    /\ ppc' = [ppc EXCEPT ![p] = "idle"]
    /\ UNCHANGED <<shared, wpc, job, made, mine, settled>>

\* drainBlocking() returns at once when there is no writer; otherwise it looks
\* again and again until the ring is empty and no job is in flight.
BeginDrain(p) ==
    /\ ppc[p] = "idle"
    /\ wpc # "absent"
    /\ ppc' = [ppc EXCEPT ![p] = "drain"]
    /\ UNCHANGED <<shared, writer, made, mine, settled>>

Drained(p) ==
    /\ ppc[p] = "drain"
    /\ count = 0
    /\ busy = 0
    /\ ppc' = [ppc EXCEPT ![p] = "idle"]
    /\ UNCHANGED <<shared, writer, made, mine, settled>>

-----------------------------------------------------------------------------
(* The writer task.                                                        *)

\* ulTaskNotifyTake(pdTRUE): any number of notifications is one wake-up.
Wake ==
    /\ wpc = "sleep"
    /\ noted = 1
    /\ noted' = 0
    /\ wpc' = "pop"
    /\ UNCHANGED <<shared, job, ppc, made, mine, settled>>

\* Slips: a job that is taken out before the writer says that it is busy, a
\* test that is off by one, and a writer that runs one job for every wake-up.
PopNotBusy ==
    /\ wpc = "pop"
    /\ count > 0
    /\ job' = ring[head]
    /\ ring' = [ring EXCEPT ![head] = 0]
    /\ head' = (head + 1) % kMaxQueue
    /\ count' = count - 1
    /\ wpc' = "run"
    /\ UNCHANGED <<tail, busy, noted, ppc, made, mine, settled>>
PopLeavingLast ==
    /\ wpc = "pop"
    /\ count > 1
    /\ job' = ring[head]
    /\ ring' = [ring EXCEPT ![head] = 0]
    /\ head' = (head + 1) % kMaxQueue
    /\ count' = count - 1
    /\ busy' = 1
    /\ wpc' = "run"
    /\ UNCHANGED <<tail, noted, ppc, made, mine, settled>>
ClearBusyThenSleep ==
    /\ wpc = "clear"
    /\ busy' = 0
    /\ job' = 0
    /\ wpc' = "sleep"
    /\ UNCHANGED <<ring, head, tail, count, noted, ppc, made, mine, settled>>

Pop ==
    /\ wpc = "pop"
    /\ count > 0
    /\ job' = ring[head]
    /\ ring' = [ring EXCEPT ![head] = 0]
    /\ head' = (head + 1) % kMaxQueue
    /\ count' = count - 1
    /\ busy' = 1
    /\ wpc' = "run"
    /\ UNCHANGED <<tail, noted, ppc, made, mine, settled>>

FoundEmpty ==
    /\ wpc = "pop"
    /\ count = 0
    /\ busy' = 0
    /\ wpc' = "sleep"
    /\ UNCHANGED <<ring, head, tail, count, noted, job, ppc, made, mine, settled>>

Run ==
    /\ wpc = "run"
    /\ settled' = settled \cup {job}
    /\ wpc' = "clear"
    /\ UNCHANGED <<shared, noted, job, ppc, made, mine>>

ClearBusy ==
    /\ wpc = "clear"
    /\ busy' = 0
    /\ job' = 0
    /\ wpc' = "pop"
    /\ UNCHANGED <<ring, head, tail, count, noted, ppc, made, mine, settled>>

WriterStep == Wake \/ Pop \/ FoundEmpty \/ Run \/ ClearBusy

ProducerStep(p) ==
    \/ SubmitInline(p) \/ Submit(p) \/ Notify(p)
    \/ BeginDrain(p) \/ Drained(p)

Next ==
    \/ Start
    \/ WriterStep
    \/ \E p \in Producers : ProducerStep(p)

Spec == Init /\ [][Next]_vars

\* FreeRTOS shares the one core among tasks of equal priority: the writer
\* always gets to run, and so does a producer that owes a notification or
\* polls.  Nothing obliges a producer to submit or to drain.
Fairness ==
    /\ WF_vars(WriterStep)
    /\ \A p \in Producers : WF_vars(Notify(p)) /\ WF_vars(Drained(p))

FairSpec == Spec /\ Fairness

-----------------------------------------------------------------------------
(* Properties.                                                             *)

TypeOK ==
    /\ ring \in [Slots -> Nat]
    /\ head \in Slots
    /\ tail \in Slots
    /\ count \in 0 .. kMaxQueue
    /\ busy \in {0, 1}
    /\ noted \in {0, 1}
    /\ wpc \in {"absent", "sleep", "pop", "run", "clear"}
    /\ job \in Nat
    /\ ppc \in [Producers -> {"idle", "notify", "drain"}]
    /\ made \in Nat
    /\ mine \in [Producers -> Nat]
    /\ settled \subseteq Nat

\* The writer never sleeps on a job for which no notification is on its way,
\* although a job is pushed and announced in two steps and one wake-up may
\* stand for many announcements.
NoLostWakeup ==
    wpc = "sleep" /\ count > 0
        => noted = 1 \/ \E p \in Producers : ppc[p] = "notify"

\* AsyncWriter.h:41 "Block caller until queue empty AND any in-flight job has
\* completed": when drainBlocking returns, every job its caller has submitted,
\* and every older one, has been run or dropped, none is half way.
DrainSettles ==
    [][\A p \in Producers :
         ppc[p] = "drain" /\ ppc'[p] = "idle" => 1 .. mine[p] \subseteq settled]_vars

\* Nothing is forgotten and nothing runs twice: a job that was submitted is
\* settled, in the ring or in the writer's hands, and in one of these only.
OnePlace ==
    /\ settled \cup QueuedJobs \cup ({Running} \ {0}) = Jobs
    /\ settled \cap QueuedJobs = {}
    /\ Running \notin settled \cup QueuedJobs

\* The ring and its task are a queue that runs jobs in order and, when full,
\* drops its oldest; under the scheduler's fairness, one that always goes on.
Queue == INSTANCE JobQueue WITH
            Capacity <- kMaxQueue, queue <- Queued, running <- Running

ImplementsQueue == Queue!FairSpec

\* A task that drains comes back, once the others stop submitting.
DrainReturns ==
    \A p \in Producers : ppc[p] = "drain" ~> ppc[p] = "idle"

=============================================================================
