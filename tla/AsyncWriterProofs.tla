--------------------------- MODULE AsyncWriterProofs ---------------------------
(***************************************************************************)
(* AsyncWriter for any set of producers, any size of the ring and any      *)
(* number of jobs.  The key is RingInv: whatever was dropped, the ring     *)
(* holds the newest `count' jobs in a row, so that what it does with its   *)
(* indices is what a window sliding over the jobs 1, 2, ... does.          *)
(***************************************************************************)
EXTENDS AsyncWriter, SequenceTheorems, TLAPS

\* The slot of the i-th oldest job, without the modulus.
SlotOf(h, i) ==
    IF h + i - 1 < kMaxQueue THEN h + i - 1 ELSE h + i - 1 - kMaxQueue

\* The n jobs up to job m.
Window(n, m) == [i \in 1 .. n |-> m - n + i]

RingInv ==
    /\ tail = SlotOf(head, count + 1)
    /\ count <= made
    /\ \A i \in 1 .. count : ring[SlotOf(head, i)] = made - count + i

WriterInv ==
    /\ busy = 1 <=> wpc \in {"run", "clear"}
    /\ wpc = "absent" => count = 0
    /\ \A p \in Producers : mine[p] <= made

SettledInv ==
    IF wpc = "run"
      THEN job \in 1 .. made - count /\ settled = (1 .. made - count) \ {job}
      ELSE settled = 1 .. made - count

IInv == TypeOK /\ RingInv /\ WriterInv /\ SettledInv

-----------------------------------------------------------------------------
(* The modulus.                                                            *)

\* The successor of an index of the ring.
LEMMA WrapStep ==
    ASSUME NEW i \in Slots
    PROVE  /\ (i + 1) % kMaxQueue = IF i + 1 = kMaxQueue THEN 0 ELSE i + 1
           /\ (i + 1) % kMaxQueue \in Slots
BY QueueAssumption, SMT DEF Slots

\* An offset from an index of the ring wraps at most once.
LEMMA WrapOffset ==
    ASSUME NEW h \in Slots, NEW i \in 1 .. kMaxQueue
    PROVE  /\ (h + i - 1) % kMaxQueue = SlotOf(h, i)
           /\ SlotOf(h, i) \in Slots
<1>1. CASE h + i - 1 < kMaxQueue
  BY <1>1, QueueAssumption, SMT DEF Slots, SlotOf
<1>2. CASE h + i - 1 >= kMaxQueue
  BY <1>2, QueueAssumption, SMT DEF Slots, SlotOf
<1> QED
  BY <1>1, <1>2, QueueAssumption DEF Slots

\* Different offsets are different slots.
LEMMA SlotsDiffer ==
    ASSUME NEW h \in Slots, NEW i \in 1 .. kMaxQueue, NEW j \in 1 .. kMaxQueue, i # j
    PROVE  SlotOf(h, i) # SlotOf(h, j)
BY QueueAssumption DEF Slots, SlotOf

\* Moving the head on by one shifts the offsets by one.
LEMMA SlotShift ==
    ASSUME NEW h \in Slots, NEW i \in 1 .. kMaxQueue
    PROVE  SlotOf((h + 1) % kMaxQueue, i) = SlotOf(h, i + 1)
BY QueueAssumption, WrapStep DEF Slots, SlotOf

\* Under the invariant the ring shows the newest jobs, oldest first.
LEMMA QueuedIsWindow == IInv => Queued = Window(count, made)
<1> SUFFICES ASSUME IInv PROVE Queued = Window(count, made)
  OBVIOUS
<1>1. ASSUME NEW i \in 1 .. count
      PROVE  ring[(head + i - 1) % kMaxQueue] = made - count + i
  <2>1. head \in Slots /\ i \in 1 .. kMaxQueue
    BY <1>1, QueueAssumption DEF IInv, TypeOK
  <2>2. (head + i - 1) % kMaxQueue = SlotOf(head, i)
    BY <2>1, WrapOffset
  <2> QED
    BY <1>1, <2>2 DEF IInv, RingInv
<1> QED
  BY <1>1 DEF Queued, Window

-----------------------------------------------------------------------------
(* Type correctness and the ring, step by step.                            *)

\* Every variable keeps its type.
LEMMA TypeStep == TypeOK /\ [Next]_vars => TypeOK'
<1> SUFFICES ASSUME TypeOK, [Next]_vars PROVE TypeOK'
  OBVIOUS
<1> USE QueueAssumption DEF TypeOK
<1>1. CASE Start
  BY <1>1 DEF Start, shared
<1>2. ASSUME NEW p \in Producers, SubmitInline(p) PROVE TypeOK'
  BY <1>2 DEF SubmitInline, NewJob, shared, writer
<1>3. ASSUME NEW p \in Producers, Submit(p) PROVE TypeOK'
  <2>1. tail' \in Slots /\ head' \in Slots
    BY <1>3, WrapStep DEF Submit, Push
  <2>2. ring' \in [Slots -> Nat] /\ count' \in 0 .. kMaxQueue
    BY <1>3 DEF Submit, NewJob
  <2>3. settled' \subseteq Nat
    BY <1>3 DEF Submit
  <2>4. ppc' \in [Producers -> {"idle", "notify", "drain"}]
    BY <1>3 DEF Submit, Push
  <2> QED
    BY <1>3, <2>1, <2>2, <2>3, <2>4 DEF Submit, NewJob, Push, writer
<1>4. ASSUME NEW p \in Producers, Notify(p) PROVE TypeOK'
  BY <1>4 DEF Notify, shared
<1>5. ASSUME NEW p \in Producers, BeginDrain(p) PROVE TypeOK'
  BY <1>5 DEF BeginDrain, shared, writer
<1>6. ASSUME NEW p \in Producers, Drained(p) PROVE TypeOK'
  BY <1>6 DEF Drained, shared, writer
<1>7. CASE Wake
  BY <1>7 DEF Wake, shared
<1>8. CASE Pop
  <2>1. head' \in Slots
    BY <1>8, WrapStep DEF Pop
  <2>2. ring' \in [Slots -> Nat] /\ job' \in Nat /\ count' \in 0 .. kMaxQueue
    BY <1>8 DEF Pop
  <2> QED
    BY <1>8, <2>1, <2>2 DEF Pop
<1>9. CASE FoundEmpty
  BY <1>9 DEF FoundEmpty
<1>10. CASE Run
  BY <1>10 DEF Run, shared
<1>11. CASE ClearBusy
  BY <1>11 DEF ClearBusy
<1>12. CASE UNCHANGED vars
  BY <1>12 DEF vars, shared, writer
<1> QED
  BY <1>1, <1>2, <1>3, <1>4, <1>5, <1>6, <1>7, <1>8, <1>9, <1>10, <1>11, <1>12
     DEF Next, WriterStep, ProducerStep

\* The ring goes on holding the newest jobs in a row.
LEMMA RingStep == IInv /\ [Next]_vars => RingInv'
<1> SUFFICES ASSUME IInv, [Next]_vars PROVE RingInv'
  OBVIOUS
<1> USE QueueAssumption DEF IInv, TypeOK, RingInv
<1>1. ASSUME NEW p \in Producers, Submit(p), count < kMaxQueue PROVE RingInv'
  <2>1. /\ head' = head /\ count' = count + 1 /\ made' = made + 1
        /\ ring' = [ring EXCEPT ![tail] = made + 1]
        /\ tail' = (tail + 1) % kMaxQueue
    BY <1>1 DEF Submit, NewJob, Push
  <2>2. tail' = SlotOf(head', count' + 1)
    <3>1. tail' = IF tail + 1 = kMaxQueue THEN 0 ELSE tail + 1
      BY <2>1, WrapStep
    <3>2. tail = SlotOf(head, count + 1)
      OBVIOUS
    <3> QED
      BY <1>1, <2>1, <3>1, <3>2 DEF SlotOf, Slots
  <2>3. ASSUME NEW i \in 1 .. count' PROVE ring'[SlotOf(head', i)] = made' - count' + i
    <3>1. CASE i = count + 1
      BY <2>1, <3>1
    <3>2. CASE i \in 1 .. count
      <4>1. SlotOf(head, i) # tail
        BY <1>1, <3>2, SlotsDiffer
      <4>2. SlotOf(head, i) \in Slots
        BY <1>1, <3>2, WrapOffset
      <4> QED
        BY <2>1, <3>2, <4>1, <4>2
    <3> QED
      BY <2>1, <2>3, <3>1, <3>2
  <2> QED
    BY <2>1, <2>2, <2>3
<1>2. ASSUME NEW p \in Producers, Submit(p), count = kMaxQueue PROVE RingInv'
  <2>1. /\ head' = (head + 1) % kMaxQueue /\ count' = count /\ made' = made + 1
        /\ ring' = [ring EXCEPT ![tail] = made + 1]
        /\ tail' = (tail + 1) % kMaxQueue
    BY <1>2 DEF Submit, NewJob, Push
  <2>2. tail = head
    BY <1>2 DEF SlotOf, Slots
  <2>3. tail' = SlotOf(head', count' + 1)
    BY <1>2, <2>1, <2>2, WrapStep DEF SlotOf, Slots
  <2>4. ASSUME NEW i \in 1 .. count' PROVE ring'[SlotOf(head', i)] = made' - count' + i
    <3>1. SlotOf(head', i) = SlotOf(head, i + 1)
      BY <1>2, <2>1, <2>4, SlotShift
    <3>2. CASE i = count
      <4>1. SlotOf(head, i + 1) = tail
        BY <3>2
      <4> QED
        BY <2>1, <3>1, <3>2, <4>1
    <3>3. CASE i \in 1 .. count - 1
      <4>1. SlotOf(head, i + 1) # head
        BY <1>2, <3>3, SlotsDiffer DEF SlotOf, Slots
      <4>2. SlotOf(head, i + 1) \in Slots
        BY <1>2, <3>3, WrapOffset
      <4> QED
        BY <2>1, <2>2, <3>1, <3>3, <4>1, <4>2
    <3> QED
      BY <2>1, <2>4, <3>2, <3>3
  <2> QED
    BY <2>1, <2>3, <2>4
<1>3. CASE Pop
  <2>1. /\ head' = (head + 1) % kMaxQueue /\ count' = count - 1 /\ made' = made
        /\ ring' = [ring EXCEPT ![head] = 0] /\ tail' = tail /\ count > 0
    BY <1>3 DEF Pop
  <2>2. tail' = SlotOf(head', count' + 1)
    BY <2>1, SlotShift
  <2>3. ASSUME NEW i \in 1 .. count' PROVE ring'[SlotOf(head', i)] = made' - count' + i
    <3>1. SlotOf(head', i) = SlotOf(head, i + 1)
      BY <2>1, <2>3, SlotShift
    <3>2. SlotOf(head, i + 1) # head
      BY <2>1, <2>3, SlotsDiffer DEF SlotOf, Slots
    <3>3. SlotOf(head, i + 1) \in Slots
      BY <2>1, <2>3, WrapOffset
    <3> QED
      BY <2>1, <2>3, <3>1, <3>2, <3>3
  <2> QED
    BY <2>1, <2>2, <2>3
<1>4. ASSUME NEW p \in Producers, SubmitInline(p) PROVE RingInv'
  BY <1>4 DEF SubmitInline, NewJob, shared, writer, SlotOf, WriterInv
<1>5. CASE UNCHANGED <<ring, head, tail, count, made>>
  BY <1>5 DEF SlotOf
<1> QED
  <2>1. ASSUME NEW p \in Producers, Submit(p) PROVE count < kMaxQueue \/ count = kMaxQueue
    OBVIOUS
  <2> QED
    BY <1>1, <1>2, <1>3, <1>4, <1>5, <2>1
       DEF Next, WriterStep, ProducerStep, Start, Notify, BeginDrain, Drained,
           Wake, FoundEmpty, Run, ClearBusy, vars, shared, writer

\* busy_ says what the writer task is doing.
LEMMA WriterStepInv == IInv /\ [Next]_vars => WriterInv'
<1> SUFFICES ASSUME IInv, [Next]_vars PROVE WriterInv'
  OBVIOUS
<1> USE DEF IInv, TypeOK, WriterInv
<1>1. CASE Start
  BY <1>1 DEF Start, shared
<1>2. ASSUME NEW p \in Producers, SubmitInline(p) PROVE WriterInv'
  BY <1>2 DEF SubmitInline, NewJob, shared, writer
<1>3. ASSUME NEW p \in Producers, Submit(p) PROVE WriterInv'
  BY <1>3 DEF Submit, NewJob, Push, writer
<1>4. ASSUME NEW p \in Producers, Notify(p) PROVE WriterInv'
  BY <1>4 DEF Notify, shared
<1>5. ASSUME NEW p \in Producers, BeginDrain(p) \/ Drained(p) PROVE WriterInv'
  BY <1>5 DEF BeginDrain, Drained, shared, writer
<1>6. CASE WriterStep
  BY <1>6 DEF WriterStep, Wake, Pop, FoundEmpty, Run, ClearBusy, shared
<1>7. CASE UNCHANGED vars
  BY <1>7 DEF vars, shared, writer
<1> QED
  BY <1>1, <1>2, <1>3, <1>4, <1>5, <1>6, <1>7 DEF Next, ProducerStep

\* The jobs below the window are settled, but for the one that runs.
LEMMA SettledStep == IInv /\ [Next]_vars => SettledInv'
<1> SUFFICES ASSUME IInv, [Next]_vars PROVE SettledInv'
  OBVIOUS
<1> USE QueueAssumption DEF SettledInv
<1>0. /\ count \in Nat /\ made \in Nat /\ count <= made
      /\ count > 0 => ring[head] = made - count + 1
  <2>1. count > 0 => SlotOf(head, 1) = head
    BY DEF IInv, TypeOK, SlotOf, Slots
  <2> QED
    BY <2>1 DEF IInv, TypeOK, RingInv
<1>1. ASSUME NEW p \in Producers, SubmitInline(p) PROVE SettledInv'
  <2>1. count = 0 /\ settled = 1 .. made
    BY <1>0, <1>1 DEF SubmitInline, IInv, WriterInv
  <2> QED
    BY <1>0, <1>1, <2>1 DEF SubmitInline, NewJob, shared, writer
<1>2. ASSUME NEW p \in Producers, Submit(p) PROVE SettledInv'
  <2>1. CASE count = kMaxQueue
    <3>1. /\ settled' = settled \cup {made - count + 1} /\ count' = count
          /\ made' = made + 1 /\ job' = job /\ wpc' = wpc
      BY <1>0, <1>2, <2>1 DEF Submit, NewJob, Push, writer
    <3> QED
      BY <1>0, <3>1 DEF IInv
  <2>2. CASE count # kMaxQueue
    <3>1. /\ settled' = settled /\ count' = count + 1
          /\ made' = made + 1 /\ job' = job /\ wpc' = wpc
      BY <1>2, <2>2 DEF Submit, NewJob, Push, writer
    <3>2. made' - count' = made - count
      BY <1>0, <3>1
    <3> QED
      BY <3>1, <3>2 DEF IInv
  <2> QED
    BY <2>1, <2>2
<1>3. CASE Pop
  <2>1. /\ job' = made - count + 1 /\ count' = count - 1 /\ made' = made
        /\ settled' = settled /\ settled = 1 .. made - count /\ wpc' = "run"
    BY <1>0, <1>3 DEF Pop, IInv
  <2> QED
    BY <1>0, <2>1
<1>4. CASE Run
  <2>1. /\ wpc' = "clear" /\ settled' = settled \cup {job}
        /\ made' = made /\ count' = count /\ wpc = "run"
    BY <1>4 DEF Run, shared
  <2> QED
    BY <2>1 DEF IInv
<1>5. CASE Wake \/ FoundEmpty \/ ClearBusy \/ Start
  BY <1>5 DEF IInv, Wake, FoundEmpty, ClearBusy, Start, shared
<1>6. CASE UNCHANGED <<wpc, job, made, count, settled>>
  BY <1>6 DEF IInv
<1> QED
  BY <1>1, <1>2, <1>3, <1>4, <1>5, <1>6
     DEF Next, WriterStep, ProducerStep, Notify, BeginDrain, Drained, vars, shared, writer

\* The invariant of the whole: from it everything else follows.
THEOREM Inductive == Spec => []IInv
<1>1. Init => IInv
  <2> SUFFICES ASSUME Init PROVE IInv
    OBVIOUS
  <2> USE QueueAssumption DEF Init
  <2>1. TypeOK
    BY DEF TypeOK, Slots
  <2>2. RingInv
    BY DEF RingInv, SlotOf
  <2>3. WriterInv
    BY DEF WriterInv
  <2>4. SettledInv
    BY DEF SettledInv
  <2> QED
    BY <2>1, <2>2, <2>3, <2>4 DEF IInv
<1>2. IInv /\ [Next]_vars => IInv'
  BY TypeStep, RingStep, WriterStepInv, SettledStep DEF IInv
<1> QED
  BY <1>1, <1>2, PTL DEF Spec

-----------------------------------------------------------------------------
(* What the program relies on.                                             *)

\* Every variable of the writer always has its type: no index leaves the ring.
THEOREM TypeCorrect == Spec => []TypeOK
BY Inductive, PTL DEF IInv

\* No wake-up is lost: a job in the ring keeps the writer awake or is being
\* announced to it.
THEOREM Awake == Spec => []NoLostWakeup
<1>1. Init => NoLostWakeup
  BY DEF Init, NoLostWakeup
<1>2. IInv /\ NoLostWakeup /\ [Next]_vars => NoLostWakeup'
  <2> SUFFICES ASSUME IInv, NoLostWakeup, [Next]_vars PROVE NoLostWakeup'
    OBVIOUS
  <2> USE DEF NoLostWakeup, IInv, TypeOK, WriterInv
  <2>1. CASE Start
    BY <2>1 DEF Start, shared
  <2>2. ASSUME NEW p \in Producers, SubmitInline(p) PROVE NoLostWakeup'
    BY <2>2 DEF SubmitInline, shared, writer
  <2>3. ASSUME NEW p \in Producers, Submit(p) PROVE NoLostWakeup'
    <3>1. ppc'[p] = "notify"
      BY <2>3 DEF Submit, Push
    <3> QED
      BY <3>1
  <2>4. ASSUME NEW p \in Producers, Notify(p) PROVE NoLostWakeup'
    BY <2>4 DEF Notify
  <2>5. ASSUME NEW p \in Producers, BeginDrain(p) \/ Drained(p) PROVE NoLostWakeup'
    <3>1. ASSUME NEW q \in Producers, ppc[q] = "notify" PROVE ppc'[q] = "notify"
      BY <2>5, <3>1 DEF BeginDrain, Drained
    <3> QED
      BY <2>5, <3>1 DEF BeginDrain, Drained, shared, writer
  <2>6. CASE WriterStep
    BY <2>6 DEF WriterStep, Wake, Pop, FoundEmpty, Run, ClearBusy, shared
  <2>7. CASE UNCHANGED vars
    BY <2>7 DEF vars, shared, writer
  <2> QED
    BY <2>1, <2>2, <2>3, <2>4, <2>5, <2>6, <2>7 DEF Next, ProducerStep
<1> QED
  BY <1>1, <1>2, Inductive, PTL DEF Spec

\* Every job submitted is in exactly one place.
THEOREM NothingForgotten == Spec => []OnePlace
<1>1. IInv => OnePlace
  <2> SUFFICES ASSUME IInv PROVE OnePlace
    OBVIOUS
  <2>0. count \in Nat /\ made \in Nat /\ count <= made
    BY DEF IInv, TypeOK, RingInv
  <2>1. QueuedJobs = {made - count + i : i \in 1 .. count}
    BY QueuedIsWindow DEF QueuedJobs, Window
  <2>2. QueuedJobs = made - count + 1 .. made
    <3>1. ASSUME NEW k \in made - count + 1 .. made PROVE k \in QueuedJobs
      <4>1. k - (made - count) \in 1 .. count /\ k = made - count + (k - (made - count))
        BY <2>0
      <4> QED
        BY <2>1, <4>1
    <3>2. ASSUME NEW i \in 1 .. count PROVE made - count + i \in made - count + 1 .. made
      BY <2>0
    <3> QED
      BY <2>1, <3>1, <3>2
  <2>3. CASE wpc = "run"
    BY <2>0, <2>2, <2>3 DEF IInv, SettledInv, OnePlace, Running, Jobs
  <2>4. CASE wpc # "run"
    BY <2>0, <2>2, <2>4 DEF IInv, SettledInv, OnePlace, Running, Jobs
  <2> QED
    BY <2>3, <2>4
<1> QED
  BY <1>1, Inductive, PTL

\* When drainBlocking returns, all that its caller submitted is settled.
THEOREM DrainIsComplete == Spec => DrainSettles
<1>1. IInv /\ [Next]_vars
        => [\A p \in Producers :
              ppc[p] = "drain" /\ ppc'[p] = "idle" => 1 .. mine[p] \subseteq settled]_vars
  <2> SUFFICES ASSUME IInv, Next, NEW p \in Producers,
                      ppc[p] = "drain", ppc'[p] = "idle"
               PROVE  1 .. mine[p] \subseteq settled
    OBVIOUS
  <2>1. Drained(p)
    <3>1. ASSUME NEW q \in Producers, q # p, ProducerStep(q) PROVE ppc'[p] = ppc[p]
      BY <3>1 DEF ProducerStep, SubmitInline, Submit, NewJob, Push, Notify, BeginDrain,
                  Drained, IInv, TypeOK
    <3>2. CASE Start \/ WriterStep
      BY <3>2 DEF Start, WriterStep, Wake, Pop, FoundEmpty, Run, ClearBusy
    <3>3. CASE ProducerStep(p)
      BY <3>3 DEF ProducerStep, SubmitInline, Submit, NewJob, Notify, BeginDrain
    <3> QED
      BY <3>1, <3>2, <3>3 DEF Next
  <2>2. count = 0 /\ wpc # "run"
    BY <2>1 DEF Drained, IInv, WriterInv
  <2> QED
    BY <2>2 DEF IInv, TypeOK, SettledInv, WriterInv
<1> QED
  BY <1>1, Inductive, PTL DEF Spec, DrainSettles
-----------------------------------------------------------------------------
(* The ring implements the queue.                                          *)

\* A window is a sequence; it grows, and moves on, as the queue does.
LEMMA WindowIsSeq ==
    ASSUME NEW n \in Nat, NEW m \in Nat, n <= m
    PROVE  /\ Window(n, m) \in Seq(Nat)
           /\ Len(Window(n, m)) = n
BY DEF Window

LEMMA WindowAppend ==
    ASSUME NEW n \in Nat, NEW m \in Nat, n <= m
    PROVE  Window(n + 1, m + 1) = Append(Window(n, m), m + 1)
<1> DEFINE s == Window(n, m)
<1>1. s \in Seq(Nat) /\ Len(s) = n
  BY WindowIsSeq
<1>2. Append(s, m + 1) = [i \in 1 .. n + 1 |-> IF i = n + 1 THEN m + 1 ELSE s[i]]
  <2> HIDE DEF s
  <2>1. /\ Append(s, m + 1) \in Seq(Nat)
        /\ Len(Append(s, m + 1)) = n + 1
        /\ Append(s, m + 1)[n + 1] = m + 1
        /\ \A i \in 1 .. n : Append(s, m + 1)[i] = s[i]
    BY <1>1
  <2> DEFINE t == [i \in 1 .. n + 1 |-> IF i = n + 1 THEN m + 1 ELSE s[i]]
  <2>2. t \in Seq(Nat) /\ Len(t) = n + 1
    BY <1>1
  <2>3. \A i \in 1 .. n + 1 : Append(s, m + 1)[i] = t[i]
    BY <2>1
  <2> QED
    BY <2>1, <2>2, <2>3
<1>3. ASSUME NEW i \in 1 .. n + 1
      PROVE  (m + 1) - (n + 1) + i = IF i = n + 1 THEN m + 1 ELSE m - n + i
  OBVIOUS
<1> QED
  BY <1>2, <1>3 DEF Window

LEMMA WindowTail ==
    ASSUME NEW n \in Nat, NEW m \in Nat, n <= m, n > 0
    PROVE  /\ Window(n - 1, m) = Tail(Window(n, m))
           /\ Head(Window(n, m)) = m - n + 1
           /\ Window(n, m) # <<>>
<1> DEFINE s == Window(n, m)
<1>1. s \in Seq(Nat) /\ Len(s) = n
  BY WindowIsSeq
<1>2. Tail(s) = [i \in 1 .. n - 1 |-> s[i + 1]]
  <2> HIDE DEF s
  <2>1. /\ Tail(s) \in Seq(Nat)
        /\ Len(Tail(s)) = n - 1
        /\ \A i \in 1 .. n - 1 : Tail(s)[i] = s[i + 1]
    BY <1>1
  <2> DEFINE t == [i \in 1 .. n - 1 |-> s[i + 1]]
  <2>2. t \in Seq(Nat) /\ Len(t) = n - 1
    BY <1>1
  <2>3. \A i \in 1 .. n - 1 : Tail(s)[i] = t[i]
    BY <2>1
  <2> QED
    BY <2>1, <2>2, <2>3, SeqEqual
<1>3. ASSUME NEW i \in 1 .. n - 1 PROVE m - (n - 1) + i = m - n + (i + 1) /\ i + 1 \in 1 .. n
  OBVIOUS
<1>4. Head(s) = m - n + 1 /\ s # <<>>
  BY <1>1 DEF Window
<1> QED
  BY <1>2, <1>3, <1>4 DEF Window

\* Every step of the ring is a step of the queue, or none.
LEMMA QueueStep ==
    IInv /\ IInv' /\ [Next]_vars => [Queue!Next]_Queue!vars
<1> SUFFICES ASSUME IInv, IInv', [Next]_vars PROVE [Queue!Next]_Queue!vars
  OBVIOUS
<1> DEFINE n == count
           m == made
<1>0. /\ n \in Nat /\ m \in Nat /\ n <= m
      /\ Queued = Window(n, m)
  BY QueuedIsWindow DEF IInv, TypeOK, RingInv
<1>1. Queued' = Window(n', m')
  <2>1. (IInv => Queued = Window(count, made))'
    BY QueuedIsWindow, PTL
  <2> QED
    BY <2>1 DEF Window
<1>2. Len(Queued) = n
  BY <1>0, WindowIsSeq
<1>3. ASSUME NEW p \in Producers, Submit(p) PROVE Queue!Submit
  <2>1. m' = m + 1 /\ Running' = Running
    BY <1>3 DEF Submit, NewJob, Push, writer, Running
  <2>2. CASE count = kMaxQueue
    <3>1. n' = n /\ n > 0
      BY <1>3, <2>2, QueueAssumption DEF Submit
    <3>2. Tail(Queued) = Window(n - 1, m)
      BY <1>0, <3>1, WindowTail
    <3>3. Window(n - 1 + 1, m + 1) = Append(Window(n - 1, m), m + 1)
      <4> HIDE DEF n, m
      <4>1. n - 1 \in Nat /\ n - 1 <= m
        BY <1>0, <3>1
      <4> QED
        BY <1>0, <4>1, WindowAppend
    <3>4. Window(n', m') = Window(n - 1 + 1, m + 1)
      BY <1>0, <2>1, <3>1
    <3> QED
      BY <1>1, <1>2, <2>1, <2>2, <3>2, <3>3, <3>4 DEF Queue!Submit
  <2>3. CASE count # kMaxQueue
    <3>1. n' = n + 1 /\ n < kMaxQueue
      BY <1>3, <2>3, QueueAssumption DEF Submit, IInv, TypeOK
    <3>2. Window(n + 1, m + 1) = Append(Queued, m + 1)
      BY <1>0, WindowAppend
    <3> QED
      BY <1>1, <1>2, <2>1, <3>1, <3>2 DEF Queue!Submit
  <2> QED
    BY <2>2, <2>3
<1>4. ASSUME NEW p \in Producers, SubmitInline(p) PROVE Queue!RunInline
  <2>1. n = 0 /\ n' = n /\ m' = m + 1 /\ Running' = Running
    BY <1>4 DEF SubmitInline, NewJob, shared, writer, Running, IInv, WriterInv
  <2>2. Queued = <<>> /\ Queued' = <<>>
    BY <1>0, <1>1, <2>1 DEF Window
  <2> QED
    BY <2>1, <2>2 DEF Queue!RunInline
<1>5. CASE Pop
  <2>1. /\ n > 0 /\ n' = n - 1 /\ m' = m /\ Running = 0
        /\ Running' = ring[head]
    BY <1>5 DEF Pop, Running
  <2>2. ring[head] = m - n + 1
    <3>1. SlotOf(head, 1) = head
      BY QueueAssumption DEF IInv, TypeOK, SlotOf, Slots
    <3> QED
      BY <1>0, <2>1, <3>1 DEF IInv, RingInv
  <2>3. Window(n - 1, m) = Tail(Queued) /\ Head(Queued) = m - n + 1 /\ Queued # <<>>
    BY <1>0, <2>1, WindowTail
  <2>4. Queued' = Tail(Queued)
    BY <1>1, <2>1, <2>3
  <2>5. Running' = Head(Queued)
    BY <2>1, <2>2, <2>3
  <2> QED
    BY <2>1, <2>3, <2>4, <2>5 DEF Queue!Next, Queue!Start
<1>6. CASE Run
  <2>1. n' = n /\ m' = m /\ Running' = 0 /\ Running # 0
    BY <1>6 DEF Run, shared, Running, IInv, SettledInv, TypeOK
  <2>2. Queued' = Queued
    BY <1>0, <1>1, <2>1
  <2> QED
    BY <2>1, <2>2 DEF Queue!Next, Queue!Finish
<1>7. CASE UNCHANGED <<count, made>> /\ Running' = Running
  BY <1>0, <1>1, <1>7 DEF Queue!vars
<1>8. ASSUME NEW p \in Producers, Notify(p) \/ BeginDrain(p) \/ Drained(p)
      PROVE  UNCHANGED <<count, made>> /\ Running' = Running
  BY <1>8 DEF Notify, BeginDrain, Drained, shared, writer, Running
<1>9. CASE Start \/ Wake \/ FoundEmpty \/ ClearBusy \/ UNCHANGED vars
  <2>1. UNCHANGED <<count, made>> /\ Running' = Running
    BY <1>9 DEF Start, Wake, FoundEmpty, ClearBusy, vars, shared, writer, Running
  <2> QED
    BY <1>7, <2>1
<1> QED
  BY <1>3, <1>4, <1>5, <1>6, <1>7, <1>8, <1>9
     DEF Queue!Next, Next, WriterStep, ProducerStep

\* The safety part of ImplementsQueue: jobs run one at a time and in order, and
\* only the oldest of a full ring is dropped.
THEOREM Refinement == Spec => Queue!Spec
<1>1. Init => Queue!Init
  BY DEF Init, Queue!Init, Queued, Running
<1> QED
  BY <1>1, QueueStep, Inductive, PTL DEF Spec, Queue!Spec

=============================================================================
