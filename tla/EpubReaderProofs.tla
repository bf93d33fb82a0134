-------------------------- MODULE EpubReaderProofs --------------------------
(***************************************************************************)
(* EpubReader keeps its types, never loses the newest position on its way  *)
(* to the card, and closes a quiet book where it lies open.  The inductive *)
(* invariant says for each task what it can count on while the others run. *)
(* Its core is PipeInv: how many jobs stand behind the newest position in  *)
(* the ring of AsyncWriter, which drops its oldest when it is full.        *)
(***************************************************************************)
EXTENDS EpubReader, SequenceTheorems, TLAPS

\* The chapters of the book; spine may also be -1, after a skip back, and N, past
\* the end.
Chapters == 0 .. N - 1
Spots == Chapters \X Page
\* What AsyncWriter can hold.
Jobs == {Recents} \cup Position

\* The program counters and the flags.
ControlInv ==
    /\ mpc \in {"closed", "loop", "reset", "gate", "cross", "restore", "menu",
               "menuDrain", "menuLock", "toggleDrain", "toggleRead", "toggleLock",
               "reloadDrain", "reloadLock", "exit", "origin", "join", "exitDrain"}
    /\ rpc \in {"none", "sleep", "lay", "relay", "draw", "restart"}
    /\ note \in {0, 1}
    /\ resetPending \in BOOLEAN /\ recovery \in BOOLEAN /\ goHome \in BOOLEAN
    /\ failed \in BOOLEAN

\* A chapter that is laid out, or being so, is one that the book has.
SpineInv ==
    /\ spine \in Chapter
    /\ section # None \/ rpc \in {"lay", "relay", "draw"} => spine \in Chapters

SectionInv ==
    /\ nextPage \in Page
    /\ section # None => section \in [pages : Nat, page : Page, stale : Nat]

\* What the main loop holds from one step to a later one: a step to a neighbour
\* that exists, a place to return to, a place to save.
LocalInv ==
    /\ local # None => local \in Int \X Page
    /\ mpc = "cross" => /\ local \in {-1, 1} \X Page
                        /\ spine + local[1] \in Chapter
                        /\ spine < 0 => local[1] = 1
    /\ mpc = "restore" => local \in Spots
    /\ mpc = "toggleLock" => local \in Position

\* Only places in the text are ever pushed.
OriginInv ==
    /\ origin \in Seq(Spots)
    /\ Len(origin) <= MAX_FOOTNOTE_DEPTH

\* The tracker knows a position as long as the book is open.
TrackInv ==
    /\ obs # None => obs \in Position
    /\ saved # None => saved \in Position
    /\ mpc # "closed" => obs \in Position /\ saved \in Position

\* Nothing but positions and recent.json is ever queued.
WriterInv ==
    /\ queue \in Seq(Jobs)
    /\ Len(queue) <= kMaxQueue
    /\ running # None => running \in Jobs
    /\ file \in Spots

\* A closed book has nothing under way, and nobody draws behind the menu.
ClosedInv ==
    /\ mpc = "closed" => Idle
    /\ mpc \in {"closed", "menu", "exitDrain"} => rpc = "none"

\* The position that the tracker takes for saved, or another that lands on the
\* same place, is the last one on its way to the card, with at most slack jobs,
\* all of them recent.json, queued behind it; or it is there.
Covered(slack) ==
    \/ /\ \A i \in 1 .. Len(queue) : queue[i] = Recents
       /\ Clamp(saved) = IF running \in Position THEN Clamp(running) ELSE file
    \/ \E i \in 1 .. Len(queue) :
         /\ queue[i] \in Position /\ Clamp(queue[i]) = Clamp(saved)
         /\ \A j \in (i + 1) .. Len(queue) : queue[j] = Recents
         /\ Len(queue) - i <= slack
\* The main loop has flushed with a percentage for recent.json and will save no
\* position without another look at the queue.
Flushed == {"menuDrain", "toggleDrain", "reloadDrain", "origin", "join", "exitDrain"}
\* Each of the two tasks that flush adds at most one recent.json behind the
\* position.  This is what keeps the position in the ring: the next job may push
\* out the oldest of kMaxQueue, and that is never the newest position.
Slack == (IF mpc \in Flushed THEN 1 ELSE 0) + (IF rpc = "restart" THEN 1 ELSE 0)
PipeInv == mpc # "closed" /\ ~failed => Covered(Slack)

\* From a quiet exit to the closed book, the place to come back to is the one
\* that was saved last, and no frame moves it any more.
QuietInv ==
    aim # None =>
        /\ aim \in Spots
        /\ mpc \in {"origin", "join", "exitDrain", "closed"}
        /\ mpc # "closed" => LockFree /\ note = 0
        /\ mpc = "origin" => aim = IF origin # <<>> THEN origin[1] ELSE saved
        /\ mpc \in {"join", "exitDrain"} => aim = saved
        /\ mpc = "closed" /\ ~failed => file = aim

-----------------------------------------------------------------------------
\* PastEnd is the largest 16-bit number.  Its value is used nowhere else.
LEMMA SixteenBits == PastEnd \in Nat /\ 2^16 = PastEnd + 1 /\ Uint16 = 0 .. PastEnd
<1>1. PastEnd \in Nat /\ 2^16 = PastEnd + 1
      BY DEF PastEnd
<1>2. 2^16 - 1 = PastEnd
      BY <1>1
<1> QED BY <1>1, <1>2 DEF Uint16

\* A chapter of the book fits the 16 bits in which it is saved.
LEMMA ChaptersFit == Chapters \subseteq Uint16
BY SixteenBits, BookAssumption DEF Chapters

\* Places in the book are positions.
LEMMA SpotIsPosition == Spots \subseteq Position
BY ChaptersFit DEF Spots, Position

\* While there is a section, the place of the reader is in the book.
LEMMA HereIsSpot ==
    ASSUME SpineInv, SectionInv, section # None
    PROVE  Here \in Spots
BY DEF SpineInv, SectionInv, Here, Spots

\* Reading progress.bin back leaves a place in the book alone.
LEMMA ClampSpot ==
    ASSUME NEW pos \in Spots
    PROVE  Clamp(pos) = pos
BY BookAssumption DEF Clamp, Spots, Chapters

\* Whatever is saved, what is read back is in the book.
LEMMA ClampPosition ==
    ASSUME NEW pos \in Position
    PROVE  Clamp(pos) \in Spots
BY BookAssumption, SixteenBits DEF Clamp, Spots, Chapters, Position, Page

\* The rewrite of the recents and the mark of no job are no positions.
LEMMA TokensApart == Recents \notin Position /\ None \notin Position
<1>1. Position \subseteq Int \X Int
      BY SixteenBits DEF Position, Page
<1> QED BY <1>1, TokenAssumption

\* The ends of a nonempty stack, and the stack without its last element.
LEMMA Popped ==
    ASSUME NEW s \in Seq(Spots), s # <<>>, Len(s) <= MAX_FOOTNOTE_DEPTH
    PROVE  /\ s[1] \in Spots /\ s[Len(s)] \in Spots
           /\ SubSeq(s, 1, Len(s) - 1) \in Seq(Spots)
           /\ Len(SubSeq(s, 1, Len(s) - 1)) <= MAX_FOOTNOTE_DEPTH
BY BoundAssumption

\* A footnote's origin is a place in the book, and there is room for it.
LEMMA Pushed ==
    ASSUME OriginInv, SpineInv, SectionInv
    PROVE  PushOrigin \in Seq(Spots) /\ Len(PushOrigin) <= MAX_FOOTNOTE_DEPTH
BY HereIsSpot, BoundAssumption DEF OriginInv, PushOrigin

\* AsyncWriter::submit of up to two jobs: they are the last in the queue, and the
\* oldest go only when the ring is full.
LEMMA Enqueued ==
    ASSUME WriterInv, NEW jobs \in Seq(Jobs), Len(jobs) <= 2, Enqueue(jobs)
    PROVE  /\ queue' \in Seq(Jobs) /\ Len(queue') <= kMaxQueue
           /\ \E over \in 0 .. 2 :
                /\ over # 0 => Len(queue') = kMaxQueue
                /\ Len(queue') = Len(queue) + Len(jobs) - over
                /\ \A i \in 1 .. Len(queue') :
                     queue'[i] = IF i + over <= Len(queue) THEN queue[i + over]
                                 ELSE jobs[i + over - Len(queue)]
<1> DEFINE all == queue \o jobs
           cut == IF Len(all) > kMaxQueue THEN Len(all) - kMaxQueue ELSE 0
<1>1. all \in Seq(Jobs) /\ Len(all) = Len(queue) + Len(jobs)
      BY DEF WriterInv
<1>2. \A i \in 1 .. Len(all) :
        all[i] = IF i <= Len(queue) THEN queue[i] ELSE jobs[i - Len(queue)]
      BY DEF WriterInv
<1>3. cut \in 0 .. 2 /\ cut <= Len(all)
      BY <1>1, BoundAssumption DEF WriterInv
<1>4. queue' = SubSeq(all, cut + 1, Len(all))
      BY DEF Enqueue
<1> HIDE DEF all, cut
<1>5. /\ queue' \in Seq(Jobs) /\ Len(queue') = Len(all) - cut
      /\ \A i \in 1 .. Len(queue') : queue'[i] = all[i + cut]
  <2>1. Len(all) \in Nat /\ cut \in Nat
        BY <1>1, <1>3
  <2>2. Len(queue') = Len(all) - cut
        BY <1>1, <1>3, <1>4, <2>1
  <2>3. \A i \in 1 .. Len(queue') : queue'[i] = all[i + cut]
        BY <1>1, <1>3, <1>4, <2>1, <2>2
  <2>4. \A i \in (cut + 1) .. Len(all) : all[i] \in Jobs
        BY <1>1, <2>1
  <2>5. queue' \in Seq(Jobs)
        BY <1>1, <1>3, <1>4, <2>1, <2>4
  <2> QED BY <2>2, <2>3, <2>5
<1>6. cut # 0 => Len(queue') = kMaxQueue
      BY <1>1, <1>5, BoundAssumption DEF cut, WriterInv
<1>7. Len(queue') <= kMaxQueue
      BY <1>1, <1>5, BoundAssumption DEF cut, WriterInv
<1>8. \A i \in 1 .. Len(queue') :
        queue'[i] = IF i + cut <= Len(queue) THEN queue[i + cut]
                    ELSE jobs[i + cut - Len(queue)]
      BY <1>1, <1>2, <1>3, <1>5 DEF WriterInv
<1>9. Len(queue') = Len(queue) + Len(jobs) - cut
      BY <1>1, <1>3, <1>5 DEF WriterInv
<1> QED BY <1>3, <1>5, <1>6, <1>7, <1>8, <1>9, Zenon

\* Two submissions of a flush as one sequence of jobs.
LEMMA Pair ==
    ASSUME NEW a, NEW b
    PROVE  <<a>> \o <<b>> = <<a, b>>
<1>1. /\ <<a>> \o <<b>> \in Seq({a, b}) /\ <<a, b>> \in Seq({a, b})
      /\ Len(<<a>> \o <<b>>) = 2 /\ Len(<<a, b>>) = 2
      OBVIOUS
<1>2. (<<a>> \o <<b>>)[1] = a /\ (<<a>> \o <<b>>)[2] = b
      OBVIOUS
<1>3. \A i \in 1 .. 2 : (<<a>> \o <<b>>)[i] = <<a, b>>[i]
      BY <1>2
<1> QED BY <1>1, <1>3, SeqEqual

\* What a flush submits: the position unless it was saved last, then perhaps
\* recent.json.
LEMMA FlushQueues ==
    ASSUME NEW pos \in Position, Flush(pos)
    PROVE  /\ obs' = pos /\ saved' = pos
           /\ \E jobs \in Seq(Jobs) :
                /\ Enqueue(jobs) /\ Len(jobs) <= 2
                /\ \/ pos = saved /\ jobs \in {<<>>, <<Recents>>}
                   \/ jobs \in {<<pos>>, <<pos, Recents>>}
<1>1. obs' = pos /\ saved' = pos
      BY DEF Flush
<1>2. PICK percent \in {<<>>, <<Recents>>} :
        Enqueue((IF pos = saved THEN <<>> ELSE <<pos>>) \o percent)
      BY DEF Flush
<1> DEFINE jobs == (IF pos = saved THEN <<>> ELSE <<pos>>) \o percent
<1>3. \/ pos = saved /\ jobs \in {<<>>, <<Recents>>}
      \/ jobs \in {<<pos>>, <<pos, Recents>>}
  <2>1. CASE pos = saved /\ percent = <<>>
        BY <2>1
  <2>2. CASE pos = saved /\ percent = <<Recents>>
        BY <2>2
  <2>3. CASE pos # saved /\ percent = <<>>
        BY <2>3
  <2>4. CASE pos # saved /\ percent = <<Recents>>
        BY <2>4, Pair
  <2> QED BY <1>2, <2>1, <2>2, <2>3, <2>4
<1>4. Enqueue(jobs)
      BY <1>2
<1> HIDE DEF jobs
<1>5. jobs \in Seq(Jobs) /\ Len(jobs) <= 2
  <2>1. CASE jobs = <<>>
        BY <2>1
  <2>2. CASE jobs = <<Recents>>
        BY <2>2 DEF Jobs
  <2>3. CASE jobs = <<pos>>
        BY <2>3 DEF Jobs
  <2>4. CASE jobs = <<pos, Recents>>
        BY <2>4 DEF Jobs
  <2> QED BY <1>3, <2>1, <2>2, <2>3, <2>4
<1> QED BY <1>1, <1>3, <1>5, <1>4

\* A flush adds at most one job behind the position.  With at most one there before,
\* the ring of three keeps it.
LEMMA FlushCovers ==
    ASSUME WriterInv, NEW pos \in Position, Flush(pos), UNCHANGED <<running, file>>,
           NEW slack \in 0 .. 1, Covered(slack)
    PROVE  Covered(slack + 1)'
<1>1. PICK jobs \in Seq(Jobs) :
        /\ Enqueue(jobs) /\ Len(jobs) <= 2
        /\ \/ pos = saved /\ jobs \in {<<>>, <<Recents>>}
           \/ jobs \in {<<pos>>, <<pos, Recents>>}
      BY FlushQueues
<1>2. saved' = pos
      BY FlushQueues
<1>3. PICK over \in 0 .. 2 :
        /\ over # 0 => Len(queue') = kMaxQueue
        /\ Len(queue') = Len(queue) + Len(jobs) - over
        /\ \A i \in 1 .. Len(queue') :
             queue'[i] = IF i + over <= Len(queue) THEN queue[i + over]
                         ELSE jobs[i + over - Len(queue)]
      BY <1>1, Enqueued
<1>4. Len(queue') \in Nat /\ Len(queue) \in Nat /\ Len(queue) <= kMaxQueue
      BY <1>1, Enqueued DEF WriterInv
<1>5. (Covered(slack + 1))' <=>
        \/ /\ \A i \in 1 .. Len(queue') : queue'[i] = Recents
           /\ Clamp(pos) = IF running \in Position THEN Clamp(running) ELSE file
        \/ \E i \in 1 .. Len(queue') :
             /\ queue'[i] \in Position /\ Clamp(queue'[i]) = Clamp(pos)
             /\ \A j \in (i + 1) .. Len(queue') : queue'[j] = Recents
             /\ Len(queue') - i <= slack + 1
      BY <1>2 DEF Covered
<1>6. CASE jobs = <<pos>>
  <2>1. Len(queue') >= 1 /\ queue'[Len(queue')] = pos
        BY <1>3, <1>4, <1>6, BoundAssumption
  <2> QED BY <1>4, <1>5, <2>1
<1>7. CASE jobs = <<pos, Recents>>
  <2>1. /\ Len(jobs) = 2 /\ jobs[1] = pos /\ jobs[2] = Recents
        BY <1>7
  <2>2. Len(queue') >= 2 /\ Len(queue') + over = Len(queue) + 2
        BY <1>3, <1>4, <2>1, BoundAssumption
  <2>3. queue'[Len(queue') - 1] = pos /\ queue'[Len(queue')] = Recents
        BY <1>3, <1>4, <2>1, <2>2, SMTT(20)
  <2> QED BY <1>4, <1>5, <2>2, <2>3
<1>8. CASE pos = saved /\ jobs = <<>>
  <2>1. over = 0 /\ Len(queue') = Len(queue) /\ \A i \in 1 .. Len(queue) : queue'[i] = queue[i]
        BY <1>3, <1>4, <1>8, BoundAssumption
  <2> QED BY <1>4, <1>5, <1>8, <2>1 DEF Covered
<1>9. CASE pos = saved /\ jobs = <<Recents>>
  <2>1. over \in 0 .. 1 /\ Len(queue') = Len(queue) + 1 - over
        BY <1>3, <1>4, <1>9, BoundAssumption
  <2>2. \A i \in 1 .. Len(queue') :
          queue'[i] = IF i + over <= Len(queue) THEN queue[i + over] ELSE Recents
        BY <1>3, <1>4, <1>9, <2>1
  <2>3. CASE /\ \A i \in 1 .. Len(queue) : queue[i] = Recents
             /\ Clamp(saved) = IF running \in Position THEN Clamp(running) ELSE file
        BY <1>4, <1>5, <1>9, <2>1, <2>2, <2>3
  <2>4. ASSUME NEW i \in 1 .. Len(queue),
               queue[i] \in Position, Clamp(queue[i]) = Clamp(saved),
               \A j \in (i + 1) .. Len(queue) : queue[j] = Recents,
               Len(queue) - i <= slack
        PROVE  Covered(slack + 1)'
    <3>1. i - over \in 1 .. Len(queue') /\ queue'[i - over] = queue[i]
          BY <1>3, <1>4, <2>1, <2>2, <2>4, BoundAssumption
    <3>2. \A j \in (i - over + 1) .. Len(queue') : queue'[j] = Recents
          BY <1>4, <2>1, <2>2, <2>4
    <3>3. Len(queue') - (i - over) <= slack + 1
          BY <1>4, <2>1, <2>4
    <3> QED BY <1>5, <1>9, <2>4, <3>1, <3>2, <3>3
  <2> QED BY <2>3, <2>4 DEF Covered
<1> QED BY <1>1, <1>6, <1>7, <1>8, <1>9

\* A forced save queues its position last, whatever was there before.
LEMMA SaveCovers ==
    ASSUME WriterInv, NEW pos \in Position, SaveProgress(pos), NEW slack \in Nat
    PROVE  Covered(slack)'
<1>1. <<pos>> \in Seq(Jobs) /\ Len(<<pos>>) = 1 /\ <<pos>>[1] = pos
      BY DEF Jobs
<1>2. Enqueue(<<pos>>) /\ saved' = pos
      BY DEF SaveProgress
<1> DEFINE jobs == <<pos>>
<1> HIDE DEF jobs
<1>3. /\ jobs \in Seq(Jobs) /\ Len(jobs) = 1 /\ Len(jobs) <= 2
      /\ jobs[1] = pos /\ Enqueue(jobs)
      BY <1>1, <1>2 DEF jobs
<1>4. PICK over \in 0 .. 2 :
        /\ over # 0 => Len(queue') = kMaxQueue
        /\ Len(queue') = Len(queue) + Len(jobs) - over
        /\ \A i \in 1 .. Len(queue') :
             queue'[i] = IF i + over <= Len(queue) THEN queue[i + over]
                         ELSE jobs[i + over - Len(queue)]
      BY <1>3, Enqueued
<1>5. Len(queue') \in Nat /\ Len(queue) \in Nat
      BY <1>3, Enqueued DEF WriterInv
<1>6. Len(queue') >= 1 /\ queue'[Len(queue')] = pos
      BY <1>4, <1>5, <1>3, BoundAssumption
<1> QED BY <1>2, <1>5, <1>6 DEF Covered

\* A position covered with few jobs behind it is covered with more allowed.
LEMMA KeepsCovered ==
    ASSUME UNCHANGED <<saved, queue, running, file>>, WriterInv,
           NEW few \in Nat, NEW more \in Nat, few <= more, Covered(few)
    PROVE  Covered(more)'
BY DEF Covered, WriterInv

\* The writer takes the oldest job.
LEMMA StartCovers ==
    ASSUME WriterInv, StartJob, NEW slack \in Nat, Covered(slack)
    PROVE  Covered(slack)'
<1>1. /\ queue # <<>> /\ running = None /\ running' = queue[1]
      /\ Len(queue') = Len(queue) - 1
      /\ \A i \in 1 .. Len(queue') : queue'[i] = queue[i + 1]
      /\ saved' = saved /\ file' = file
      BY DEF StartJob, WriterInv, tracker
<1>2. Len(queue) \in Nat
      BY DEF WriterInv
<1>3. CASE /\ \A i \in 1 .. Len(queue) : queue[i] = Recents
           /\ Clamp(saved) = IF running \in Position THEN Clamp(running) ELSE file
      BY <1>1, <1>2, <1>3, TokensApart DEF Covered, WriterInv
<1>4. ASSUME NEW i \in 1 .. Len(queue),
             queue[i] \in Position, Clamp(queue[i]) = Clamp(saved),
             \A j \in (i + 1) .. Len(queue) : queue[j] = Recents,
             Len(queue) - i <= slack
      PROVE  Covered(slack)'
  <2>1. CASE i = 1
    <3>1. \A j \in 1 .. Len(queue') : queue'[j] = Recents
          BY <1>1, <1>2, <1>4, <2>1
    <3> QED BY <1>1, <1>4, <2>1, <3>1 DEF Covered
  <2>2. CASE i > 1
    <3>1. i - 1 \in 1 .. Len(queue') /\ queue'[i - 1] = queue[i]
          BY <1>1, <1>2, <2>2
    <3>2. \A j \in i .. Len(queue') : queue'[j] = Recents
          BY <1>1, <1>2, <1>4
    <3>3. Len(queue') - (i - 1) <= slack
          BY <1>1, <1>2, <1>4
    <3> QED BY <1>1, <1>4, <3>1, <3>2, <3>3 DEF Covered
  <2> QED BY <2>1, <2>2
<1> QED BY <1>3, <1>4 DEF Covered

\* A job that succeeds leaves its position on the card.
LEMMA FinishCovers ==
    ASSUME WriterInv, FinishJob, ~failed', NEW slack \in Nat, Covered(slack)
    PROVE  Covered(slack)'
<1>1. /\ running # None /\ running' = None /\ queue' = queue /\ saved' = saved
      /\ IF running = Recents THEN file' = file ELSE file' = Clamp(running)
      BY DEF FinishJob, tracker
<1>2. CASE running = Recents
      BY <1>1, <1>2, TokensApart DEF Covered
<1>3. CASE running # Recents
  <2>1. running \in Position
        BY <1>1, <1>3 DEF WriterInv, Jobs
  <2> QED BY <1>1, <1>3, <2>1, TokensApart DEF Covered
<1> QED BY <1>2, <1>3

-----------------------------------------------------------------------------
\* What a flush leaves in the tracker and the ring.
LEMMA FlushTypes ==
    ASSUME WriterInv, NEW pos \in Position, Flush(pos)
    PROVE  /\ obs' = pos /\ saved' = pos
           /\ queue' \in Seq(Jobs) /\ Len(queue') <= kMaxQueue
BY FlushQueues, Enqueued

\* What saving a place leaves in the tracker and the ring.
LEMMA SaveTypes ==
    ASSUME WriterInv, NEW pos \in Position, SaveProgress(pos)
    PROVE  /\ obs' = pos /\ saved' = pos
           /\ queue' \in Seq(Jobs) /\ Len(queue') <= kMaxQueue
<1>1. <<pos>> \in Seq(Jobs) /\ Len(<<pos>>) <= 2
      BY DEF Jobs
<1> QED BY <1>1, Enqueued DEF SaveProgress

\* What queueing the recents leaves in the ring.
LEMMA RecentsTypes ==
    ASSUME WriterInv, Enqueue(<<Recents>>)
    PROVE  queue' \in Seq(Jobs) /\ Len(queue') <= kMaxQueue
<1>1. <<Recents>> \in Seq(Jobs) /\ Len(<<Recents>>) <= 2
      BY DEF Jobs
<1> QED BY <1>1, Enqueued

\* A page turn keeps the type of the section.
LEMMA PageMoved ==
    ASSUME SectionInv, section # None, NEW page \in Page
    PROVE  [section EXCEPT !.page = page] \in [pages : Nat, page : Page, stale : Nat]
BY DEF SectionInv

\* A key for the previous page stays in the section or steps one chapter back.
LEMMA PagePrevGoes ==
    ASSUME PagePrev
    PROVE  /\ spine' = spine
           /\ \/ local' = local /\ mpc' = "loop"
              \/ spine > 0 /\ local' = <<-1, PastEnd>> /\ mpc' = "cross"
BY DEF PagePrev, TurnTo, LeaveSection, StayOnPage

\* Where the main loop goes on after a drain.
LEMMA DrainedGoesOn ==
    ASSUME Drained
    PROVE  \/ mpc = "menuDrain" /\ mpc' = "menuLock"
           \/ mpc = "toggleDrain" /\ mpc' = "toggleRead"
           \/ mpc = "reloadDrain" /\ mpc' = "reloadLock"
BY DEF Drained, AfterDrain

-----------------------------------------------------------------------------
\* Every step keeps each part of the invariant.  The parts lean on one another in
\* one order only: control, then the place, then the tracker and the writer, then
\* the pipeline, then the quiet close.
LEMMA ControlStep ==
    ASSUME ControlInv, [Next]_vars
    PROVE  ControlInv'
<1> USE DEF ControlInv, place, flags, tracker, writer
<1>1. CASE Open
      BY <1>1 DEF Open
<1>2. CASE Sleep
      BY <1>2 DEF Sleep
<1>3. CASE MenuBack
      BY <1>3 DEF MenuBack, LeaveMenu, Asleep
<1>4. CASE MenuRotate
      BY <1>4 DEF MenuRotate, LeaveMenu, Asleep, Rotated
<1>5. CASE MenuReload
      BY <1>5 DEF MenuReload, Asleep, FlushThen, Flush, Rotated, LaidOut
<1>6. ASSUME NEW c \in 0 .. N - 1, JumpToChapter(c) PROVE ControlInv'
      BY <1>6 DEF JumpToChapter, LeaveMenu, Asleep, Goto
<1>7. ASSUME NEW c \in 0 .. N - 1, FollowFootnote(c) PROVE ControlInv'
      BY <1>7 DEF FollowFootnote, LeaveMenu, Asleep, Goto, PushOrigin
<1>8. ASSUME NEW c \in 0 .. N - 1, NEW p \in 0 .. Pages[c] - 1,
             JumpToPage(<<c, p>>)
      PROVE  ControlInv'
      BY <1>8 DEF JumpToPage, LeaveMenu, Asleep, Goto
<1>9. ASSUME NEW c \in 0 .. N - 1, NEW p \in 0 .. Pages[c] - 1,
             JumpToBookmark(<<c, p>>)
      PROVE  ControlInv'
      BY <1>9 DEF JumpToBookmark, LeaveMenu, Asleep, Goto, PushOrigin
<1>10. CASE FootnoteUnresolved
      BY <1>10 DEF FootnoteUnresolved, LeaveMenu, Asleep, PushOrigin
<1>11. CASE LoopTop
      BY <1>11 DEF LoopTop, Observe, LaidOut
<1>12. CASE DeferredReset
      BY <1>12 DEF DeferredReset
<1>13. CASE RecoveryInput
      BY <1>13 DEF RecoveryInput
<1>14. CASE NoInput
      BY <1>14 DEF NoInput, Ready
<1>15. CASE GoHome
      BY <1>15 DEF GoHome, Ready, AtEndOfBook
<1>16. CASE AskAgain
      BY <1>16 DEF AskAgain, Ready, Event, AtEndOfBook
<1>17. CASE EndOfBookStay
      BY <1>17 DEF EndOfBookStay, Ready, Event, AtEndOfBook
<1>18. CASE PagePrev
      BY <1>18 DEF PagePrev, Ready, Event, AtEndOfBook, TurnTo, LeaveSection,
                   StayOnPage
<1>19. CASE PageNext
      BY <1>19 DEF PageNext, Ready, Event, AtEndOfBook, TurnTo, LeaveSection
<1>20. CASE SkipChapter
      BY <1>20 DEF SkipChapter, Ready, Event, AtEndOfBook, LeaveSection
<1>21. CASE RestoreFootnote
      BY <1>21 DEF RestoreFootnote, Ready
<1>22. CASE ToggleTextRenderMode
      BY <1>22 DEF ToggleTextRenderMode, Ready, Event, FlushThen, Flush, LaidOut
<1>23. CASE OpenMenu
      BY <1>23 DEF OpenMenu, Ready, Event, FlushThen, Flush, LaidOut
<1>24. CASE Cross
      BY <1>24 DEF Cross, DropSection, LockFree
<1>25. CASE Restored
      BY <1>25 DEF Restored, DropSection, LockFree
<1>26. CASE ToggleRead
      BY <1>26 DEF ToggleRead, LaidOut
<1>27. CASE ToggleApply
      BY <1>27 DEF ToggleApply, DropSection, LockFree, SaveProgress
<1>28. CASE Drained
      BY <1>28 DEF Drained, AfterDrain, Idle
<1>29. CASE EnterMenu
      BY <1>29 DEF EnterMenu, LockFree
<1>30. CASE MenuTick
      BY <1>30 DEF MenuTick, Observe, LaidOut
<1>31. CASE ReloadApply
      BY <1>31 DEF ReloadApply, DropSection, LockFree, SaveProgress
<1>32. CASE Exit
      BY <1>32 DEF Exit, FlushThen, Flush, LaidOut, Settled, LockFree
<1>33. CASE SaveOrigin
      BY <1>33 DEF SaveOrigin, SaveProgress
<1>34. CASE Join
      BY <1>34 DEF Join, LockFree
<1>35. CASE Close
      BY <1>35 DEF Close, Idle, Gone
<1>36. CASE RenderStart
      BY <1>36 DEF RenderStart
<1>37. CASE LayPage
      BY <1>37 DEF LayPage
<1>38. CASE LayAgain
      BY <1>38 DEF LayAgain, Event
<1>39. CASE LayFails
      BY <1>39 DEF LayFails
<1>40. CASE LayDone
      BY <1>40 DEF LayDone
<1>41. CASE NoMemoryForSection
      BY <1>41 DEF NoMemoryForSection, Event
<1>42. CASE GiveUp
      BY <1>42 DEF GiveUp, HeapTooSmall, LaidOut
<1>43. CASE PersistBeforeRestart
      BY <1>43 DEF PersistBeforeRestart, HeapTooSmall, LaidOut, Flush
<1>44. CASE Restart
      BY <1>44 DEF Restart, Idle, Reboot, Gone
<1>45. CASE DrawEmptyChapter
      BY <1>45 DEF DrawEmptyChapter
<1>46. CASE DrawPage
      BY <1>46 DEF DrawPage, LaidOut, InChapter
<1>47. CASE DrawFails
      BY <1>47 DEF DrawFails, Event, LaidOut, InChapter
<1>48. CASE Panic
      BY <1>48 DEF Panic, Reboot, Gone
<1>49. CASE StartJob
      BY <1>49 DEF StartJob
<1>50. CASE FinishJob
      BY <1>50, ZenonT(40) DEF FinishJob, Event
<1>51. CASE UNCHANGED vars
      BY <1>51 DEF vars
<1> QED BY <1>1, <1>2, <1>3, <1>4, <1>5, <1>6, <1>7, <1>8, <1>9, <1>10, <1>11,
           <1>12, <1>13, <1>14, <1>15, <1>16, <1>17, <1>18, <1>19, <1>20, <1>21,
           <1>22, <1>23, <1>24, <1>25, <1>26, <1>27, <1>28, <1>29, <1>30, <1>31,
           <1>32, <1>33, <1>34, <1>35, <1>36, <1>37, <1>38, <1>39, <1>40, <1>41,
           <1>42, <1>43, <1>44, <1>45, <1>46, <1>47, <1>48, <1>49, <1>50, <1>51
      DEF Next, UserStep, MainStep, RenderStep, WriterStep

\* Each part of the invariant, over every step: the chapter.
LEMMA SpineStep ==
    ASSUME SpineInv, LocalInv, WriterInv, ClosedInv, [Next]_vars
    PROVE  SpineInv'
<1> USE BookAssumption DEF SpineInv, LocalInv, WriterInv, ClosedInv, Chapter,
                           Chapters, Spots, place, flags, tracker, writer
<1>1. CASE Open
      BY <1>1 DEF Open
<1>2. CASE Sleep
      BY <1>2 DEF Sleep
<1>3. CASE MenuBack
      BY <1>3 DEF MenuBack, LeaveMenu, Asleep
<1>4. CASE MenuRotate
      BY <1>4 DEF MenuRotate, LeaveMenu, Asleep, Rotated
<1>5. CASE MenuReload
      BY <1>5 DEF MenuReload, Asleep, FlushThen, Flush, Rotated, LaidOut
<1>6. ASSUME NEW c \in 0 .. N - 1, JumpToChapter(c) PROVE SpineInv'
      BY <1>6 DEF JumpToChapter, LeaveMenu, Asleep, Goto
<1>7. ASSUME NEW c \in 0 .. N - 1, FollowFootnote(c) PROVE SpineInv'
      BY <1>7 DEF FollowFootnote, LeaveMenu, Asleep, Goto, PushOrigin
<1>8. ASSUME NEW c \in 0 .. N - 1, NEW p \in 0 .. Pages[c] - 1,
             JumpToPage(<<c, p>>)
      PROVE  SpineInv'
      BY <1>8 DEF JumpToPage, LeaveMenu, Asleep, Goto
<1>9. ASSUME NEW c \in 0 .. N - 1, NEW p \in 0 .. Pages[c] - 1,
             JumpToBookmark(<<c, p>>)
      PROVE  SpineInv'
  <2>1. \/ spine' = c /\ section' = None
        \/ spine' = spine /\ section' = section
        BY <1>9 DEF JumpToBookmark, Goto
  <2>2. rpc' = "sleep"
        BY <1>9 DEF JumpToBookmark, LeaveMenu, Asleep
  <2> QED BY <2>1, <2>2, SMTT(20)
<1>10. CASE FootnoteUnresolved
      BY <1>10 DEF FootnoteUnresolved, LeaveMenu, Asleep, PushOrigin
<1>11. CASE LoopTop
      BY <1>11 DEF LoopTop, Observe, LaidOut
<1>12. CASE DeferredReset
      BY <1>12 DEF DeferredReset
<1>13. CASE RecoveryInput
      BY <1>13 DEF RecoveryInput
<1>14. CASE NoInput
      BY <1>14 DEF NoInput, Ready
<1>15. CASE GoHome
      BY <1>15 DEF GoHome, Ready, AtEndOfBook
<1>16. CASE AskAgain
      BY <1>16 DEF AskAgain, Ready, Event, AtEndOfBook
<1>17. CASE EndOfBookStay
      BY <1>17 DEF EndOfBookStay, Ready, Event, AtEndOfBook
<1>18. CASE PagePrev
      BY <1>18 DEF PagePrev, Ready, Event, AtEndOfBook, TurnTo, LeaveSection,
                   StayOnPage
<1>19. CASE PageNext
      BY <1>19 DEF PageNext, Ready, Event, AtEndOfBook, TurnTo, LeaveSection
<1>20. CASE SkipChapter
      BY <1>20 DEF SkipChapter, Ready, Event, AtEndOfBook, LeaveSection
<1>21. CASE RestoreFootnote
      BY <1>21 DEF RestoreFootnote, Ready
<1>22. CASE ToggleTextRenderMode
      BY <1>22 DEF ToggleTextRenderMode, Ready, Event, FlushThen, Flush, LaidOut
<1>23. CASE OpenMenu
      BY <1>23 DEF OpenMenu, Ready, Event, FlushThen, Flush, LaidOut
<1>24. CASE Cross
      BY <1>24 DEF Cross, DropSection, LockFree
<1>25. CASE Restored
      BY <1>25 DEF Restored, DropSection, LockFree
<1>26. CASE ToggleRead
      BY <1>26 DEF ToggleRead, LaidOut
<1>27. CASE ToggleApply
      BY <1>27 DEF ToggleApply, DropSection, LockFree, SaveProgress
<1>28. CASE Drained
      BY <1>28 DEF Drained, AfterDrain, Idle
<1>29. CASE EnterMenu
      BY <1>29 DEF EnterMenu, LockFree
<1>30. CASE MenuTick
      BY <1>30 DEF MenuTick, Observe, LaidOut
<1>31. CASE ReloadApply
      BY <1>31 DEF ReloadApply, DropSection, LockFree, SaveProgress
<1>32. CASE Exit
      BY <1>32 DEF Exit, FlushThen, Flush, LaidOut, Settled, LockFree
<1>33. CASE SaveOrigin
      BY <1>33 DEF SaveOrigin, SaveProgress
<1>34. CASE Join
      BY <1>34 DEF Join, LockFree
<1>35. CASE Close
      BY <1>35 DEF Close, Idle, Gone
<1>36. CASE RenderStart
      BY <1>36 DEF RenderStart
<1>37. CASE LayPage
      BY <1>37 DEF LayPage
<1>38. CASE LayAgain
      BY <1>38 DEF LayAgain, Event
<1>39. CASE LayFails
      BY <1>39 DEF LayFails
<1>40. CASE LayDone
      BY <1>40 DEF LayDone
<1>41. CASE NoMemoryForSection
      BY <1>41 DEF NoMemoryForSection, Event
<1>42. CASE GiveUp
      BY <1>42 DEF GiveUp, HeapTooSmall, LaidOut
<1>43. CASE PersistBeforeRestart
      BY <1>43 DEF PersistBeforeRestart, HeapTooSmall, LaidOut, Flush
<1>44. CASE Restart
      BY <1>44 DEF Restart, Idle, Reboot, Gone
<1>45. CASE DrawEmptyChapter
      BY <1>45 DEF DrawEmptyChapter
<1>46. CASE DrawPage
      BY <1>46 DEF DrawPage, LaidOut, InChapter
<1>47. CASE DrawFails
      BY <1>47 DEF DrawFails, Event, LaidOut, InChapter
<1>48. CASE Panic
      BY <1>48 DEF Panic, Reboot, Gone
<1>49. CASE StartJob
      BY <1>49 DEF StartJob
<1>50. CASE FinishJob
      BY <1>50 DEF FinishJob, Event
<1>51. CASE UNCHANGED vars
      BY <1>51 DEF vars
<1> QED BY <1>1, <1>2, <1>3, <1>4, <1>5, <1>6, <1>7, <1>8, <1>9, <1>10, <1>11,
           <1>12, <1>13, <1>14, <1>15, <1>16, <1>17, <1>18, <1>19, <1>20, <1>21,
           <1>22, <1>23, <1>24, <1>25, <1>26, <1>27, <1>28, <1>29, <1>30, <1>31,
           <1>32, <1>33, <1>34, <1>35, <1>36, <1>37, <1>38, <1>39, <1>40, <1>41,
           <1>42, <1>43, <1>44, <1>45, <1>46, <1>47, <1>48, <1>49, <1>50, <1>51
      DEF Next, UserStep, MainStep, RenderStep, WriterStep

\* The section and the page to open.
LEMMA SectionStep ==
    ASSUME SectionInv, LocalInv, OriginInv, WriterInv, [Next]_vars
    PROVE  SectionInv'
<1> USE SixteenBits, BookAssumption DEF SectionInv, LocalInv, WriterInv, Page,
                                        Spots, place, flags, tracker, writer
<1>1. CASE Open
      BY <1>1 DEF Open
<1>2. CASE Sleep
      BY <1>2 DEF Sleep
<1>3. CASE MenuBack
      BY <1>3 DEF MenuBack, LeaveMenu, Asleep
<1>4. CASE MenuRotate
      BY <1>4 DEF MenuRotate, LeaveMenu, Asleep, Rotated
<1>5. CASE MenuReload
      BY <1>5 DEF MenuReload, Asleep, FlushThen, Flush, Rotated, LaidOut
<1>6. ASSUME NEW c \in 0 .. N - 1, JumpToChapter(c) PROVE SectionInv'
      BY <1>6 DEF JumpToChapter, LeaveMenu, Asleep, Goto
<1>7. ASSUME NEW c \in 0 .. N - 1, FollowFootnote(c) PROVE SectionInv'
      BY <1>7 DEF FollowFootnote, LeaveMenu, Asleep, Goto, PushOrigin
<1>8. ASSUME NEW c \in 0 .. N - 1, NEW p \in 0 .. Pages[c] - 1,
             JumpToPage(<<c, p>>)
      PROVE  SectionInv'
      BY <1>8 DEF JumpToPage, LeaveMenu, Asleep, Goto
<1>9. ASSUME NEW c \in 0 .. N - 1, NEW p \in 0 .. Pages[c] - 1,
             JumpToBookmark(<<c, p>>)
      PROVE  SectionInv'
      BY <1>9, SMTT(20) DEF JumpToBookmark, LeaveMenu, Asleep, Goto, PushOrigin
<1>10. CASE FootnoteUnresolved
      BY <1>10 DEF FootnoteUnresolved, LeaveMenu, Asleep, PushOrigin
<1>11. CASE LoopTop
      BY <1>11 DEF LoopTop, Observe, LaidOut
<1>12. CASE DeferredReset
      BY <1>12 DEF DeferredReset
<1>13. CASE RecoveryInput
      BY <1>13 DEF RecoveryInput
<1>14. CASE NoInput
      BY <1>14 DEF NoInput, Ready
<1>15. CASE GoHome
      BY <1>15 DEF GoHome, Ready, AtEndOfBook
<1>16. CASE AskAgain
      BY <1>16 DEF AskAgain, Ready, Event, AtEndOfBook
<1>17. CASE EndOfBookStay
      BY <1>17 DEF EndOfBookStay, Ready, Event, AtEndOfBook
<1>18. CASE PagePrev
      BY <1>18, SMTT(20) DEF PagePrev, Ready, Event, AtEndOfBook, TurnTo, LeaveSection,
                   StayOnPage
<1>19. CASE PageNext
  <2>1. section # None /\ section.page + 1 \in Page /\ nextPage' = nextPage
        BY <1>19 DEF PageNext
  <2>2. section' \in {section, [section EXCEPT !.page = section.page + 1]}
        BY <1>19 DEF PageNext, TurnTo, LeaveSection
  <2> QED BY <2>1, <2>2, PageMoved
<1>20. CASE SkipChapter
      BY <1>20 DEF SkipChapter, Ready, Event, AtEndOfBook, LeaveSection
<1>21. CASE RestoreFootnote
      BY <1>21 DEF RestoreFootnote, Ready
<1>22. CASE ToggleTextRenderMode
      BY <1>22 DEF ToggleTextRenderMode, Ready, Event, FlushThen, Flush, LaidOut
<1>23. CASE OpenMenu
      BY <1>23 DEF OpenMenu, Ready, Event, FlushThen, Flush, LaidOut
<1>24. CASE Cross
      BY <1>24 DEF Cross, DropSection, LockFree
<1>25. CASE Restored
      BY <1>25 DEF Restored, DropSection, LockFree
<1>26. CASE ToggleRead
      BY <1>26 DEF ToggleRead, LaidOut
<1>27. CASE ToggleApply
  <2>1. mpc = "toggleLock" /\ section' = None /\ nextPage' = local[2]
        BY <1>27 DEF ToggleApply, DropSection
  <2> QED BY <2>1 DEF Position
<1>28. CASE Drained
      BY <1>28 DEF Drained, AfterDrain, Idle
<1>29. CASE EnterMenu
      BY <1>29 DEF EnterMenu, LockFree
<1>30. CASE MenuTick
      BY <1>30 DEF MenuTick, Observe, LaidOut
<1>31. CASE ReloadApply
      BY <1>31 DEF ReloadApply, DropSection, LockFree, SaveProgress
<1>32. CASE Exit
      BY <1>32 DEF Exit, FlushThen, Flush, LaidOut, Settled, LockFree
<1>33. CASE SaveOrigin
      BY <1>33 DEF SaveOrigin, SaveProgress
<1>34. CASE Join
      BY <1>34 DEF Join, LockFree
<1>35. CASE Close
      BY <1>35 DEF Close, Idle, Gone
<1>36. CASE RenderStart
      BY <1>36 DEF RenderStart
<1>37. CASE LayPage
  <2>1. section # None /\ nextPage' = nextPage
        BY <1>37 DEF LayPage
  <2>2. section' = [section EXCEPT !.pages = section.pages + 1]
        BY <1>37 DEF LayPage
  <2> QED BY <2>1, <2>2, SMTT(20)
<1>38. CASE LayAgain
      BY <1>38 DEF LayAgain, Event
<1>39. CASE LayFails
      BY <1>39 DEF LayFails
<1>40. CASE LayDone
  <2> DEFINE page == IF nextPage = PastEnd THEN section.pages - 1 ELSE nextPage
  <2>1. section # None /\ page \in Page /\ nextPage' = nextPage
        BY <1>40 DEF LayDone
  <2>2. section' = [section EXCEPT !.page = page]
        BY <1>40 DEF LayDone
  <2> QED BY <2>1, <2>2, PageMoved
<1>41. CASE NoMemoryForSection
      BY <1>41 DEF NoMemoryForSection, Event
<1>42. CASE GiveUp
      BY <1>42 DEF GiveUp, HeapTooSmall, LaidOut
<1>43. CASE PersistBeforeRestart
      BY <1>43 DEF PersistBeforeRestart, HeapTooSmall, LaidOut, Flush
<1>44. CASE Restart
      BY <1>44 DEF Restart, Idle, Reboot, Gone
<1>45. CASE DrawEmptyChapter
      BY <1>45 DEF DrawEmptyChapter
<1>46. CASE DrawPage
      BY <1>46, SMTT(20) DEF DrawPage, LaidOut, InChapter
<1>47. CASE DrawFails
  <2>1. section # None /\ InChapter(section.page) \in Page /\ nextPage' = nextPage
        BY <1>47 DEF DrawFails, LaidOut, InChapter
  <2>2. section' = [section EXCEPT !.page = InChapter(section.page)]
        BY <1>47 DEF DrawFails
  <2> QED BY <2>1, <2>2, PageMoved
<1>48. CASE Panic
      BY <1>48 DEF Panic, Reboot, Gone
<1>49. CASE StartJob
      BY <1>49 DEF StartJob
<1>50. CASE FinishJob
      BY <1>50 DEF FinishJob, Event
<1>51. CASE UNCHANGED vars
      BY <1>51 DEF vars
<1> QED BY <1>1, <1>2, <1>3, <1>4, <1>5, <1>6, <1>7, <1>8, <1>9, <1>10, <1>11,
           <1>12, <1>13, <1>14, <1>15, <1>16, <1>17, <1>18, <1>19, <1>20, <1>21,
           <1>22, <1>23, <1>24, <1>25, <1>26, <1>27, <1>28, <1>29, <1>30, <1>31,
           <1>32, <1>33, <1>34, <1>35, <1>36, <1>37, <1>38, <1>39, <1>40, <1>41,
           <1>42, <1>43, <1>44, <1>45, <1>46, <1>47, <1>48, <1>49, <1>50, <1>51
      DEF Next, UserStep, MainStep, RenderStep, WriterStep

\* What the main loop holds between its steps.
LEMMA LocalStep ==
    ASSUME LocalInv, SpineInv, SectionInv, OriginInv, [Next]_vars
    PROVE  LocalInv'
<1> USE BookAssumption DEF LocalInv, SpineInv, Chapter, Chapters, Page, place,
                           flags, tracker, writer
<1>1. CASE Open
      BY <1>1 DEF Open
<1>2. CASE Sleep
      BY <1>2 DEF Sleep
<1>3. CASE MenuBack
      BY <1>3 DEF MenuBack, LeaveMenu, Asleep
<1>4. CASE MenuRotate
      BY <1>4 DEF MenuRotate, LeaveMenu, Asleep, Rotated
<1>5. CASE MenuReload
      BY <1>5 DEF MenuReload, Asleep, FlushThen, Flush, Rotated, LaidOut
<1>6. ASSUME NEW c \in 0 .. N - 1, JumpToChapter(c) PROVE LocalInv'
      BY <1>6 DEF JumpToChapter, LeaveMenu, Asleep, Goto
<1>7. ASSUME NEW c \in 0 .. N - 1, FollowFootnote(c) PROVE LocalInv'
      BY <1>7 DEF FollowFootnote, LeaveMenu, Asleep, Goto, PushOrigin
<1>8. ASSUME NEW c \in 0 .. N - 1, NEW p \in 0 .. Pages[c] - 1,
             JumpToPage(<<c, p>>)
      PROVE  LocalInv'
      BY <1>8 DEF JumpToPage, LeaveMenu, Asleep, Goto
<1>9. ASSUME NEW c \in 0 .. N - 1, NEW p \in 0 .. Pages[c] - 1,
             JumpToBookmark(<<c, p>>)
      PROVE  LocalInv'
      BY <1>9 DEF JumpToBookmark, LeaveMenu, Asleep, Goto, PushOrigin
<1>10. CASE FootnoteUnresolved
      BY <1>10 DEF FootnoteUnresolved, LeaveMenu, Asleep, PushOrigin
<1>11. CASE LoopTop
      BY <1>11 DEF LoopTop, Observe, LaidOut
<1>12. CASE DeferredReset
      BY <1>12 DEF DeferredReset
<1>13. CASE RecoveryInput
      BY <1>13 DEF RecoveryInput
<1>14. CASE NoInput
      BY <1>14 DEF NoInput, Ready
<1>15. CASE GoHome
      BY <1>15 DEF GoHome, Ready, AtEndOfBook
<1>16. CASE AskAgain
      BY <1>16 DEF AskAgain, Ready, Event, AtEndOfBook
<1>17. CASE EndOfBookStay
      BY <1>17 DEF EndOfBookStay, Ready, Event, AtEndOfBook
<1>18. CASE PagePrev
      BY <1>18, PagePrevGoes, SixteenBits
<1>19. CASE PageNext
      BY <1>19 DEF PageNext, Ready, Event, AtEndOfBook, TurnTo, LeaveSection
<1>20. CASE SkipChapter
      BY <1>20 DEF SkipChapter, Ready, Event, AtEndOfBook, LeaveSection
<1>21. CASE RestoreFootnote
  <2>1. local' \in Spots
        BY <1>21, Popped DEF RestoreFootnote, OriginInv
  <2> QED BY <1>21, <2>1 DEF RestoreFootnote, Ready, Spots
<1>22. CASE ToggleTextRenderMode
      BY <1>22 DEF ToggleTextRenderMode, Ready, Event, FlushThen, Flush, LaidOut
<1>23. CASE OpenMenu
      BY <1>23 DEF OpenMenu, Ready, Event, FlushThen, Flush, LaidOut
<1>24. CASE Cross
      BY <1>24 DEF Cross, DropSection, LockFree
<1>25. CASE Restored
      BY <1>25 DEF Restored, DropSection, LockFree
<1>26. CASE ToggleRead
  <2>1. LaidOut => Here \in Position
        BY HereIsSpot, SpotIsPosition DEF LaidOut
  <2>2. <<N - 1, PastEnd>> \in Position
        BY SixteenBits DEF Position
  <2>3. spine % 2^16 \in Uint16
        BY SixteenBits
  <2>4. local' \in Position
        BY <1>26, <2>1, <2>2, <2>3 DEF ToggleRead, Position
  <2>5. local' \in Int \X Page
        BY <2>4, SixteenBits DEF Position
  <2> QED BY <1>26, <2>4, <2>5 DEF ToggleRead
<1>27. CASE ToggleApply
      BY <1>27 DEF ToggleApply, DropSection, LockFree, SaveProgress
<1>28. CASE Drained
      BY <1>28 DEF Drained, AfterDrain, Idle
<1>29. CASE EnterMenu
      BY <1>29 DEF EnterMenu, LockFree
<1>30. CASE MenuTick
      BY <1>30 DEF MenuTick, Observe, LaidOut
<1>31. CASE ReloadApply
      BY <1>31 DEF ReloadApply, DropSection, LockFree, SaveProgress
<1>32. CASE Exit
      BY <1>32 DEF Exit, FlushThen, Flush, LaidOut, Settled, LockFree
<1>33. CASE SaveOrigin
      BY <1>33 DEF SaveOrigin, SaveProgress
<1>34. CASE Join
      BY <1>34 DEF Join, LockFree
<1>35. CASE Close
      BY <1>35 DEF Close, Idle, Gone
<1>36. CASE RenderStart
      BY <1>36 DEF RenderStart
<1>37. CASE LayPage
      BY <1>37 DEF LayPage
<1>38. CASE LayAgain
      BY <1>38 DEF LayAgain, Event
<1>39. CASE LayFails
      BY <1>39 DEF LayFails
<1>40. CASE LayDone
      BY <1>40 DEF LayDone
<1>41. CASE NoMemoryForSection
      BY <1>41 DEF NoMemoryForSection, Event
<1>42. CASE GiveUp
      BY <1>42 DEF GiveUp, HeapTooSmall, LaidOut
<1>43. CASE PersistBeforeRestart
      BY <1>43 DEF PersistBeforeRestart, HeapTooSmall, LaidOut, Flush
<1>44. CASE Restart
      BY <1>44 DEF Restart, Idle, Reboot, Gone
<1>45. CASE DrawEmptyChapter
      BY <1>45 DEF DrawEmptyChapter
<1>46. CASE DrawPage
      BY <1>46 DEF DrawPage, LaidOut, InChapter
<1>47. CASE DrawFails
      BY <1>47 DEF DrawFails, Event, LaidOut, InChapter
<1>48. CASE Panic
      BY <1>48 DEF Panic, Reboot, Gone
<1>49. CASE StartJob
      BY <1>49 DEF StartJob
<1>50. CASE FinishJob
      BY <1>50 DEF FinishJob, Event
<1>51. CASE UNCHANGED vars
      BY <1>51 DEF vars
<1> QED BY <1>1, <1>2, <1>3, <1>4, <1>5, <1>6, <1>7, <1>8, <1>9, <1>10, <1>11,
           <1>12, <1>13, <1>14, <1>15, <1>16, <1>17, <1>18, <1>19, <1>20, <1>21,
           <1>22, <1>23, <1>24, <1>25, <1>26, <1>27, <1>28, <1>29, <1>30, <1>31,
           <1>32, <1>33, <1>34, <1>35, <1>36, <1>37, <1>38, <1>39, <1>40, <1>41,
           <1>42, <1>43, <1>44, <1>45, <1>46, <1>47, <1>48, <1>49, <1>50, <1>51
      DEF Next, UserStep, MainStep, RenderStep, WriterStep

\* The places to return to.
LEMMA OriginStep ==
    ASSUME OriginInv, SpineInv, SectionInv, [Next]_vars
    PROVE  OriginInv'
<1> USE BoundAssumption, Pushed, Popped DEF OriginInv, place, flags, tracker,
                                            writer
<1>1. CASE Open
      BY <1>1 DEF Open
<1>2. CASE Sleep
      BY <1>2 DEF Sleep
<1>3. CASE MenuBack
      BY <1>3 DEF MenuBack, LeaveMenu, Asleep
<1>4. CASE MenuRotate
      BY <1>4 DEF MenuRotate, LeaveMenu, Asleep, Rotated
<1>5. CASE MenuReload
      BY <1>5 DEF MenuReload, Asleep, FlushThen, Flush, Rotated, LaidOut
<1>6. ASSUME NEW c \in 0 .. N - 1, JumpToChapter(c) PROVE OriginInv'
      BY <1>6 DEF JumpToChapter, LeaveMenu, Asleep, Goto
<1>7. ASSUME NEW c \in 0 .. N - 1, FollowFootnote(c) PROVE OriginInv'
      BY <1>7 DEF FollowFootnote, LeaveMenu, Asleep, Goto
<1>8. ASSUME NEW c \in 0 .. N - 1, NEW p \in 0 .. Pages[c] - 1,
             JumpToPage(<<c, p>>)
      PROVE  OriginInv'
      BY <1>8 DEF JumpToPage, LeaveMenu, Asleep, Goto
<1>9. ASSUME NEW c \in 0 .. N - 1, NEW p \in 0 .. Pages[c] - 1,
             JumpToBookmark(<<c, p>>)
      PROVE  OriginInv'
      BY <1>9 DEF JumpToBookmark, LeaveMenu, Asleep, Goto
<1>10. CASE FootnoteUnresolved
      BY <1>10 DEF FootnoteUnresolved, LeaveMenu, Asleep
<1>11. CASE LoopTop
      BY <1>11 DEF LoopTop, Observe, LaidOut
<1>12. CASE DeferredReset
      BY <1>12 DEF DeferredReset
<1>13. CASE RecoveryInput
      BY <1>13 DEF RecoveryInput
<1>14. CASE NoInput
      BY <1>14 DEF NoInput, Ready
<1>15. CASE GoHome
      BY <1>15 DEF GoHome, Ready, AtEndOfBook
<1>16. CASE AskAgain
      BY <1>16 DEF AskAgain, Ready, Event, AtEndOfBook
<1>17. CASE EndOfBookStay
      BY <1>17 DEF EndOfBookStay, Ready, Event, AtEndOfBook
<1>18. CASE PagePrev
      BY <1>18 DEF PagePrev, Ready, Event, AtEndOfBook, TurnTo, LeaveSection,
                   StayOnPage
<1>19. CASE PageNext
      BY <1>19 DEF PageNext, Ready, Event, AtEndOfBook, TurnTo, LeaveSection
<1>20. CASE SkipChapter
      BY <1>20 DEF SkipChapter, Ready, Event, AtEndOfBook, LeaveSection
<1>21. CASE RestoreFootnote
      BY <1>21 DEF RestoreFootnote, Ready
<1>22. CASE ToggleTextRenderMode
      BY <1>22 DEF ToggleTextRenderMode, Ready, Event, FlushThen, Flush, LaidOut
<1>23. CASE OpenMenu
      BY <1>23 DEF OpenMenu, Ready, Event, FlushThen, Flush, LaidOut
<1>24. CASE Cross
      BY <1>24 DEF Cross, DropSection, LockFree
<1>25. CASE Restored
      BY <1>25 DEF Restored, DropSection, LockFree
<1>26. CASE ToggleRead
      BY <1>26 DEF ToggleRead, LaidOut
<1>27. CASE ToggleApply
      BY <1>27 DEF ToggleApply, DropSection, LockFree, SaveProgress
<1>28. CASE Drained
      BY <1>28 DEF Drained, AfterDrain, Idle
<1>29. CASE EnterMenu
      BY <1>29 DEF EnterMenu, LockFree
<1>30. CASE MenuTick
      BY <1>30 DEF MenuTick, Observe, LaidOut
<1>31. CASE ReloadApply
      BY <1>31 DEF ReloadApply, DropSection, LockFree, SaveProgress
<1>32. CASE Exit
      BY <1>32 DEF Exit, FlushThen, Flush, LaidOut, Settled, LockFree
<1>33. CASE SaveOrigin
      BY <1>33 DEF SaveOrigin, SaveProgress
<1>34. CASE Join
      BY <1>34 DEF Join, LockFree
<1>35. CASE Close
      BY <1>35 DEF Close, Idle, Gone
<1>36. CASE RenderStart
      BY <1>36 DEF RenderStart
<1>37. CASE LayPage
      BY <1>37 DEF LayPage
<1>38. CASE LayAgain
      BY <1>38 DEF LayAgain, Event
<1>39. CASE LayFails
      BY <1>39 DEF LayFails
<1>40. CASE LayDone
      BY <1>40 DEF LayDone
<1>41. CASE NoMemoryForSection
      BY <1>41 DEF NoMemoryForSection, Event
<1>42. CASE GiveUp
      BY <1>42 DEF GiveUp, HeapTooSmall, LaidOut
<1>43. CASE PersistBeforeRestart
      BY <1>43 DEF PersistBeforeRestart, HeapTooSmall, LaidOut, Flush
<1>44. CASE Restart
      BY <1>44 DEF Restart, Idle, Reboot, Gone
<1>45. CASE DrawEmptyChapter
      BY <1>45 DEF DrawEmptyChapter
<1>46. CASE DrawPage
      BY <1>46 DEF DrawPage, LaidOut, InChapter
<1>47. CASE DrawFails
      BY <1>47 DEF DrawFails, Event, LaidOut, InChapter
<1>48. CASE Panic
      BY <1>48 DEF Panic, Reboot, Gone
<1>49. CASE StartJob
      BY <1>49 DEF StartJob
<1>50. CASE FinishJob
      BY <1>50 DEF FinishJob, Event
<1>51. CASE UNCHANGED vars
      BY <1>51 DEF vars
<1> QED BY <1>1, <1>2, <1>3, <1>4, <1>5, <1>6, <1>7, <1>8, <1>9, <1>10, <1>11,
           <1>12, <1>13, <1>14, <1>15, <1>16, <1>17, <1>18, <1>19, <1>20, <1>21,
           <1>22, <1>23, <1>24, <1>25, <1>26, <1>27, <1>28, <1>29, <1>30, <1>31,
           <1>32, <1>33, <1>34, <1>35, <1>36, <1>37, <1>38, <1>39, <1>40, <1>41,
           <1>42, <1>43, <1>44, <1>45, <1>46, <1>47, <1>48, <1>49, <1>50, <1>51
      DEF Next, UserStep, MainStep, RenderStep, WriterStep

\* The tracker.
LEMMA TrackStep ==
    ASSUME TrackInv, SpineInv, SectionInv, WriterInv, LocalInv, OriginInv, [Next]_vars
    PROVE  TrackInv'
<1> USE HereIsSpot, SpotIsPosition DEF TrackInv, place, flags, tracker, writer
<1>1. CASE Open
      BY <1>1 DEF Open, WriterInv
<1>2. CASE Sleep
      BY <1>2 DEF Sleep
<1>3. CASE MenuBack
      BY <1>3 DEF MenuBack, LeaveMenu, Asleep
<1>4. CASE MenuRotate
      BY <1>4 DEF MenuRotate, LeaveMenu, Asleep, Rotated
<1>5. CASE MenuReload
      BY <1>5 DEF MenuReload, Asleep, FlushThen, Flush, Rotated, LaidOut
<1>6. ASSUME NEW c \in 0 .. N - 1, JumpToChapter(c) PROVE TrackInv'
      BY <1>6 DEF JumpToChapter, LeaveMenu, Asleep, Goto
<1>7. ASSUME NEW c \in 0 .. N - 1, FollowFootnote(c) PROVE TrackInv'
      BY <1>7 DEF FollowFootnote, LeaveMenu, Asleep, Goto, PushOrigin
<1>8. ASSUME NEW c \in 0 .. N - 1, NEW p \in 0 .. Pages[c] - 1,
             JumpToPage(<<c, p>>)
      PROVE  TrackInv'
      BY <1>8 DEF JumpToPage, LeaveMenu, Asleep, Goto
<1>9. ASSUME NEW c \in 0 .. N - 1, NEW p \in 0 .. Pages[c] - 1,
             JumpToBookmark(<<c, p>>)
      PROVE  TrackInv'
      BY <1>9 DEF JumpToBookmark, LeaveMenu, Asleep, Goto, PushOrigin
<1>10. CASE FootnoteUnresolved
      BY <1>10 DEF FootnoteUnresolved, LeaveMenu, Asleep, PushOrigin
<1>11. CASE LoopTop
      BY <1>11 DEF LoopTop, Observe, LaidOut
<1>12. CASE DeferredReset
      BY <1>12 DEF DeferredReset
<1>13. CASE RecoveryInput
      BY <1>13 DEF RecoveryInput
<1>14. CASE NoInput
      BY <1>14 DEF NoInput, Ready
<1>15. CASE GoHome
      BY <1>15 DEF GoHome, Ready, AtEndOfBook
<1>16. CASE AskAgain
      BY <1>16 DEF AskAgain, Ready, Event, AtEndOfBook
<1>17. CASE EndOfBookStay
      BY <1>17 DEF EndOfBookStay, Ready, Event, AtEndOfBook
<1>18. CASE PagePrev
  <2>1. obs' \in {obs, <<spine, section.page - 1>>} /\ saved' = saved
        BY <1>18 DEF PagePrev, TurnTo, LeaveSection, StayOnPage
  <2>2. <<spine, section.page - 1>> \in Spots
        BY <1>18 DEF PagePrev, SpineInv, SectionInv, Spots, Page
  <2>3. mpc # "closed"
        BY <1>18 DEF PagePrev, Ready
  <2> QED BY <2>1, <2>2, <2>3
<1>19. CASE PageNext
  <2>1. obs' \in {obs, <<spine, section.page + 1>>} /\ saved' = saved
        BY <1>19 DEF PageNext, TurnTo, LeaveSection
  <2>2. <<spine, section.page + 1>> \in Spots
        BY <1>19 DEF PageNext, SpineInv, SectionInv, Spots, Page
  <2>3. mpc # "closed"
        BY <1>19 DEF PageNext, Ready
  <2> QED BY <2>1, <2>2, <2>3
<1>20. CASE SkipChapter
      BY <1>20 DEF SkipChapter, Ready, Event, AtEndOfBook, LeaveSection
<1>21. CASE RestoreFootnote
      BY <1>21 DEF RestoreFootnote, Ready
<1>22. CASE ToggleTextRenderMode
      BY <1>22 DEF ToggleTextRenderMode, Ready, Event, FlushThen, Flush, LaidOut
<1>23. CASE OpenMenu
      BY <1>23 DEF OpenMenu, Ready, Event, FlushThen, Flush, LaidOut
<1>24. CASE Cross
      BY <1>24 DEF Cross, DropSection, LockFree
<1>25. CASE Restored
      BY <1>25 DEF Restored, DropSection, LockFree
<1>26. CASE ToggleRead
      BY <1>26 DEF ToggleRead, LaidOut
<1>27. CASE ToggleApply
      BY <1>27 DEF ToggleApply, SaveProgress, LocalInv
<1>28. CASE Drained
      BY <1>28 DEF Drained, AfterDrain, Idle
<1>29. CASE EnterMenu
      BY <1>29 DEF EnterMenu, LockFree
<1>30. CASE MenuTick
      BY <1>30 DEF MenuTick, Observe, LaidOut
<1>31. CASE ReloadApply
      BY <1>31 DEF ReloadApply, DropSection, LockFree, SaveProgress
<1>32. CASE Exit
      BY <1>32 DEF Exit, FlushThen, Flush, LaidOut, Settled, LockFree
<1>33. CASE SaveOrigin
      BY <1>33, Popped DEF SaveOrigin, SaveProgress, OriginInv
<1>34. CASE Join
      BY <1>34 DEF Join, LockFree
<1>35. CASE Close
      BY <1>35 DEF Close, Idle, Gone
<1>36. CASE RenderStart
      BY <1>36 DEF RenderStart
<1>37. CASE LayPage
      BY <1>37 DEF LayPage
<1>38. CASE LayAgain
      BY <1>38 DEF LayAgain, Event
<1>39. CASE LayFails
      BY <1>39 DEF LayFails
<1>40. CASE LayDone
      BY <1>40 DEF LayDone
<1>41. CASE NoMemoryForSection
      BY <1>41 DEF NoMemoryForSection, Event
<1>42. CASE GiveUp
      BY <1>42 DEF GiveUp, HeapTooSmall, LaidOut
<1>43. CASE PersistBeforeRestart
      BY <1>43 DEF PersistBeforeRestart, HeapTooSmall, LaidOut, Flush
<1>44. CASE Restart
      BY <1>44 DEF Restart, Idle, Reboot, Gone
<1>45. CASE DrawEmptyChapter
      BY <1>45 DEF DrawEmptyChapter
<1>46. CASE DrawPage
  <2>1. <<spine, InChapter(section.page)>> \in Spots
        BY <1>46 DEF DrawPage, LaidOut, InChapter, SpineInv, SectionInv, Spots, Page
  <2> QED BY <1>46, <2>1 DEF DrawPage
<1>47. CASE DrawFails
      BY <1>47 DEF DrawFails, Event, LaidOut, InChapter
<1>48. CASE Panic
      BY <1>48 DEF Panic, Reboot, Gone
<1>49. CASE StartJob
      BY <1>49 DEF StartJob
<1>50. CASE FinishJob
      BY <1>50 DEF FinishJob, Event
<1>51. CASE UNCHANGED vars
      BY <1>51 DEF vars
<1> QED BY <1>1, <1>2, <1>3, <1>4, <1>5, <1>6, <1>7, <1>8, <1>9, <1>10, <1>11,
           <1>12, <1>13, <1>14, <1>15, <1>16, <1>17, <1>18, <1>19, <1>20, <1>21,
           <1>22, <1>23, <1>24, <1>25, <1>26, <1>27, <1>28, <1>29, <1>30, <1>31,
           <1>32, <1>33, <1>34, <1>35, <1>36, <1>37, <1>38, <1>39, <1>40, <1>41,
           <1>42, <1>43, <1>44, <1>45, <1>46, <1>47, <1>48, <1>49, <1>50, <1>51
      DEF Next, UserStep, MainStep, RenderStep, WriterStep

\* The writer and the ring.
LEMMA WriterKeeps ==
    ASSUME WriterInv, TrackInv, SpineInv, SectionInv, LocalInv, OriginInv,
           ClosedInv, [Next]_vars
    PROVE  WriterInv'
<1> USE HereIsSpot, SpotIsPosition DEF WriterInv, place, flags, tracker, writer
<1>1. CASE Open
      BY <1>1, RecentsTypes DEF Open
<1>2. CASE Sleep
      BY <1>2 DEF Sleep
<1>3. CASE MenuBack
      BY <1>3 DEF MenuBack, LeaveMenu, Asleep
<1>4. CASE MenuRotate
      BY <1>4 DEF MenuRotate, LeaveMenu, Asleep, Rotated
<1>5. CASE MenuReload
      BY <1>5, FlushTypes DEF MenuReload, FlushThen, LaidOut
<1>6. ASSUME NEW c \in 0 .. N - 1, JumpToChapter(c) PROVE WriterInv'
      BY <1>6 DEF JumpToChapter, LeaveMenu, Asleep, Goto
<1>7. ASSUME NEW c \in 0 .. N - 1, FollowFootnote(c) PROVE WriterInv'
      BY <1>7 DEF FollowFootnote, LeaveMenu, Asleep, Goto, PushOrigin
<1>8. ASSUME NEW c \in 0 .. N - 1, NEW p \in 0 .. Pages[c] - 1,
             JumpToPage(<<c, p>>)
      PROVE  WriterInv'
      BY <1>8 DEF JumpToPage, LeaveMenu, Asleep, Goto
<1>9. ASSUME NEW c \in 0 .. N - 1, NEW p \in 0 .. Pages[c] - 1,
             JumpToBookmark(<<c, p>>)
      PROVE  WriterInv'
      BY <1>9 DEF JumpToBookmark, LeaveMenu, Asleep, Goto, PushOrigin
<1>10. CASE FootnoteUnresolved
      BY <1>10 DEF FootnoteUnresolved, LeaveMenu, Asleep, PushOrigin
<1>11. CASE LoopTop
      BY <1>11 DEF LoopTop, Observe, LaidOut
<1>12. CASE DeferredReset
      BY <1>12 DEF DeferredReset
<1>13. CASE RecoveryInput
      BY <1>13 DEF RecoveryInput
<1>14. CASE NoInput
      BY <1>14 DEF NoInput, Ready
<1>15. CASE GoHome
      BY <1>15 DEF GoHome, Ready, AtEndOfBook
<1>16. CASE AskAgain
      BY <1>16 DEF AskAgain, Ready, Event, AtEndOfBook
<1>17. CASE EndOfBookStay
      BY <1>17 DEF EndOfBookStay, Ready, Event, AtEndOfBook
<1>18. CASE PagePrev
      BY <1>18 DEF PagePrev, Ready, Event, AtEndOfBook, TurnTo, LeaveSection,
                   StayOnPage
<1>19. CASE PageNext
      BY <1>19 DEF PageNext, Ready, Event, AtEndOfBook, TurnTo, LeaveSection
<1>20. CASE SkipChapter
      BY <1>20 DEF SkipChapter, Ready, Event, AtEndOfBook, LeaveSection
<1>21. CASE RestoreFootnote
      BY <1>21 DEF RestoreFootnote, Ready
<1>22. CASE ToggleTextRenderMode
      BY <1>22, FlushTypes DEF ToggleTextRenderMode, FlushThen, LaidOut
<1>23. CASE OpenMenu
      BY <1>23, FlushTypes DEF OpenMenu, FlushThen, LaidOut
<1>24. CASE Cross
      BY <1>24 DEF Cross, DropSection, LockFree
<1>25. CASE Restored
      BY <1>25 DEF Restored, DropSection, LockFree
<1>26. CASE ToggleRead
      BY <1>26 DEF ToggleRead, LaidOut
<1>27. CASE ToggleApply
      BY <1>27, SaveTypes DEF ToggleApply, DropSection, LocalInv
<1>28. CASE Drained
      BY <1>28 DEF Drained, AfterDrain, Idle
<1>29. CASE EnterMenu
      BY <1>29 DEF EnterMenu, LockFree
<1>30. CASE MenuTick
      BY <1>30 DEF MenuTick, Observe, LaidOut
<1>31. CASE ReloadApply
      BY <1>31, SaveTypes DEF ReloadApply, DropSection
<1>32. CASE Exit
      BY <1>32, FlushTypes DEF Exit, FlushThen, LaidOut
<1>33. CASE SaveOrigin
      BY <1>33, SaveTypes, Popped DEF SaveOrigin, OriginInv
<1>34. CASE Join
      BY <1>34 DEF Join, LockFree
<1>35. CASE Close
      BY <1>35 DEF Close, Idle, Gone
<1>36. CASE RenderStart
      BY <1>36 DEF RenderStart
<1>37. CASE LayPage
      BY <1>37 DEF LayPage
<1>38. CASE LayAgain
      BY <1>38 DEF LayAgain, Event
<1>39. CASE LayFails
      BY <1>39 DEF LayFails
<1>40. CASE LayDone
      BY <1>40 DEF LayDone
<1>41. CASE NoMemoryForSection
      BY <1>41 DEF NoMemoryForSection, Event
<1>42. CASE GiveUp
      BY <1>42 DEF GiveUp, HeapTooSmall, LaidOut
<1>43. CASE PersistBeforeRestart
  <2>1. obs \in Position
        BY <1>43 DEF PersistBeforeRestart, TrackInv, ClosedInv, HeapTooSmall
  <2> QED BY <1>43, <2>1, FlushTypes DEF PersistBeforeRestart
<1>44. CASE Restart
      BY <1>44, BoundAssumption DEF Restart, Reboot
<1>45. CASE DrawEmptyChapter
      BY <1>45 DEF DrawEmptyChapter
<1>46. CASE DrawPage
      BY <1>46 DEF DrawPage, LaidOut, InChapter
<1>47. CASE DrawFails
      BY <1>47 DEF DrawFails, Event, LaidOut, InChapter
<1>48. CASE Panic
      BY <1>48, BoundAssumption DEF Panic, Reboot
<1>49. CASE StartJob
  <2>1. queue # <<>> /\ running' = Head(queue) /\ queue' = Tail(queue) /\ file' = file
        BY <1>49 DEF StartJob
  <2>2. Head(queue) \in Jobs /\ Tail(queue) \in Seq(Jobs) /\ Len(Tail(queue)) <= kMaxQueue
        BY <2>1, BoundAssumption
  <2> QED BY <2>1, <2>2
<1>50. CASE FinishJob
      BY <1>50, ClampPosition DEF FinishJob, Jobs
<1>51. CASE UNCHANGED vars
      BY <1>51 DEF vars
<1> QED BY <1>1, <1>2, <1>3, <1>4, <1>5, <1>6, <1>7, <1>8, <1>9, <1>10, <1>11,
           <1>12, <1>13, <1>14, <1>15, <1>16, <1>17, <1>18, <1>19, <1>20, <1>21,
           <1>22, <1>23, <1>24, <1>25, <1>26, <1>27, <1>28, <1>29, <1>30, <1>31,
           <1>32, <1>33, <1>34, <1>35, <1>36, <1>37, <1>38, <1>39, <1>40, <1>41,
           <1>42, <1>43, <1>44, <1>45, <1>46, <1>47, <1>48, <1>49, <1>50, <1>51
      DEF Next, UserStep, MainStep, RenderStep, WriterStep

\* A reader that is closed.
LEMMA ClosedStep ==
    ASSUME ClosedInv, [Next]_vars
    PROVE  ClosedInv'
<1> USE DEF ClosedInv, Idle, place, flags, tracker, writer
<1>1. CASE Open
      BY <1>1 DEF Open
<1>2. CASE Sleep
      BY <1>2 DEF Sleep
<1>3. CASE MenuBack
      BY <1>3 DEF MenuBack, LeaveMenu, Asleep
<1>4. CASE MenuRotate
      BY <1>4 DEF MenuRotate, LeaveMenu, Asleep, Rotated
<1>5. CASE MenuReload
      BY <1>5 DEF MenuReload, Asleep, FlushThen, Flush, Rotated, LaidOut
<1>6. ASSUME NEW c \in 0 .. N - 1, JumpToChapter(c) PROVE ClosedInv'
      BY <1>6 DEF JumpToChapter, LeaveMenu, Asleep, Goto
<1>7. ASSUME NEW c \in 0 .. N - 1, FollowFootnote(c) PROVE ClosedInv'
      BY <1>7 DEF FollowFootnote, LeaveMenu, Asleep, Goto, PushOrigin
<1>8. ASSUME NEW c \in 0 .. N - 1, NEW p \in 0 .. Pages[c] - 1,
             JumpToPage(<<c, p>>)
      PROVE  ClosedInv'
      BY <1>8 DEF JumpToPage, LeaveMenu, Asleep, Goto
<1>9. ASSUME NEW c \in 0 .. N - 1, NEW p \in 0 .. Pages[c] - 1,
             JumpToBookmark(<<c, p>>)
      PROVE  ClosedInv'
      BY <1>9 DEF JumpToBookmark, LeaveMenu, Asleep, Goto, PushOrigin
<1>10. CASE FootnoteUnresolved
      BY <1>10 DEF FootnoteUnresolved, LeaveMenu, Asleep, PushOrigin
<1>11. CASE LoopTop
      BY <1>11 DEF LoopTop, Observe, LaidOut
<1>12. CASE DeferredReset
      BY <1>12 DEF DeferredReset
<1>13. CASE RecoveryInput
      BY <1>13 DEF RecoveryInput
<1>14. CASE NoInput
      BY <1>14 DEF NoInput, Ready
<1>15. CASE GoHome
      BY <1>15 DEF GoHome, Ready, AtEndOfBook
<1>16. CASE AskAgain
      BY <1>16 DEF AskAgain, Ready, Event, AtEndOfBook
<1>17. CASE EndOfBookStay
      BY <1>17 DEF EndOfBookStay, Ready, Event, AtEndOfBook
<1>18. CASE PagePrev
      BY <1>18 DEF PagePrev, Ready, Event, AtEndOfBook, TurnTo, LeaveSection,
                   StayOnPage
<1>19. CASE PageNext
      BY <1>19 DEF PageNext, Ready, Event, AtEndOfBook, TurnTo, LeaveSection
<1>20. CASE SkipChapter
      BY <1>20 DEF SkipChapter, Ready, Event, AtEndOfBook, LeaveSection
<1>21. CASE RestoreFootnote
      BY <1>21 DEF RestoreFootnote, Ready
<1>22. CASE ToggleTextRenderMode
      BY <1>22 DEF ToggleTextRenderMode, Ready, Event, FlushThen, Flush, LaidOut
<1>23. CASE OpenMenu
      BY <1>23 DEF OpenMenu, Ready, Event, FlushThen, Flush, LaidOut
<1>24. CASE Cross
      BY <1>24 DEF Cross, DropSection, LockFree
<1>25. CASE Restored
      BY <1>25 DEF Restored, DropSection, LockFree
<1>26. CASE ToggleRead
      BY <1>26 DEF ToggleRead, LaidOut
<1>27. CASE ToggleApply
      BY <1>27 DEF ToggleApply, DropSection, LockFree, SaveProgress
<1>28. CASE Drained
      BY <1>28, DrainedGoesOn DEF Drained
<1>29. CASE EnterMenu
      BY <1>29 DEF EnterMenu, LockFree
<1>30. CASE MenuTick
      BY <1>30 DEF MenuTick, Observe, LaidOut
<1>31. CASE ReloadApply
      BY <1>31 DEF ReloadApply, DropSection, LockFree, SaveProgress
<1>32. CASE Exit
      BY <1>32 DEF Exit, FlushThen, Flush, LaidOut, Settled, LockFree
<1>33. CASE SaveOrigin
      BY <1>33 DEF SaveOrigin, SaveProgress
<1>34. CASE Join
      BY <1>34 DEF Join, LockFree
<1>35. CASE Close
      BY <1>35 DEF Close, Idle, Gone
<1>36. CASE RenderStart
      BY <1>36 DEF RenderStart
<1>37. CASE LayPage
      BY <1>37 DEF LayPage
<1>38. CASE LayAgain
      BY <1>38 DEF LayAgain, Event
<1>39. CASE LayFails
      BY <1>39 DEF LayFails
<1>40. CASE LayDone
      BY <1>40 DEF LayDone
<1>41. CASE NoMemoryForSection
      BY <1>41 DEF NoMemoryForSection, Event
<1>42. CASE GiveUp
      BY <1>42 DEF GiveUp, HeapTooSmall, LaidOut
<1>43. CASE PersistBeforeRestart
      BY <1>43 DEF PersistBeforeRestart, HeapTooSmall, LaidOut, Flush
<1>44. CASE Restart
      BY <1>44 DEF Restart, Idle, Reboot, Gone
<1>45. CASE DrawEmptyChapter
      BY <1>45 DEF DrawEmptyChapter
<1>46. CASE DrawPage
      BY <1>46 DEF DrawPage, LaidOut, InChapter
<1>47. CASE DrawFails
      BY <1>47 DEF DrawFails, Event, LaidOut, InChapter
<1>48. CASE Panic
      BY <1>48 DEF Panic, Reboot, Gone
<1>49. CASE StartJob
      BY <1>49 DEF StartJob
<1>50. CASE FinishJob
      BY <1>50 DEF FinishJob, Event
<1>51. CASE UNCHANGED vars
      BY <1>51 DEF vars
<1> QED BY <1>1, <1>2, <1>3, <1>4, <1>5, <1>6, <1>7, <1>8, <1>9, <1>10, <1>11,
           <1>12, <1>13, <1>14, <1>15, <1>16, <1>17, <1>18, <1>19, <1>20, <1>21,
           <1>22, <1>23, <1>24, <1>25, <1>26, <1>27, <1>28, <1>29, <1>30, <1>31,
           <1>32, <1>33, <1>34, <1>35, <1>36, <1>37, <1>38, <1>39, <1>40, <1>41,
           <1>42, <1>43, <1>44, <1>45, <1>46, <1>47, <1>48, <1>49, <1>50, <1>51
      DEF Next, UserStep, MainStep, RenderStep, WriterStep

-----------------------------------------------------------------------------
\* No more than two jobs follow the newest position.
LEMMA SlackIsSmall == Slack \in 0 .. 2 /\ Slack' \in 0 .. 2
BY DEF Slack

\* What covers the newest position with the slack of the new state.
LEMMA PipeAfter ==
    ASSUME NEW slack \in Nat, Slack' = slack, Covered(slack)'
    PROVE  PipeInv'
BY DEF PipeInv, Covered

\* A step that submits nothing and lets nobody forget a flush.
LEMMA PipeKept ==
    ASSUME PipeInv, WriterInv, UNCHANGED <<saved, queue, running, file, failed>>,
           mpc' # "closed" => mpc # "closed" /\ Slack <= Slack'
    PROVE  PipeInv'
<1>1. CASE mpc' = "closed" \/ failed
      BY <1>1 DEF PipeInv
<1>2. CASE mpc' # "closed" /\ ~failed
  <2> DEFINE few == Slack
             more == Slack'
  <2>1. few \in Nat /\ more \in Nat /\ few <= more
        BY <1>2, SlackIsSmall
  <2>2. Covered(few)
        BY <1>2 DEF PipeInv
  <2> HIDE DEF few
  <2>3. Covered(Slack)'
        BY <2>1, <2>2 DEF Covered, WriterInv
  <2> QED BY <2>3 DEF PipeInv
<1> QED BY <1>1, <1>2

\* A step that flushes, from a task that has not done so before.
LEMMA PipeFlushed ==
    ASSUME PipeInv, WriterInv, NEW pos \in Position, Flush(pos),
           UNCHANGED <<running, file, failed>>, mpc # "closed",
           NEW slack \in 0 .. 1, Slack = slack, Slack' = slack + 1
    PROVE  PipeInv'
<1>1. CASE failed
      BY <1>1 DEF PipeInv
<1>2. CASE ~failed
  <2>1. Covered(slack)
        BY <1>2 DEF PipeInv
  <2>2. Covered(slack + 1)'
        BY <2>1, FlushCovers
  <2> QED BY <2>2, PipeAfter
<1> QED BY <1>1, <1>2

\* A step that saves without a second look.
LEMMA PipeSaved ==
    ASSUME WriterInv, NEW pos \in Position, SaveProgress(pos)
    PROVE  PipeInv'
<1>1. PICK slack \in 0 .. 2 : Slack' = slack
      BY SlackIsSmall
<1>2. Covered(slack)'
      BY SaveCovers
<1> QED BY <1>1, <1>2, PipeAfter

\* Before the first of the flushes the render task cannot be about to restart
\* with another one behind it.
LEMMA FlushThenStep ==
    ASSUME PipeInv, WriterInv, SpineInv, SectionInv, UNCHANGED <<running, file, failed>>,
           mpc \notin Flushed \cup {"closed"}, rpc' = rpc,
           NEW drain \in Flushed, NEW otherwise, otherwise # "closed",
           FlushThen(drain, otherwise)
    PROVE  PipeInv'
<1>1. CASE LaidOut /\ Flush(Here) /\ mpc' = drain
  <2>1. Here \in Position
        BY <1>1, HereIsSpot, SpotIsPosition DEF LaidOut
  <2>2. PICK slack \in 0 .. 1 : Slack = slack /\ Slack' = slack + 1
        BY <1>1 DEF Slack
  <2> QED BY <1>1, <2>1, <2>2, PipeFlushed DEF Flushed
<1>2. CASE ~LaidOut /\ mpc' = otherwise /\ UNCHANGED <<tracker, queue>>
      BY <1>2, PipeKept DEF tracker, Slack, Flushed
<1> QED BY <1>1, <1>2 DEF FlushThen

\* The way of the newest position to the card, over every step.
LEMMA PipeStep ==
    ASSUME PipeInv, ClosedInv, WriterInv, TrackInv, SpineInv, SectionInv, LocalInv,
           OriginInv, [Next]_vars
    PROVE  PipeInv'
<1> USE PipeKept DEF ClosedInv, Slack, Flushed, place, flags, tracker, writer
<1>1. CASE Open
  <2> DEFINE jobs == <<Recents>>
  <2>1. /\ jobs \in Seq(Jobs) /\ Len(jobs) = 1 /\ Len(jobs) <= 2
        /\ jobs[1] = Recents /\ Enqueue(jobs)
        BY <1>1 DEF Open, Jobs
  <2>2. queue = <<>> /\ running' = None /\ saved' = file /\ file' = file
        BY <1>1 DEF Open, Idle
  <2> HIDE DEF jobs
  <2>3. PICK over \in 0 .. 2 :
          /\ Len(queue') = Len(queue) + Len(jobs) - over
          /\ \A i \in 1 .. Len(queue') :
               queue'[i] = IF i + over <= Len(queue) THEN queue[i + over]
                           ELSE jobs[i + over - Len(queue)]
        BY <2>1, Enqueued
  <2>4. Len(queue) = 0
        BY <2>2
  <2>5. \A i \in 1 .. Len(queue') : queue'[i] = Recents
        BY <2>1, <2>3, <2>4
  <2>6. Clamp(file) = file
        BY ClampSpot DEF WriterInv
  <2> QED BY <2>2, <2>5, <2>6, TokensApart DEF PipeInv, Covered
<1>2. CASE Sleep
      BY <1>2 DEF Sleep
<1>3. CASE MenuBack
      BY <1>3 DEF MenuBack, LeaveMenu, Asleep
<1>4. CASE MenuRotate
      BY <1>4 DEF MenuRotate, LeaveMenu, Asleep
<1>5. CASE MenuReload
  <2>1. mpc = "menu" /\ UNCHANGED <<running, file, failed>> /\ rpc = "none" /\ rpc' = "sleep"
        BY <1>5 DEF MenuReload, Asleep
  <2>2. CASE FlushThen("reloadDrain", "reloadLock")
    <3>1. CASE LaidOut /\ Flush(Here) /\ mpc' = "reloadDrain"
      <4>1. Here \in Position
            BY <3>1, HereIsSpot, SpotIsPosition DEF LaidOut
      <4>2. Slack = 0 /\ Slack' = 0 + 1
            BY <2>1, <3>1
      <4> QED BY <2>1, <3>1, <4>1, <4>2, PipeFlushed
    <3>2. CASE ~LaidOut /\ mpc' = "reloadLock" /\ UNCHANGED <<tracker, queue>>
          BY <2>1, <3>2
    <3> QED BY <2>2, <3>1, <3>2 DEF FlushThen
  <2>3. CASE mpc' = "reloadLock" /\ UNCHANGED <<tracker, queue>>
        BY <2>1, <2>3
  <2> QED BY <1>5, <2>2, <2>3 DEF MenuReload
<1>6. ASSUME NEW c \in 0 .. N - 1, JumpToChapter(c) PROVE PipeInv'
      BY <1>6 DEF JumpToChapter, LeaveMenu, Asleep
<1>7. ASSUME NEW c \in 0 .. N - 1, FollowFootnote(c) PROVE PipeInv'
      BY <1>7 DEF FollowFootnote, LeaveMenu, Asleep
<1>8. ASSUME NEW c \in 0 .. N - 1, NEW p \in 0 .. Pages[c] - 1,
             JumpToPage(<<c, p>>)
      PROVE  PipeInv'
      BY <1>8 DEF JumpToPage, LeaveMenu, Asleep
<1>9. ASSUME NEW c \in 0 .. N - 1, NEW p \in 0 .. Pages[c] - 1,
             JumpToBookmark(<<c, p>>)
      PROVE  PipeInv'
      BY <1>9 DEF JumpToBookmark, LeaveMenu, Asleep
<1>10. CASE FootnoteUnresolved
      BY <1>10 DEF FootnoteUnresolved, LeaveMenu, Asleep
<1>11. CASE LoopTop
      BY <1>11 DEF LoopTop, Observe
<1>12. CASE DeferredReset
      BY <1>12 DEF DeferredReset
<1>13. CASE RecoveryInput
      BY <1>13 DEF RecoveryInput
<1>14. CASE NoInput
      BY <1>14 DEF NoInput, Ready
<1>15. CASE GoHome
      BY <1>15 DEF GoHome, Ready
<1>16. CASE AskAgain
      BY <1>16 DEF AskAgain, Ready
<1>17. CASE EndOfBookStay
      BY <1>17 DEF EndOfBookStay, Ready
<1>18. CASE PagePrev
      BY <1>18 DEF PagePrev, Ready, TurnTo, LeaveSection, StayOnPage
<1>19. CASE PageNext
      BY <1>19 DEF PageNext, Ready, TurnTo, LeaveSection
<1>20. CASE SkipChapter
      BY <1>20 DEF SkipChapter, Ready, LeaveSection
<1>21. CASE RestoreFootnote
      BY <1>21 DEF RestoreFootnote, Ready
<1>22. CASE ToggleTextRenderMode
  <2>1. /\ mpc \notin Flushed \cup {"closed"} /\ rpc' = rpc /\ "toggleDrain" \in Flushed
        /\ FlushThen("toggleDrain", "toggleRead") /\ UNCHANGED <<running, file, failed>>
        BY <1>22 DEF ToggleTextRenderMode, Ready
  <2> QED BY <2>1, FlushThenStep
<1>23. CASE OpenMenu
  <2>1. /\ mpc \notin Flushed \cup {"closed"} /\ rpc' = rpc /\ "menuDrain" \in Flushed
        /\ FlushThen("menuDrain", "menuLock") /\ UNCHANGED <<running, file, failed>>
        BY <1>23 DEF OpenMenu, Ready
  <2> QED BY <2>1, FlushThenStep
<1>24. CASE Cross
      BY <1>24 DEF Cross, DropSection, LockFree
<1>25. CASE Restored
      BY <1>25 DEF Restored, DropSection, LockFree
<1>26. CASE ToggleRead
      BY <1>26 DEF ToggleRead
<1>27. CASE ToggleApply
  <2>1. local \in Position /\ SaveProgress(local)
        BY <1>27 DEF ToggleApply, LocalInv
  <2> QED BY <2>1, PipeSaved
<1>28. CASE Drained
  <2>1. queue' = <<>> /\ running' = None /\ UNCHANGED <<saved, queue, running, file, failed>>
        BY <1>28 DEF Drained, Idle
  <2>2. mpc # "closed"
        BY <1>28, DrainedGoesOn
  <2> QED BY <2>1, <2>2 DEF PipeInv, Covered
<1>29. CASE EnterMenu
      BY <1>29 DEF EnterMenu, LockFree
<1>30. CASE MenuTick
      BY <1>30 DEF MenuTick, Observe
<1>31. CASE ReloadApply
  <2>1. CASE section # None /\ SaveProgress(Here)
    <3>1. Here \in Position
          BY <2>1, HereIsSpot, SpotIsPosition
    <3> QED BY <2>1, <3>1, PipeSaved
  <2>2. CASE UNCHANGED <<tracker, queue>>
        BY <1>31, <2>2 DEF ReloadApply, DropSection
  <2> QED BY <1>31, <2>1, <2>2 DEF ReloadApply
<1>32. CASE Exit
  <2>1. /\ mpc \notin Flushed \cup {"closed"} /\ rpc' = rpc /\ "origin" \in Flushed
        /\ FlushThen("origin", "origin") /\ UNCHANGED <<running, file, failed>>
        BY <1>32 DEF Exit, Ready
  <2> QED BY <2>1, FlushThenStep
<1>33. CASE SaveOrigin
  <2>1. CASE origin # <<>> /\ SaveProgress(origin[1])
    <3>1. origin[1] \in Position
          BY <2>1, Popped, SpotIsPosition DEF OriginInv
    <3> QED BY <2>1, <3>1, PipeSaved
  <2>2. CASE UNCHANGED <<tracker, queue>>
        BY <1>33, <2>2 DEF SaveOrigin
  <2> QED BY <1>33, <2>1, <2>2 DEF SaveOrigin
<1>34. CASE Join
      BY <1>34 DEF Join, LockFree
<1>35. CASE Close
      BY <1>35 DEF Close, Gone, PipeInv
<1>36. CASE RenderStart
      BY <1>36 DEF RenderStart
<1>37. CASE LayPage
      BY <1>37 DEF LayPage
<1>38. CASE LayAgain
      BY <1>38 DEF LayAgain
<1>39. CASE LayFails
      BY <1>39 DEF LayFails
<1>40. CASE LayDone
      BY <1>40 DEF LayDone
<1>41. CASE NoMemoryForSection
      BY <1>41 DEF NoMemoryForSection
<1>42. CASE GiveUp
      BY <1>42 DEF GiveUp, HeapTooSmall
<1>43. CASE PersistBeforeRestart
  <2>1. rpc \in {"lay", "draw"} /\ rpc' = "restart" /\ mpc' = mpc /\ mpc # "closed"
        BY <1>43 DEF PersistBeforeRestart, HeapTooSmall
  <2>2. PICK slack \in 0 .. 1 : Slack = slack /\ Slack' = slack + 1
        BY <2>1
  <2>3. obs \in Position /\ Flush(obs) /\ UNCHANGED <<running, file, failed>>
        BY <1>43, <2>1 DEF PersistBeforeRestart, TrackInv
  <2> QED BY <2>1, <2>2, <2>3, PipeFlushed
<1>44. CASE Restart
      BY <1>44 DEF Restart, Reboot, Gone, PipeInv
<1>45. CASE DrawEmptyChapter
      BY <1>45 DEF DrawEmptyChapter
<1>46. CASE DrawPage
      BY <1>46 DEF DrawPage
<1>47. CASE DrawFails
      BY <1>47 DEF DrawFails
<1>48. CASE Panic
      BY <1>48 DEF Panic, Reboot, Gone, PipeInv
<1>49. CASE StartJob
  <2>1. mpc' = mpc /\ rpc' = rpc /\ failed' = failed
        BY <1>49 DEF StartJob
  <2>2. PICK slack \in 0 .. 2 : Slack = slack /\ Slack' = slack
        BY <2>1, SlackIsSmall
  <2>3. CASE mpc # "closed" /\ ~failed
    <3>1. Covered(slack)
          BY <2>2, <2>3 DEF PipeInv
    <3>2. Covered(slack)'
          BY <1>49, <3>1, StartCovers
    <3> QED BY <2>2, <3>2, PipeAfter
  <2> QED BY <2>1, <2>3 DEF PipeInv
<1>50. CASE FinishJob
  <2>1. mpc' = mpc /\ rpc' = rpc /\ (~failed' => ~failed)
        BY <1>50 DEF FinishJob
  <2>2. PICK slack \in 0 .. 2 : Slack = slack /\ Slack' = slack
        BY <2>1, SlackIsSmall
  <2>3. CASE mpc # "closed" /\ ~failed'
    <3>1. Covered(slack)
          BY <2>1, <2>2, <2>3 DEF PipeInv
    <3>2. Covered(slack)'
          BY <1>50, <2>3, <3>1, FinishCovers
    <3> QED BY <2>2, <3>2, PipeAfter
  <2> QED BY <2>1, <2>3 DEF PipeInv
<1>51. CASE UNCHANGED vars
      BY <1>51 DEF vars
<1> QED BY <1>1, <1>2, <1>3, <1>4, <1>5, <1>6, <1>7, <1>8, <1>9, <1>10, <1>11,
           <1>12, <1>13, <1>14, <1>15, <1>16, <1>17, <1>18, <1>19, <1>20, <1>21,
           <1>22, <1>23, <1>24, <1>25, <1>26, <1>27, <1>28, <1>29, <1>30, <1>31,
           <1>32, <1>33, <1>34, <1>35, <1>36, <1>37, <1>38, <1>39, <1>40, <1>41,
           <1>42, <1>43, <1>44, <1>45, <1>46, <1>47, <1>48, <1>49, <1>50, <1>51
      DEF Next, UserStep, MainStep, RenderStep, WriterStep

\* A reader that was quiet when it was closed, over every step.
LEMMA QuietStep ==
    ASSUME QuietInv, PipeInv, ClosedInv, WriterInv, SpineInv, SectionInv, OriginInv, [Next]_vars
    PROVE  QuietInv'
<1> USE DEF QuietInv, ClosedInv, LockFree, place, flags, tracker, writer
<1>1. CASE Open
      BY <1>1 DEF Open
<1>2. CASE Sleep
      BY <1>2 DEF Sleep
<1>3. CASE MenuBack
      BY <1>3 DEF MenuBack, LeaveMenu, Asleep
<1>4. CASE MenuRotate
      BY <1>4 DEF MenuRotate, LeaveMenu, Asleep
<1>5. CASE MenuReload
      BY <1>5 DEF MenuReload, Asleep, FlushThen
<1>6. ASSUME NEW c \in 0 .. N - 1, JumpToChapter(c) PROVE QuietInv'
      BY <1>6 DEF JumpToChapter, LeaveMenu, Asleep
<1>7. ASSUME NEW c \in 0 .. N - 1, FollowFootnote(c) PROVE QuietInv'
      BY <1>7 DEF FollowFootnote, LeaveMenu, Asleep
<1>8. ASSUME NEW c \in 0 .. N - 1, NEW p \in 0 .. Pages[c] - 1,
             JumpToPage(<<c, p>>)
      PROVE  QuietInv'
      BY <1>8 DEF JumpToPage, LeaveMenu, Asleep
<1>9. ASSUME NEW c \in 0 .. N - 1, NEW p \in 0 .. Pages[c] - 1,
             JumpToBookmark(<<c, p>>)
      PROVE  QuietInv'
      BY <1>9 DEF JumpToBookmark, LeaveMenu, Asleep
<1>10. CASE FootnoteUnresolved
      BY <1>10 DEF FootnoteUnresolved, LeaveMenu, Asleep
<1>11. CASE LoopTop
      BY <1>11 DEF LoopTop, Observe
<1>12. CASE DeferredReset
      BY <1>12 DEF DeferredReset
<1>13. CASE RecoveryInput
      BY <1>13 DEF RecoveryInput
<1>14. CASE NoInput
      BY <1>14 DEF NoInput, Ready
<1>15. CASE GoHome
      BY <1>15 DEF GoHome, Ready
<1>16. CASE AskAgain
      BY <1>16 DEF AskAgain, Ready, Event
<1>17. CASE EndOfBookStay
      BY <1>17 DEF EndOfBookStay, Ready, Event
<1>18. CASE PagePrev
      BY <1>18 DEF PagePrev, Ready, Event, TurnTo, LeaveSection, StayOnPage
<1>19. CASE PageNext
      BY <1>19 DEF PageNext, Ready, Event, TurnTo, LeaveSection
<1>20. CASE SkipChapter
      BY <1>20 DEF SkipChapter, Ready, Event, LeaveSection
<1>21. CASE RestoreFootnote
      BY <1>21 DEF RestoreFootnote, Ready
<1>22. CASE ToggleTextRenderMode
      BY <1>22 DEF ToggleTextRenderMode, Ready, Event, FlushThen
<1>23. CASE OpenMenu
      BY <1>23 DEF OpenMenu, Ready, Event, FlushThen
<1>24. CASE Cross
      BY <1>24 DEF Cross, DropSection
<1>25. CASE Restored
      BY <1>25 DEF Restored, DropSection
<1>26. CASE ToggleRead
      BY <1>26 DEF ToggleRead
<1>27. CASE ToggleApply
      BY <1>27 DEF ToggleApply, DropSection
<1>28. CASE Drained
      BY <1>28 DEF Drained, AfterDrain, Idle
<1>29. CASE EnterMenu
      BY <1>29 DEF EnterMenu
<1>30. CASE MenuTick
      BY <1>30 DEF MenuTick, Observe
<1>31. CASE ReloadApply
      BY <1>31 DEF ReloadApply, DropSection
<1>32. CASE Exit
  <2>1. CASE ~Settled
        BY <1>32, <2>1 DEF Exit
  <2>2. CASE Settled
    <3>1. LaidOut /\ Flush(Here) /\ mpc' = "origin"
          BY <1>32, <2>2 DEF Exit, FlushThen, Settled
    <3>2. saved' = Here /\ Here \in Spots
          BY <3>1, HereIsSpot DEF Flush, LaidOut
    <3>3. origin # <<>> => origin[1] \in Spots
          BY Popped DEF OriginInv
    <3>4. /\ aim' = IF origin # <<>> THEN origin[1] ELSE Here
          /\ UNCHANGED <<origin, rpc, note>>
          BY <1>32, <2>2 DEF Exit
    <3> QED BY <2>2, <3>1, <3>2, <3>3, <3>4 DEF Settled
  <2> QED BY <2>1, <2>2
<1>33. CASE SaveOrigin
      BY <1>33 DEF SaveOrigin, SaveProgress
<1>34. CASE Join
      BY <1>34 DEF Join
<1>35. CASE Close
  <2>1. ~failed => Clamp(saved) = file
    <3>1. Idle /\ mpc = "exitDrain"
          BY <1>35 DEF Close
    <3> QED BY <3>1, TokensApart DEF PipeInv, Covered, Idle
  <2>2. aim # None => Clamp(aim) = aim /\ saved = aim
        BY <1>35, ClampSpot DEF Close
  <2> QED BY <1>35, <2>1, <2>2 DEF Close, Gone
<1>36. CASE RenderStart
      BY <1>36 DEF RenderStart
<1>37. CASE LayPage
      BY <1>37 DEF LayPage
<1>38. CASE LayAgain
      BY <1>38 DEF LayAgain, Event
<1>39. CASE LayFails
      BY <1>39 DEF LayFails
<1>40. CASE LayDone
      BY <1>40 DEF LayDone
<1>41. CASE NoMemoryForSection
      BY <1>41 DEF NoMemoryForSection, Event
<1>42. CASE GiveUp
      BY <1>42 DEF GiveUp, HeapTooSmall
<1>43. CASE PersistBeforeRestart
      BY <1>43 DEF PersistBeforeRestart, HeapTooSmall, Flush
<1>44. CASE Restart
      BY <1>44 DEF Restart, Idle, Reboot, Gone
<1>45. CASE DrawEmptyChapter
      BY <1>45 DEF DrawEmptyChapter
<1>46. CASE DrawPage
      BY <1>46 DEF DrawPage
<1>47. CASE DrawFails
      BY <1>47 DEF DrawFails, Event
<1>48. CASE Panic
      BY <1>48 DEF Panic, Reboot, Gone
<1>49. CASE StartJob
      BY <1>49 DEF StartJob, Idle
<1>50. CASE FinishJob
      BY <1>50 DEF FinishJob, Idle
<1>51. CASE UNCHANGED vars
      BY <1>51 DEF vars
<1> QED BY <1>1, <1>2, <1>3, <1>4, <1>5, <1>6, <1>7, <1>8, <1>9, <1>10, <1>11,
           <1>12, <1>13, <1>14, <1>15, <1>16, <1>17, <1>18, <1>19, <1>20, <1>21,
           <1>22, <1>23, <1>24, <1>25, <1>26, <1>27, <1>28, <1>29, <1>30, <1>31,
           <1>32, <1>33, <1>34, <1>35, <1>36, <1>37, <1>38, <1>39, <1>40, <1>41,
           <1>42, <1>43, <1>44, <1>45, <1>46, <1>47, <1>48, <1>49, <1>50, <1>51
      DEF Next, UserStep, MainStep, RenderStep, WriterStep

-----------------------------------------------------------------------------
\* The inductive invariant of the reader.
IInv ==
    /\ ControlInv /\ SpineInv /\ SectionInv /\ LocalInv /\ OriginInv
    /\ TrackInv /\ WriterInv /\ ClosedInv /\ PipeInv /\ QuietInv

\* The invariant holds at first.
LEMMA InitInv == Init => IInv
<1> SUFFICES ASSUME Init PROVE IInv
    OBVIOUS
<1> USE BookAssumption, BoundAssumption DEF Init
<1>1. ControlInv
      BY DEF ControlInv
<1>2. SpineInv
      BY DEF SpineInv, Chapter
<1>3. SectionInv /\ LocalInv
      BY DEF SectionInv, Page, LocalInv
<1>4. OriginInv
      BY DEF OriginInv
<1>5. TrackInv
      BY DEF TrackInv
<1>6. WriterInv /\ ClosedInv
      BY DEF WriterInv, ClosedInv, Idle, Spots, Chapters, Page
<1>7. PipeInv /\ QuietInv
      BY DEF PipeInv, QuietInv
<1> QED BY <1>1, <1>2, <1>3, <1>4, <1>5, <1>6, <1>7 DEF IInv

\* Every step keeps the invariant.
LEMMA InvStep ==
    ASSUME IInv, [Next]_vars
    PROVE  IInv'
<1>1. /\ ControlInv /\ SpineInv /\ SectionInv /\ LocalInv /\ OriginInv
      /\ TrackInv /\ WriterInv /\ ClosedInv /\ PipeInv /\ QuietInv
      BY DEF IInv
<1>2. ControlInv'
      BY <1>1, ControlStep
<1>3. SpineInv'
      BY <1>1, SpineStep
<1>4. SectionInv'
      BY <1>1, SectionStep
<1>5. LocalInv'
      BY <1>1, LocalStep
<1>6. OriginInv'
      BY <1>1, OriginStep
<1>7. TrackInv'
      BY <1>1, TrackStep
<1>8. WriterInv'
      BY <1>1, WriterKeeps
<1>9. ClosedInv'
      BY <1>1, ClosedStep
<1>10. PipeInv'
      BY <1>1, PipeStep
<1>11. QuietInv'
      BY <1>1, QuietStep
<1> QED BY <1>2, <1>3, <1>4, <1>5, <1>6, <1>7, <1>8, <1>9, <1>10, <1>11 DEF IInv

\* The invariant holds in every state, for every book, any depth of footnotes and
\* any ring of at least three jobs.
THEOREM Invariance == Spec => []IInv
<1>1. Init => IInv
      BY InitInv
<1>2. IInv /\ [Next]_vars => IInv'
      BY InvStep
<1> QED BY <1>1, <1>2, PTL DEF Spec

\* The invariant implies the type invariant.
LEMMA InvTypes == IInv => TypeOK
<1> SUFFICES ASSUME IInv PROVE TypeOK
    OBVIOUS
<1>1. /\ ControlInv /\ SpineInv /\ SectionInv /\ LocalInv /\ OriginInv
      /\ TrackInv /\ WriterInv
      BY DEF IInv
<1>2. local \in {None} \cup (Int \X Page)
      BY <1>1 DEF LocalInv
<1>3. section \in {None} \cup [pages : Nat, page : Page, stale : Nat]
      BY <1>1 DEF SectionInv
<1>4. {obs, saved} \subseteq {None} \cup Position
      BY <1>1 DEF TrackInv
<1>5. file \in (0 .. N - 1) \X Page
      BY <1>1 DEF WriterInv, Spots, Chapters
<1>6. spine \in Chapter /\ nextPage \in Page
      BY <1>1 DEF SpineInv, SectionInv
<1>7. Len(origin) <= MAX_FOOTNOTE_DEPTH /\ Len(queue) <= kMaxQueue
      BY <1>1 DEF OriginInv, WriterInv
<1> QED BY <1>1, <1>2, <1>3, <1>4, <1>5, <1>6, <1>7 DEF TypeOK, ControlInv

\* Every variable keeps its type: the chapter stays in -1 .. N over all skips and
\* jumps, the stack of positions and the job ring keep to their limits, and
\* progress.bin never holds a chapter that the book does not have.
THEOREM TypeCorrect == Spec => []TypeOK
BY Invariance, InvTypes, PTL

\* A covered position is the newest write of PipelineNewest, or, when there is
\* none, the one on the card.
LEMMA CoveredIsNewest ==
    ASSUME WriterInv, NEW slack, Covered(slack), mpc # "closed", ~failed
    PROVE  PipelineNewest
<1> DEFINE jobs == <<running>> \o queue
           writes == {i \in DOMAIN jobs : jobs[i] \notin {None, Recents}}
           newest == CHOOSE i \in writes : \A j \in writes : j <= i
<1>1. Len(queue) \in Nat /\ \A i \in 1 .. Len(queue) : queue[i] \in Jobs
      BY DEF WriterInv
<1>2. running \in Jobs \cup {None}
      BY DEF WriterInv
<1>3. /\ DOMAIN jobs = 1 .. Len(queue) + 1
      /\ jobs[1] = running
      /\ \A i \in 1 .. Len(queue) : jobs[i + 1] = queue[i]
  <2>1. queue \in Seq(Jobs \cup {None}) /\ <<running>> \in Seq(Jobs \cup {None})
        BY <1>2 DEF WriterInv
  <2> QED BY <1>1, <2>1
<1> HIDE DEF jobs
<1>4. writes = {i \in 1 .. Len(queue) + 1 : jobs[i] \in Position}
  <2>1. \A i \in 1 .. Len(queue) + 1 : jobs[i] \in Jobs \cup {None}
    <3>1. ASSUME NEW i \in 1 .. Len(queue) + 1, i # 1
          PROVE  jobs[i] \in Jobs
      <4>1. i - 1 \in 1 .. Len(queue) /\ jobs[(i - 1) + 1] = queue[i - 1]
            BY <1>1, <1>3, <3>1
      <4> QED BY <1>1, <4>1
    <3> QED BY <1>2, <1>3, <3>1
  <2> QED BY <1>3, <2>1, TokensApart DEF Jobs
<1> HIDE DEF writes
<1>5. ASSUME NEW i \in writes, \A j \in writes : j <= i
      PROVE  newest = i
  <2>1. newest \in writes /\ \A j \in writes : j <= newest
        BY <1>5
  <2> QED BY <1>1, <1>4, <1>5, <2>1
<1> HIDE DEF newest
<1>6. Clamp(saved) = IF writes = {} THEN file ELSE Clamp(jobs[newest])
  <2>1. CASE /\ \A i \in 1 .. Len(queue) : queue[i] = Recents
             /\ Clamp(saved) = IF running \in Position THEN Clamp(running) ELSE file
    <3>1. \A i \in writes : i = 1
      <4>1. SUFFICES ASSUME NEW i \in writes, i # 1 PROVE FALSE
            OBVIOUS
      <4>2. i - 1 \in 1 .. Len(queue) /\ jobs[(i - 1) + 1] = queue[i - 1] /\ jobs[i] \in Position
            BY <1>1, <1>3, <1>4, <4>1
      <4> QED BY <2>1, <1>1, <1>4, <4>2, TokensApart
    <3>2. 1 \in writes <=> running \in Position
          BY <1>1, <1>3, <1>4
    <3>3. CASE running \in Position
      <4>1. newest = 1
            BY <1>5, <3>1, <3>2, <3>3
      <4> QED BY <1>3, <2>1, <3>2, <3>3, <4>1
    <3>4. CASE running \notin Position
      <4>1. writes = {}
            BY <3>1, <3>2, <3>4
      <4> QED BY <2>1, <3>4, <4>1
    <3> QED BY <3>3, <3>4
  <2>2. ASSUME NEW i \in 1 .. Len(queue),
               queue[i] \in Position, Clamp(queue[i]) = Clamp(saved),
               \A j \in (i + 1) .. Len(queue) : queue[j] = Recents
        PROVE  Clamp(saved) = IF writes = {} THEN file ELSE Clamp(jobs[newest])
    <3>1. jobs[i + 1] = queue[i] /\ i + 1 \in writes
          BY <1>1, <1>3, <1>4, <2>2
    <3>2. ASSUME NEW j \in writes PROVE j <= i + 1
      <4>1. SUFFICES ASSUME j > i + 1 PROVE FALSE
            BY <1>1, <1>4
      <4>2. /\ j - 1 \in (i + 1) .. Len(queue) /\ jobs[(j - 1) + 1] = queue[j - 1]
            /\ jobs[j] \in Position /\ (j - 1) + 1 = j
            BY <1>1, <1>3, <1>4, <4>1
      <4> QED BY <2>2, <4>2, TokensApart
    <3>3. newest = i + 1
          BY <1>5, <3>1, <3>2
    <3> QED BY <2>2, <3>1, <3>3
  <2> QED BY <2>1, <2>2 DEF Covered
<1> QED BY <1>6 DEF PipelineNewest, jobs, writes, newest

\* flushProgressIfNeeded, saveProgressNow and persistProgressBeforeRestart: the
\* position that the tracker takes for saved is the newest one on its way to
\* progress.bin, or there, unless a write has failed.  No older position overtakes
\* it and no recent.json pushes it out of the ring.
THEOREM NewestReachesCard == Spec => []PipelineNewest
<1>1. IInv => PipelineNewest
  <2>1. CASE mpc = "closed" \/ failed
        BY <2>1 DEF PipelineNewest
  <2>2. CASE mpc # "closed" /\ ~failed
        BY <2>2, CoveredIsNewest DEF IInv, PipeInv
  <2> QED BY <2>1, <2>2
<1> QED BY <1>1, Invariance, PTL

\* onExit(): a book that is closed on a page that lies open is on the card at that
\* page, or at the outermost link that the reader has followed, unless a write has
\* failed.
THEOREM ClosedQuietly == Spec => []QuietClose
<1>1. IInv => QuietClose
      BY DEF IInv, QuietInv, QuietClose
<1> QED BY <1>1, Invariance, PTL

================================================================================
