------------------------------ MODULE EpubReader ------------------------------
(***************************************************************************)
(* Where the reader is in an EPUB, and how that reaches the SD card:       *)
(* src/activities/reader/EpubReaderActivity.cpp with ReaderProgressTracker *)
(* and EpubProgressSink.  Three tasks take part.  The main loop takes the  *)
(* buttons, the render task lays chapters out and draws pages while it     *)
(* holds the RenderLock, and the writer task runs the jobs of AsyncWriter, *)
(* here in its abstract form (module JobQueue).  The main loop reads and   *)
(* writes the position without the lock, except in the few blocks that     *)
(* drop a section.                                                         *)
(*                                                                         *)
(* A position is a chapter and a page; page counts in it, anchors, and the *)
(* projection of a page onto a new layout are left out.  Highlight mode    *)
(* and the menu entries that leave the position alone are left out too.    *)
(***************************************************************************)
EXTENDS Integers, Sequences

CONSTANTS
    N,          \* epub->getSpineItemsCount()
    Pages,      \* the number of pages of each chapter, 0 .. N-1
    TextStart,  \* epub->getSpineIndexForTextReference()
    MAX_FOOTNOTE_DEPTH,
    kMaxQueue,  \* of AsyncWriter
    Recents,    \* a job that rewrites recent.json
    None,       \* no section, no job, no position
    MaxEvents   \* bound on keys and failures from one opening to the next

PastEnd == 65535    \* UINT16_MAX as a page: the last one of the chapter

\* spineCount is a uint16_t (BookMetadataCache.h).
ASSUME BookAssumption ==
    /\ N \in 1 .. PastEnd
    /\ Pages \in [0 .. N - 1 -> Nat]
    /\ TextStart \in 0 .. N - 1

\* The code's ring has room for four.  Three is what it takes: a position can
\* have recent.json behind it twice, from the main loop and from the render task.
ASSUME BoundAssumption ==
    MAX_FOOTNOTE_DEPTH \in Nat /\ kMaxQueue \in Nat /\ kMaxQueue >= 3 /\ MaxEvents \in Nat

ASSUME TokenAssumption ==
    /\ None # Recents
    /\ {None, Recents} \cap (Int \X Int) = {}
    /\ None \notin [pages : Nat, page : Int, stale : Nat]

VARIABLES
    mpc,        \* where the main loop is
    local,      \* a position, or a chapter step and a page, that it holds
    rpc,        \* where the render task is; "none" when it is deleted
    note,       \* the render task's notification, as 0 or 1
    spine,      \* currentSpineIndex
    nextPage,   \* nextPageNumber
    section,    \* pageCount and currentPage of the section, or None
    resetPending,   \* pendingSectionReset
    recovery,   \* layoutRecoveryState_ # None
    goHome,     \* pendingGoHome
    origin,     \* savedPositions, up to footnoteDepth
    obs,        \* lastObserved_ of the tracker; dirty_ is obs # saved
    saved,      \* lastSaved_
    queue,      \* jobs of AsyncWriter that wait
    running,    \* the job that runs
    file,       \* progress.bin
    failed,     \* history: a write of progress.bin has failed since the book was opened
    aim,        \* history: where the book was quietly closed
    events      \* keys and failures since the book was opened

place == <<spine, nextPage, section>>
flags == <<resetPending, recovery, goHome>>
tracker == <<obs, saved>>
writer == <<queue, running, file, failed>>
vars == <<mpc, local, rpc, note, place, flags, origin, tracker, writer, aim, events>>

LaidOut == section # None /\ section.pages > 0
Here == <<spine, section.page>>
AtEndOfBook == spine > 0 /\ spine >= N
LockFree == rpc \in {"none", "sleep"}

Idle == queue = <<>> /\ running = None      \* what drainBlocking waits for

\* One more of the things that MaxEvents bounds.
Event ==
    /\ events < MaxEvents
    /\ events' = events + 1

-----------------------------------------------------------------------------
(* The writer task and what is submitted to it.                            *)

\* Slip: a full ring drops what is new.
EnqueueDroppingNew(jobs) ==
    LET all == queue \o jobs
    IN  queue' = SubSeq(all, 1, IF Len(all) > kMaxQueue THEN kMaxQueue ELSE Len(all))

\* AsyncWriter::submit, for one job after the other.
Enqueue(jobs) ==
    LET all == queue \o jobs
        over == IF Len(all) > kMaxQueue THEN Len(all) - kMaxQueue ELSE 0
    IN  queue' = SubSeq(all, over + 1, Len(all))

\* The file never holds a chapter that the book does not have.
Clamp(pos) ==
    CASE pos[1] < 0 -> <<0, pos[2]>>
      [] pos[1] >= N -> <<N - 1, PastEnd>>
      [] OTHER -> pos

\* Slip: the test for a job is off by one.
StartJobLeavingLast ==
    /\ running = None
    /\ Len(queue) > 1
    /\ running' = Head(queue)
    /\ queue' = Tail(queue)
    /\ UNCHANGED <<mpc, local, rpc, note, place, flags, origin, tracker, file, failed, aim, events>>

StartJob ==
    /\ running = None
    /\ queue # <<>>
    /\ running' = Head(queue)
    /\ queue' = Tail(queue)
    /\ UNCHANGED <<mpc, local, rpc, note, place, flags, origin, tracker, file, failed, aim, events>>

\* A write that cannot open its temporary file leaves progress.bin alone.
FinishJob ==
    /\ running # None
    /\ running' = None
    /\ \/ running # Recents /\ file' = Clamp(running) /\ UNCHANGED <<failed, events>>
       \/ running # Recents /\ failed' = TRUE /\ Event /\ UNCHANGED file
       \/ running = Recents /\ UNCHANGED <<file, failed, events>>
    /\ UNCHANGED <<mpc, local, rpc, note, place, flags, origin, tracker, queue, aim>>

-----------------------------------------------------------------------------
(* The tracker, as the activity uses it.                                   *)

\* flushProgressIfNeeded(false): nothing to observe without a laid out page.
Observe == obs' = IF LaidOut THEN Here ELSE obs

\* tracker.flush(force) of an observed position, and recent.json's percent
\* when it has changed.
Flush(pos) ==
    /\ obs' = pos
    /\ saved' = pos
    /\ \E percent \in {<<>>, <<Recents>>} :
         Enqueue((IF pos = saved THEN <<>> ELSE <<pos>>) \o percent)

\* flushProgressIfNeeded(true): with a laid out page it drains in the end.
FlushThen(drain, otherwise) ==
    \/ LaidOut /\ Flush(Here) /\ mpc' = drain
    \/ ~LaidOut /\ mpc' = otherwise /\ UNCHANGED <<tracker, queue>>

SaveProgress(pos) ==
    /\ obs' = pos
    /\ saved' = pos
    /\ Enqueue(<<pos>>)

-----------------------------------------------------------------------------
(* Opening the book, and the device going down under it.                   *)

Init ==
    /\ mpc = "closed"
    /\ local = None
    /\ rpc = "none"
    /\ note = 0
    /\ spine = 0 /\ nextPage = 0 /\ section = None
    /\ resetPending = FALSE /\ recovery = FALSE /\ goHome = FALSE
    /\ origin = <<>>
    /\ obs = None /\ saved = None
    /\ queue = <<>> /\ running = None
    /\ file = <<0, 0>>      \* or no file, which reads as the same place
    /\ failed = FALSE
    /\ aim = None
    /\ events = 0

\* onEnter(): a book that is at its first chapter opens at its text.
Open ==
    /\ mpc = "closed"
    /\ mpc' = "loop"
    /\ rpc' = "sleep"
    /\ note' = 1
    /\ spine' = IF file[1] = 0 THEN TextStart ELSE file[1]
    /\ nextPage' = file[2]
    /\ obs' = file
    /\ saved' = file
    /\ Enqueue(<<Recents>>)
    /\ aim' = None
    /\ failed' = FALSE
    /\ UNCHANGED <<local, section, flags, origin, running, file, events>>

\* The activity is gone, whether it was closed or the device rebooted.
Gone ==
    /\ mpc' = "closed"
    /\ rpc' = "none"
    /\ note' = 0
    /\ local' = None
    /\ section' = None
    /\ resetPending' = FALSE /\ recovery' = FALSE /\ goHome' = FALSE
    /\ origin' = <<>>
    /\ obs' = None /\ saved' = None
    /\ spine' = 0 /\ nextPage' = 0
    /\ events' = 0

\* silentRestartToReader, or a panic: what is still queued is lost.
Reboot ==
    /\ Gone
    /\ queue' = <<>>
    /\ running' = None
    /\ aim' = None
    /\ UNCHANGED <<file, failed>>

-----------------------------------------------------------------------------
(* The render task.                                                        *)

Asleep(notified) ==
    /\ rpc' = "sleep"
    /\ note' = notified

\* render() up to the section: it gives up when a reset is pending, draws the
\* end of the book, draws the section that is there, or starts one.
RenderStart ==
    /\ rpc = "sleep"
    /\ note = 1
    /\ note' = 0
    /\ LET s == IF spine < 0 THEN 0 ELSE IF spine > N THEN N ELSE spine IN
         \/ /\ resetPending
            /\ UNCHANGED <<rpc, place>>
         \/ /\ ~resetPending /\ s = N
            /\ spine' = s
            /\ UNCHANGED <<rpc, nextPage, section>>
         \/ /\ ~resetPending /\ s < N /\ section # None
            /\ spine' = s
            /\ rpc' = "draw"
            /\ UNCHANGED <<nextPage, section>>
         \/ /\ ~resetPending /\ s < N /\ section = None
            /\ spine' = s
            /\ rpc' = "lay"
            /\ section' = [pages |-> 0, page |-> 0, stale |-> 0]
            /\ UNCHANGED nextPage
    /\ UNCHANGED <<mpc, local, flags, origin, tracker, writer, aim, events>>

\* createSectionFile: pageCount grows page by page, in the open section.  A
\* cached section is read in one go, which looks like a fast layout.
LayPage ==
    /\ rpc \in {"lay", "relay"}
    /\ section # None
    /\ section.pages < section.stale + Pages[spine]
    /\ section' = [section EXCEPT !.pages = @ + 1]
    /\ UNCHANGED <<mpc, local, rpc, note, spine, nextPage, flags, origin, tracker, writer, aim, events>>

\* A layout that fails is tried once more in the same Section, whose count
\* goes on from the pages of the failed attempt.
LayAgain ==
    /\ rpc = "lay"
    /\ Event
    /\ section # None
    /\ rpc' = "relay"
    /\ section' = [section EXCEPT !.stale = section.pages]
    /\ UNCHANGED <<mpc, local, note, spine, nextPage, flags, origin, tracker, writer, aim>>

LayFails ==
    /\ rpc = "relay"
    /\ section # None
    /\ section' = None
    /\ recovery' = TRUE
    /\ rpc' = "sleep"
    /\ UNCHANGED <<mpc, local, note, spine, nextPage, resetPending, goHome, origin, tracker, writer, aim, events>>

LayDone ==
    /\ rpc \in {"lay", "relay"}
    /\ section # None
    /\ section.pages = section.stale + Pages[spine]
    /\ section' = [section EXCEPT !.page =
                     IF nextPage = PastEnd THEN section.pages - 1 ELSE nextPage]
    /\ rpc' = "draw"
    /\ UNCHANGED <<mpc, local, note, spine, nextPage, flags, origin, tracker, writer, aim, events>>

\* new Section returns null, before there is anything else to undo.
NoMemoryForSection ==
    /\ rpc = "lay"
    /\ Event
    /\ section = [pages |-> 0, page |-> 0, stale |-> 0]
    /\ section' = None
    /\ rpc' = "sleep"
    /\ UNCHANGED <<mpc, local, note, spine, nextPage, flags, origin, tracker, writer, aim>>

\* The heap is too small to lay out, or to draw: restart while the budget for
\* that lasts, give the book up when it is spent.
HeapTooSmall ==
    \/ rpc = "lay" /\ section # None /\ section.pages = 0
    \/ rpc = "draw" /\ LaidOut

GiveUp ==
    /\ HeapTooSmall
    /\ goHome' = TRUE
    /\ section' = IF rpc = "lay" THEN None ELSE section
    /\ rpc' = "sleep"
    /\ UNCHANGED <<mpc, local, note, spine, nextPage, resetPending, recovery, origin, tracker, writer, aim, events>>

\* persistProgressBeforeRestart: whatever was observed last, drained.
PersistBeforeRestart ==
    /\ HeapTooSmall
    /\ Flush(obs)
    /\ rpc' = "restart"
    /\ UNCHANGED <<mpc, local, note, place, flags, origin, running, file, failed, aim, events>>

Restart ==
    /\ rpc = "restart"
    /\ Idle
    /\ Reboot

DrawEmptyChapter ==
    /\ rpc = "draw"
    /\ section # None
    /\ section.pages = 0
    /\ rpc' = "sleep"
    /\ UNCHANGED <<mpc, local, note, place, flags, origin, tracker, writer, aim, events>>

InChapter(page) ==
    IF page < 0 THEN 0
    ELSE IF page >= section.pages THEN section.pages - 1 ELSE page

\* Draw the page; a page past those of the last layout cannot be loaded.
DrawPage ==
    /\ rpc = "draw"
    /\ LaidOut
    /\ InChapter(section.page) < Pages[spine]
    /\ section' = [section EXCEPT !.page = InChapter(section.page)]
    /\ obs' = <<spine, InChapter(section.page)>>
    /\ rpc' = "sleep"
    /\ UNCHANGED <<mpc, local, note, spine, nextPage, flags, origin, saved, writer, aim, events>>

\* The page cannot be read, or not be drawn with this font: ask the main loop
\* to drop the section.
DrawFails ==
    /\ rpc = "draw"
    /\ Event
    /\ LaidOut
    /\ section' = [section EXCEPT !.page = InChapter(section.page)]
    /\ resetPending' = TRUE
    /\ rpc' = "sleep"
    /\ UNCHANGED <<mpc, local, note, spine, nextPage, recovery, goHome, origin, tracker, writer, aim>>

\* The section went away under the task that draws it.
Panic ==
    /\ rpc \in {"lay", "relay", "draw"}
    /\ section = None
    /\ Reboot

RenderStep ==
    \/ RenderStart \/ LayPage \/ LayAgain \/ LayFails \/ LayDone
    \/ NoMemoryForSection \/ GiveUp \/ PersistBeforeRestart \/ Restart
    \/ DrawEmptyChapter \/ DrawPage \/ DrawFails \/ Panic

-----------------------------------------------------------------------------
(* The main loop without a sub-activity.                                   *)

\* loop() up to the recovery screen.
LoopTop ==
    /\ mpc = "loop"
    /\ Observe
    /\ \/ goHome /\ goHome' = FALSE /\ mpc' = "exit" /\ UNCHANGED resetPending
       \/ ~goHome /\ resetPending /\ resetPending' = FALSE /\ mpc' = "reset" /\ UNCHANGED goHome
       \/ ~goHome /\ ~resetPending /\ mpc' = "gate" /\ UNCHANGED <<goHome, resetPending>>
    /\ UNCHANGED <<local, rpc, note, place, recovery, origin, saved, writer, aim, events>>

\* section.reset(), after the flag and without the lock.
DeferredReset ==
    /\ mpc = "reset"
    /\ section' = None
    /\ mpc' = "gate"
    /\ UNCHANGED <<local, rpc, note, spine, nextPage, flags, origin, tracker, writer, aim, events>>

\* On the recovery screen a key lays the chapter out again, Back goes home.
RecoveryInput ==
    /\ mpc = "gate"
    /\ recovery
    /\ \/ recovery' = FALSE /\ note' = 1 /\ mpc' = "loop"
       \/ recovery' = FALSE /\ note' = note /\ mpc' = "exit"
       \/ recovery' = TRUE /\ note' = note /\ mpc' = "loop"
    /\ UNCHANGED <<local, rpc, place, resetPending, goHome, origin, tracker, writer, aim, events>>

Ready == mpc = "gate" /\ ~recovery

NoInput ==
    /\ Ready
    /\ mpc' = "loop"
    /\ UNCHANGED <<local, rpc, note, place, flags, origin, tracker, writer, aim, events>>

GoHome ==
    /\ Ready
    /\ origin = <<>> \/ AtEndOfBook
    /\ mpc' = "exit"
    /\ UNCHANGED <<local, rpc, note, place, flags, origin, tracker, writer, aim, events>>

\* A page key while there is no section only asks for a frame.
AskAgain ==
    /\ Ready
    /\ Event
    /\ ~AtEndOfBook
    /\ section = None
    /\ note' = 1
    /\ mpc' = "loop"
    /\ UNCHANGED <<local, rpc, place, flags, origin, tracker, writer, aim>>

EndOfBookStay ==
    /\ Ready
    /\ Event
    /\ AtEndOfBook
    /\ spine' = N - 1
    /\ nextPage' = PastEnd
    /\ note' = 1
    /\ mpc' = "loop"
    /\ UNCHANGED <<local, rpc, section, flags, origin, tracker, writer, aim>>

\* A turn inside the section moves its page and observes it, under no lock.
TurnTo(page) ==
    /\ section' = [section EXCEPT !.page = page]
    /\ obs' = IF section.pages > 0 THEN <<spine, page>> ELSE obs
    /\ note' = 1
    /\ mpc' = "loop"
    /\ UNCHANGED local

\* A turn out of the section, or a chapter skip, will take the lock.
LeaveSection(by, page) ==
    /\ mpc' = "cross"
    /\ local' = <<by, page>>
    /\ UNCHANGED <<section, obs, note>>

\* At the first page of the book there is nothing to do but draw it again.
StayOnPage ==
    /\ note' = 1
    /\ mpc' = "loop"
    /\ UNCHANGED <<section, obs, local>>

PagePrev ==
    /\ Ready
    /\ Event
    /\ ~AtEndOfBook
    /\ section # None
    /\ \/ section.page > 0 /\ TurnTo(section.page - 1)
       \/ section.page <= 0 /\ spine > 0 /\ LeaveSection(-1, PastEnd)
       \/ section.page <= 0 /\ spine <= 0 /\ StayOnPage
    /\ UNCHANGED <<rpc, spine, nextPage, flags, origin, saved, writer, aim>>

PageNext ==
    /\ Ready
    /\ Event
    /\ ~AtEndOfBook
    /\ section # None
    /\ \/ section.page < section.pages - 1 /\ TurnTo(section.page + 1)
       \/ section.page >= section.pages - 1 /\ LeaveSection(1, 0)
    /\ UNCHANGED <<rpc, spine, nextPage, flags, origin, saved, writer, aim>>

\* Bound: a second skip back before the first one is drawn is left out.
SkipChapter ==
    /\ Ready
    /\ Event
    /\ ~AtEndOfBook
    /\ \E by \in {-1, 1} : spine + by >= -1 /\ LeaveSection(by, 0)
    /\ UNCHANGED <<rpc, spine, nextPage, flags, origin, saved, writer, aim>>

RestoreFootnote ==
    /\ Ready
    /\ origin # <<>>
    /\ local' = origin[Len(origin)]
    /\ origin' = SubSeq(origin, 1, Len(origin) - 1)
    /\ mpc' = "restore"
    /\ UNCHANGED <<rpc, note, place, flags, tracker, writer, aim, events>>

\* The blocks under the RenderLock: drop the section, then ask for a frame.
DropSection(chapter, page) ==
    /\ LockFree
    /\ spine' = chapter
    /\ nextPage' = page
    /\ section' = None
    /\ note' = 1
    /\ mpc' = "loop"
    /\ local' = None
    /\ UNCHANGED <<rpc, flags, origin, running, file, failed, aim, events>>

Cross ==
    /\ mpc = "cross"
    /\ DropSection(spine + local[1], local[2])
    /\ UNCHANGED <<tracker, queue>>

Restored ==
    /\ mpc = "restore"
    /\ DropSection(local[1], local[2])
    /\ UNCHANGED <<tracker, queue>>

\* toggleTextRenderMode() saves, lays out anew, and saves what it restores.
ToggleTextRenderMode ==
    /\ Ready
    /\ Event
    /\ FlushThen("toggleDrain", "toggleRead")
    /\ UNCHANGED <<local, rpc, note, place, flags, origin, running, file, failed, aim>>

\* Slip: the chapter is not cut to its 16 bits.
ToggleReadSigned ==
    /\ mpc = "toggleRead"
    /\ local' = IF LaidOut THEN Here ELSE <<spine, 0>>
    /\ mpc' = "toggleLock"
    /\ UNCHANGED <<rpc, note, place, flags, origin, tracker, writer, aim, events>>

ToggleRead ==
    /\ mpc = "toggleRead"
    /\ local' = IF LaidOut THEN Here
                ELSE IF spine >= N THEN <<N - 1, PastEnd>>
                ELSE <<spine % 2^16, 0>>
    /\ mpc' = "toggleLock"
    /\ UNCHANGED <<rpc, note, place, flags, origin, tracker, writer, aim, events>>

ToggleApply ==
    /\ mpc = "toggleLock"
    /\ DropSection(spine, local[2])
    /\ SaveProgress(local)

-----------------------------------------------------------------------------
(* The menu and what is behind it.  The reader's render task is deleted    *)
(* for the time and created anew.                                          *)

OpenMenu ==
    /\ Ready
    /\ Event
    /\ FlushThen("menuDrain", "menuLock")
    /\ UNCHANGED <<local, rpc, note, place, flags, origin, running, file, failed, aim>>

\* drainBlocking() returns.
AfterDrain ==
    [menuDrain |-> "menuLock", toggleDrain |-> "toggleRead", reloadDrain |-> "reloadLock"]

Drained ==
    /\ mpc \in DOMAIN AfterDrain
    /\ Idle
    /\ mpc' = AfterDrain[mpc]
    /\ UNCHANGED <<local, rpc, note, place, flags, origin, tracker, writer, aim, events>>

EnterMenu ==
    /\ mpc = "menuLock"
    /\ LockFree
    /\ rpc' = "none"
    /\ note' = 0
    /\ mpc' = "menu"
    /\ UNCHANGED <<local, place, flags, origin, tracker, writer, aim, events>>

\* loop() observes on every turn, the menu's too, and goes home if it must.
MenuTick ==
    /\ mpc = "menu"
    /\ Observe
    /\ goHome' = FALSE
    /\ mpc' = IF goHome THEN "exit" ELSE "menu"
    /\ UNCHANGED <<local, rpc, note, place, resetPending, recovery, origin, saved, writer, aim, events>>

LeaveMenu ==
    /\ mpc = "menu"
    /\ mpc' = "loop"
    /\ Asleep(1)
    /\ UNCHANGED <<local, flags, tracker, writer, aim, events>>

MenuBack == LeaveMenu /\ UNCHANGED <<place, origin>>

\* applyOrientation() with another orientation.
Rotated ==
    /\ nextPage' = IF section # None THEN section.page ELSE nextPage
    /\ section' = None
    /\ UNCHANGED spine

MenuRotate ==
    /\ LeaveMenu
    /\ Rotated
    /\ UNCHANGED origin

Goto(chapter, page) ==
    /\ spine' = chapter
    /\ nextPage' = page
    /\ section' = None

\* The chapter list.
JumpToChapter(chapter) ==
    /\ LeaveMenu
    /\ IF spine # chapter \/ section # None THEN Goto(chapter, 0) ELSE UNCHANGED place
    /\ UNCHANGED origin

\* A page in the chapter list, or the position a KOReader sync has fetched.
JumpToPage(pos) ==
    /\ LeaveMenu
    /\ IF spine # pos[1] \/ (section # None /\ section.page # pos[2])
         THEN Goto(pos[1], pos[2]) ELSE UNCHANGED place
    /\ UNCHANGED origin

PushOrigin ==
    IF section # None /\ Len(origin) < MAX_FOOTNOTE_DEPTH
      THEN Append(origin, Here) ELSE origin

JumpToBookmark(pos) ==
    /\ LeaveMenu
    /\ IF section = None \/ Here # pos THEN Goto(pos[1], pos[2]) ELSE UNCHANGED place
    /\ origin' = PushOrigin

FollowFootnote(chapter) ==
    /\ LeaveMenu
    /\ Goto(chapter, 0)
    /\ origin' = PushOrigin

\* A link that leads nowhere undoes the push.
FootnoteUnresolved ==
    /\ LeaveMenu
    /\ origin' = IF PushOrigin = <<>> THEN <<>>
                 ELSE SubSeq(PushOrigin, 1, Len(PushOrigin) - 1)
    /\ UNCHANGED place

\* reloadCurrentSectionForDisplaySettings(), after a change of theme or of
\* Bold Swap; the latter may come with a rotation, which has dropped the section.
MenuReload ==
    /\ mpc = "menu"
    /\ Asleep(0)
    /\ \/ FlushThen("reloadDrain", "reloadLock") /\ UNCHANGED place
       \/ Rotated /\ mpc' = "reloadLock" /\ UNCHANGED <<tracker, queue>>
    /\ UNCHANGED <<local, flags, origin, running, file, failed, aim, events>>

ReloadApply ==
    /\ mpc = "reloadLock"
    /\ \/ /\ section # None
          /\ DropSection(spine, section.page)
          /\ SaveProgress(Here)
       \/ /\ section = None
          /\ DropSection(spine, nextPage)
          /\ UNCHANGED <<tracker, queue>>

-----------------------------------------------------------------------------
(* Closing the book: onExit().                                             *)

\* The device goes to sleep, from the page or from the menu.
Sleep ==
    /\ mpc \in {"loop", "menu"}
    /\ mpc' = "exit"
    /\ UNCHANGED <<local, rpc, note, place, flags, origin, tracker, writer, aim, events>>

\* A page lies open and no frame is under way or asked for.
Settled == LaidOut /\ LockFree /\ note = 0

\* Slip: the page is saved before a last look at it.
ExitUnobserved ==
    /\ mpc = "exit"
    /\ Flush(obs)
    /\ mpc' = "origin"
    /\ aim' = IF ~Settled THEN None ELSE IF origin # <<>> THEN origin[1] ELSE Here
    /\ UNCHANGED <<local, rpc, note, place, flags, origin, running, file, failed, events>>

Exit ==
    /\ mpc = "exit"
    /\ FlushThen("origin", "origin")
    /\ aim' = IF ~Settled THEN None ELSE IF origin # <<>> THEN origin[1] ELSE Here
    /\ UNCHANGED <<local, rpc, note, place, flags, origin, running, file, failed, events>>

\* Whoever leaves in a footnote comes back to the outermost link.
SaveOrigin ==
    /\ mpc = "origin"
    /\ IF origin # <<>> THEN SaveProgress(origin[1]) ELSE UNCHANGED <<tracker, queue>>
    /\ mpc' = "join"
    /\ UNCHANGED <<local, rpc, note, place, flags, origin, running, file, failed, aim, events>>

\* The render task is deleted while it does not hold the lock.
Join ==
    /\ mpc = "join"
    /\ LockFree
    /\ rpc' = "none"
    /\ note' = 0
    /\ mpc' = "exitDrain"
    /\ UNCHANGED <<local, place, flags, origin, tracker, writer, aim, events>>

Close ==
    /\ mpc = "exitDrain"
    /\ Idle
    /\ Gone
    /\ UNCHANGED <<writer, aim>>

-----------------------------------------------------------------------------
UserStep ==
    \/ Open \/ Sleep \/ MenuBack \/ MenuRotate \/ MenuReload
    \/ \E c \in 0 .. N - 1 : JumpToChapter(c) \/ FollowFootnote(c)
    \/ \E c \in 0 .. N - 1 : \E p \in 0 .. Pages[c] - 1 :
         JumpToPage(<<c, p>>) \/ JumpToBookmark(<<c, p>>)
    \/ FootnoteUnresolved

MainStep ==
    \/ LoopTop \/ DeferredReset \/ RecoveryInput
    \/ NoInput \/ GoHome \/ AskAgain \/ EndOfBookStay \/ PagePrev \/ PageNext
    \/ SkipChapter \/ RestoreFootnote \/ ToggleTextRenderMode \/ OpenMenu
    \/ Cross \/ Restored \/ ToggleRead \/ ToggleApply \/ Drained \/ EnterMenu \/ MenuTick
    \/ ReloadApply \/ Exit \/ SaveOrigin \/ Join \/ Close

WriterStep == StartJob \/ FinishJob

Next == UserStep \/ MainStep \/ RenderStep \/ WriterStep

Spec == Init /\ [][Next]_vars

\* The three tasks have one priority and share the core.  What the user does
\* is left to the user: a loop without input is a step of the main loop too.
FairSpec == Spec /\ WF_vars(MainStep) /\ WF_vars(RenderStep) /\ WF_vars(WriterStep)

-----------------------------------------------------------------------------
(* Properties.                                                             *)

Chapter == -1 .. N
Page == Int
Uint16 == 0 .. 2^16 - 1
Position == Uint16 \X Page

TypeOK ==
    /\ mpc \in {"closed", "loop", "reset", "gate", "cross", "restore", "menu", "menuDrain",
               "menuLock", "toggleDrain", "toggleRead", "toggleLock", "reloadDrain",
               "reloadLock", "exit", "origin", "join", "exitDrain"}
    /\ local \in {None} \cup (Int \X Page)
    /\ rpc \in {"none", "sleep", "lay", "relay", "draw", "restart"}
    /\ note \in {0, 1}
    /\ spine \in Chapter
    /\ nextPage \in Page
    /\ section \in {None} \cup [pages : Nat, page : Page, stale : Nat]
    /\ resetPending \in BOOLEAN /\ recovery \in BOOLEAN /\ goHome \in BOOLEAN
    /\ Len(origin) <= MAX_FOOTNOTE_DEPTH
    /\ {obs, saved} \subseteq {None} \cup Position
    /\ Len(queue) <= kMaxQueue
    /\ file \in (0 .. N - 1) \X Page
    /\ failed \in BOOLEAN

\* What the tracker takes for saved is what the card will hold once the writer
\* is done: of all the jobs from menu, toggle, reload, restart and exit, none
\* is overtaken by an older one or pushed out of the ring by another kind.
PipelineNewest ==
    mpc # "closed" /\ ~failed =>
        LET jobs == <<running>> \o queue
            writes == {i \in DOMAIN jobs : jobs[i] \notin {None, Recents}}
            newest == CHOOSE i \in writes : \A j \in writes : j <= i
        IN  Clamp(saved) = IF writes = {} THEN file ELSE Clamp(jobs[newest])

\* "We save the page when you close the book": a book that is closed on an
\* open page, with nothing to draw, is on the card at that page, or at the
\* link that the reader followed into the notes.
QuietClose ==
    mpc = "closed" /\ aim # None /\ ~failed => file = aim

\* A book that is being closed gets closed, whatever is laid out or written.
CloseCompletes == mpc = "exit" ~> mpc = "closed"

-----------------------------------------------------------------------------
(* What the comments say, and the code does not keep.                      *)

\* EpubReaderActivity.cpp:1851 "Progress is persisted on lifecycle events
\* only - book close ..." and 1855 "we save the page when you close the book":
\* so does closing it from its end, where no page is open any more.
FinishedBookIsSaved ==
    [][mpc = "exit" /\ mpc' = "origin" /\ AtEndOfBook /\ ~recovery => saved' = obs']_vars

\* EpubReaderActivity.cpp:1699 "Defer section.reset() to loop() - it will
\* rebuild and re-render."
ResetIsRedrawn == resetPending ~> (rpc = "draw" \/ mpc = "closed")

=============================================================================
