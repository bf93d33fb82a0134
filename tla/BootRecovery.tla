----------------------------- MODULE BootRecovery ------------------------------
(***************************************************************************)
(* From reset to a usable screen: setup() and the routes of main.cpp, the  *)
(* destination decided by boot/BootSequenceOrchestrator.h, the restart     *)
(* budget of SilentRestart.cpp in RTC memory, and the ways the EPUB reader *)
(* may fail to open its book.  Two guards meet here: a durable one         *)
(* (readerActivityLoadCount on the card) that sends the next boot home,    *)
(* and a volatile one that bounds the silent restarts in between.  The     *)
(* card is reset-safe a file at a time (module SafeFile), so that a write  *)
(* is one step here; recent.json is written by the background writer.      *)
(***************************************************************************)
EXTENDS Naturals

CONSTANTS
    Books,                        \* paths of EPUB files
    NoBook,                       \* the empty path
    kMaxConsecutiveAutoRestarts,
    MaxFaults                     \* bound on panics, power cuts, failed writes

ASSUME BooksAssumption == NoBook \notin Books
ASSUME BudgetAssumption == kMaxConsecutiveAutoRestarts \in Nat
ASSUME FaultsAssumption == MaxFaults \in Nat

VARIABLES
    pc,          \* how far setup(), the router and the shown activity are
    open, loads, \* APP_STATE.openEpubPath, .readerActivityLoadCount
    dirty,       \* PersistentStore::dirty_ of APP_STATE
    recents,     \* RECENT_BOOKS: its first book and all of them
    job,         \* a rewrite of recent.json waits in the AsyncWriter
    disk,        \* state.json and recent.json
    rtc,         \* RTC_NOINIT memory: [magic, target, autos]
    silent,      \* this boot follows a silent restart
    target,      \* where that restart wanted to go: "home" or "reader"
    book,        \* the book the reader was asked for
    entered,     \* EpubReaderActivity::onEnter has registered the book
    drawn,       \* a page of it has been shown
    gaveUp,      \* openGiveUpExit_
    faults,
    unresolved,  \* history: a boot opened a book, and no frame, no close since
    slept,       \* history: the book the device went to sleep in
    promised     \* history: the book a silent restart is to come back to

state == <<open, loads, dirty>>
list == <<recents, job>>
boot == <<silent, target>>
reader == <<book, entered, drawn, gaveUp>>
history == <<unresolved, slept, promised>>
vars == <<pc, state, list, disk, rtc, boot, reader, faults, history>>

NoRecents == [newest |-> NoBook, all |-> {}]
RecentLists == [newest : Books \cup {NoBook}, all : SUBSET Books]

\* PersistManager().flushAll(): the card after every dirty store was written.
Flushed == IF dirty THEN [disk EXCEPT !.open = open, !.loads = loads] ELSE disk

\* AsyncWriter::drainBlocking(): the queued rewrite is done as well.
Drained(d) == IF job THEN [d EXCEPT !.recents = recents] ELSE d

-----------------------------------------------------------------------------
Init ==
    /\ pc = "reset"
    /\ open = NoBook /\ loads = 0 /\ dirty = FALSE
    /\ recents = NoRecents /\ job = FALSE
    /\ disk = [open |-> NoBook, loads |-> 0, recents |-> NoRecents]
    /\ rtc = [magic |-> FALSE, target |-> "home", autos |-> 0]
    /\ silent = FALSE /\ target = "home"
    /\ book = NoBook /\ entered = FALSE /\ drawn = FALSE /\ gaveUp = FALSE
    /\ faults = 0
    /\ unresolved = FALSE /\ slept = NoBook /\ promised = NoBook

(* setup() *)

\* consumeSilentRebootTarget(): read and clear; any boot that is not silent
\* begins with a fresh budget, whatever the memory holds.
ConsumeTarget ==
    /\ pc = "reset"
    /\ silent' = rtc.magic
    /\ target' = IF rtc.magic THEN rtc.target ELSE "home"
    /\ rtc' = [magic |-> FALSE, target |-> "home",
               autos |-> IF rtc.magic THEN rtc.autos ELSE 0]
    /\ pc' = "load"
    /\ UNCHANGED <<state, list, disk, reader, faults, history>>

LoadStores ==
    /\ pc = "load"
    /\ open' = disk.open /\ loads' = disk.loads /\ dirty' = FALSE
    /\ recents' = disk.recents /\ job' = FALSE
    /\ book' = NoBook /\ entered' = FALSE /\ drawn' = FALSE /\ gaveUp' = FALSE
    /\ pc' = "decide"
    /\ UNCHANGED <<disk, rtc, boot, faults, history>>

\* decideBoot() after a silent restart.
DecideSilent ==
    /\ pc = "decide" /\ silent
    /\ IF target = "reader" /\ open # NoBook
         THEN book' = open /\ pc' = "launch"
         ELSE book' = NoBook /\ pc' = "home"
    /\ slept' = NoBook /\ promised' = NoBook
    /\ UNCHANGED <<state, list, disk, rtc, boot, entered, drawn, gaveUp,
                   faults, unresolved>>

\* A slip: the crash-loop guard is not consulted.
MayResumeUnguarded(backHeld) == ~backHeld /\ recents # NoRecents

\* decideBoot() otherwise: home with Back held, after an opening that did not
\* succeed, or with no book to resume; else the newest or a random book.
MayResume(backHeld) == ~backHeld /\ ~(loads > 0) /\ recents # NoRecents

DecideNormal(backHeld, randomBookOnBoot) ==
    /\ pc = "decide" /\ ~silent
    /\ IF MayResume(backHeld)
         THEN /\ IF randomBookOnBoot /\ recents.all # {recents.newest}
                   THEN book' \in recents.all
                   ELSE book' = recents.newest
              /\ pc' = "bump"
         ELSE book' = NoBook /\ pc' = "home"
    /\ slept' = NoBook /\ promised' = NoBook
    /\ UNCHANGED <<state, list, disk, rtc, boot, entered, drawn, gaveUp,
                   faults, unresolved>>

\* A slip: the guard is saved with the debounce of every other change.
BumpGuardSoon(saved) ==
    /\ pc = "bump"
    /\ open' = NoBook
    /\ loads' = loads + 1
    /\ dirty' = TRUE
    /\ unresolved' = TRUE
    /\ pc' = "launch"
    /\ UNCHANGED <<list, disk, rtc, boot, reader, faults, slept, promised>>

\* bumpGuard and saveToFileSync(), whose result is not looked at.
BumpGuard(saved) ==
    /\ pc = "bump"
    /\ open' = NoBook
    /\ loads' = IF loads < 255 THEN loads + 1 ELSE loads
    /\ IF saved
         THEN /\ disk' = [disk EXCEPT !.open = NoBook, !.loads = loads']
              /\ dirty' = FALSE
              /\ faults' = faults
         ELSE /\ faults < MaxFaults
              /\ faults' = faults + 1
              /\ UNCHANGED <<disk, dirty>>
    /\ unresolved' = saved
    /\ pc' = "launch"
    /\ UNCHANGED <<list, rtc, boot, reader, slept, promised>>

-----------------------------------------------------------------------------
(* Silent restarts                                                         *)

\* tryReserveAutoSilentRestart(), then silentRestartToReader() up to the hooks:
\* the magic is set first.
Budget == rtc.autos < kMaxConsecutiveAutoRestarts
RestartToReader ==
    /\ rtc' = [magic |-> TRUE, target |-> "reader", autos |-> rtc.autos + 1]
    /\ pc' = "arm"

\* A slip: the restart relies on its callers to have flushed.
RestartUnflushed(flushed) ==
    /\ pc = "arm"
    /\ promised' = IF rtc.target = "reader" /\ entered THEN book ELSE NoBook
    /\ pc' = "reset"
    /\ UNCHANGED <<state, list, disk, rtc, boot, reader, faults, unresolved,
                   slept>>

\* The hook flushes the stores, as far as it can, and the device restarts.
\* What still waits in the AsyncWriter is lost.
Restart(flushed) ==
    /\ pc = "arm"
    /\ IF flushed
         THEN disk' = Flushed /\ faults' = faults
         ELSE faults < MaxFaults /\ faults' = faults + 1 /\ disk' = disk
    /\ promised' = IF flushed /\ rtc.target = "reader" /\ entered
                     THEN book ELSE NoBook
    /\ pc' = "reset"
    /\ UNCHANGED <<state, list, rtc, boot, reader, unresolved, slept>>

-----------------------------------------------------------------------------
(* The reader                                                              *)

\* loadEpub() returned nothing; a message is shown instead of the book.
LoadFails ==
    /\ pc = "launch"
    /\ pc' = "notice"
    /\ UNCHANGED <<state, list, disk, rtc, boot, reader, faults, history>>

\* An activity could not be allocated, or could not start its task; in the
\* second case its onExit runs, which for a reader takes the guard back.
\* With a path in APP_STATE and budget left the device restarts.
EntryFails(exits) ==
    /\ pc \in {"launch", "home"}
    /\ IF exits /\ pc = "launch"
         THEN /\ loads' = 0 /\ dirty' = TRUE /\ unresolved' = FALSE
              /\ disk' = Drained(disk) /\ job' = FALSE
         ELSE UNCHANGED <<loads, dirty, unresolved, disk, job>>
    /\ \/ /\ open # NoBook /\ Budget
          /\ RestartToReader
       \/ /\ ~(open # NoBook /\ Budget)
          /\ pc' = "oom" /\ UNCHANGED rtc
    /\ UNCHANGED <<open, recents, boot, reader, faults, slept, promised>>

Enter ==
    /\ pc = "launch"
    /\ pc' = "reading"
    /\ UNCHANGED <<state, list, disk, rtc, boot, reader, faults, history>>

\* registerRecentBook(), the end of onEnter; the render task runs already.
Register ==
    /\ pc = "reading" /\ ~entered
    /\ entered' = TRUE
    /\ open' = book /\ dirty' = TRUE
    /\ recents' = [newest |-> book, all |-> recents.all \cup {book}]
    /\ job' = TRUE
    /\ UNCHANGED <<pc, loads, disk, rtc, boot, book, drawn, gaveUp, faults,
                   history>>

\* A frame is on the screen: both guards are taken back, the durable one on
\* the card before anything else.
RenderOk ==
    /\ pc = "reading"
    /\ drawn' = TRUE
    /\ rtc' = [rtc EXCEPT !.autos = 0]
    /\ IF loads # 0
         THEN /\ loads' = 0 /\ dirty' = FALSE
              /\ disk' = [disk EXCEPT !.open = open, !.loads = 0]
         ELSE UNCHANGED <<loads, dirty, disk>>
    /\ unresolved' = FALSE
    /\ UNCHANGED <<pc, open, list, boot, book, entered, gaveUp, faults, slept,
                   promised>>

\* A slip: the layout that preceded the failed frame has given the budget back.
RenderOomAfterLayout ==
    /\ pc = "reading"
    /\ disk' = Drained(disk) /\ job' = FALSE
    /\ rtc' = [magic |-> TRUE, target |-> "reader", autos |-> 1]
    /\ pc' = "arm"
    /\ UNCHANGED <<state, recents, boot, reader, faults, history>>

\* No memory for the page, in the smallest font too, or none to lay out the
\* chapter: drain, restart, or give up and leave the durable guard set.
RenderOom ==
    /\ pc = "reading"
    /\ \/ /\ Budget
          /\ disk' = Drained(disk) /\ job' = FALSE
          /\ RestartToReader
          /\ UNCHANGED gaveUp
       \/ /\ ~Budget
          /\ gaveUp' = TRUE
          /\ UNCHANGED <<disk, job, rtc, pc>>
    /\ UNCHANGED <<state, recents, boot, book, entered, drawn, faults, history>>

\* A menu or another screen over the book cannot be entered.
SubactivityFails ==
    /\ pc = "reading" /\ entered
    /\ open # NoBook /\ Budget
    /\ RestartToReader
    /\ UNCHANGED <<state, list, disk, boot, reader, faults, history>>

\* EpubReaderActivity::onExit: the guard is taken back, unless the opening was
\* given up; the writer is drained.
CloseReader ==
    IF gaveUp
      THEN UNCHANGED <<loads, unresolved>>
      ELSE loads' = 0 /\ unresolved' = FALSE

\* The route home persists first and closes the reader then.
GoHome ==
    /\ pc = "reading" /\ entered
    /\ disk' = Drained(Flushed) /\ job' = FALSE
    /\ CloseReader
    /\ dirty' = ~gaveUp
    /\ pc' = "home"
    /\ book' = NoBook /\ entered' = FALSE /\ drawn' = FALSE /\ gaveUp' = FALSE
    /\ UNCHANGED <<open, recents, rtc, boot, faults, slept, promised>>

-----------------------------------------------------------------------------
(* Everything else the main loop does                                      *)

\* A book chosen at home; the route to the reader persists nothing.
OpenBook(b) ==
    /\ pc = "home"
    /\ book' = b
    /\ pc' = "launch"
    /\ UNCHANGED <<state, list, disk, rtc, boot, entered, drawn, gaveUp,
                   faults, history>>

\* The message or the out-of-memory screen is left; both lead to a route that
\* persists.
Dismiss ==
    /\ pc \in {"notice", "oom"}
    /\ disk' = Drained(Flushed) /\ job' = FALSE /\ dirty' = FALSE
    /\ pc' = "home"
    /\ UNCHANGED <<open, loads, recents, rtc, boot, reader, faults, history>>

\* The end of a WiFi session: silentRestart(), to the home screen.
LeaveWifi ==
    /\ pc = "home"
    /\ rtc' = [rtc EXCEPT !.magic = TRUE, !.target = "home"]
    /\ pc' = "arm"
    /\ UNCHANGED <<state, list, disk, boot, reader, faults, history>>

\* PersistManager().tick() with the debounce over.
Looping == pc \in {"home", "notice", "oom"} \/ (pc = "reading" /\ entered)

Tick ==
    /\ Looping /\ dirty
    /\ disk' = Flushed /\ dirty' = FALSE
    /\ UNCHANGED <<pc, open, loads, list, rtc, boot, reader, faults, history>>

\* The writer task rewrites recent.json.
RewriteRecents ==
    /\ pc \in {"reading", "home", "arm"} /\ job
    /\ disk' = [disk EXCEPT !.recents = recents] /\ job' = FALSE
    /\ UNCHANGED <<pc, state, recents, rtc, boot, reader, faults, history>>

\* triggerDeepSleep(): the activity is torn down, then enterDeepSleep persists
\* and stops the processor.
CloseForSleep ==
    /\ Looping
    /\ IF pc = "reading"
         THEN /\ CloseReader
              /\ dirty' = (dirty \/ ~gaveUp)
              /\ disk' = Drained(disk) /\ job' = FALSE
              /\ slept' = IF gaveUp THEN NoBook ELSE book
         ELSE /\ UNCHANGED <<loads, unresolved, dirty, disk, job>>
              /\ slept' = NoBook
    /\ pc' = "sleep"
    /\ UNCHANGED <<open, recents, rtc, boot, reader, faults, promised>>

\* A slip: what onExit left behind is persisted before, not after it.
SleepUnpersisted ==
    /\ pc = "sleep"
    /\ pc' = "asleep"
    /\ UNCHANGED <<state, list, disk, rtc, boot, reader, faults, history>>

PersistForSleep ==
    /\ pc = "sleep"
    /\ disk' = Drained(Flushed) /\ job' = FALSE /\ dirty' = FALSE
    /\ pc' = "asleep"
    /\ UNCHANGED <<open, loads, recents, rtc, boot, reader, faults, history>>

Wake ==
    /\ pc = "asleep"
    /\ pc' = "reset"
    /\ UNCHANGED <<state, list, disk, rtc, boot, reader, faults, history>>

\* A panic, a watchdog reset or the last resort of enterNewActivity; or a power
\* cut, which leaves garbage in the budget and no magic.
Reset(powerCut) ==
    /\ pc \notin {"reset", "asleep"}
    /\ faults < MaxFaults
    /\ faults' = faults + 1
    /\ IF powerCut
         THEN \E n \in 0 .. kMaxConsecutiveAutoRestarts + 1 :
                 rtc' = [magic |-> FALSE, target |-> "home", autos |-> n]
         ELSE rtc' = rtc
    /\ slept' = NoBook /\ promised' = NoBook
    /\ pc' = "reset"
    /\ UNCHANGED <<state, list, disk, boot, reader, unresolved>>

Setup ==
    \/ ConsumeTarget \/ LoadStores \/ DecideSilent
    \/ \E backHeld, randomBookOnBoot \in BOOLEAN :
          DecideNormal(backHeld, randomBookOnBoot)
    \/ \E saved \in BOOLEAN : BumpGuard(saved)
    \/ \E flushed \in BOOLEAN : Restart(flushed)
Open ==
    \/ LoadFails \/ Enter \/ Register
    \/ \E exits \in BOOLEAN : EntryFails(exits)
Draw == RenderOk \/ RenderOom

User ==
    \/ GoHome \/ Dismiss \/ LeaveWifi \/ CloseForSleep \/ PersistForSleep \/ Wake
    \/ SubactivityFails
    \/ \E b \in Books : OpenBook(b)

Next ==
    \/ Setup \/ Open \/ Draw \/ User
    \/ Tick \/ RewriteRecents
    \/ \E powerCut \in BOOLEAN : Reset(powerCut)

Spec == Init /\ [][Next]_vars

\* setup() runs on by itself, so does an activity that is being entered, the
\* render task answers the notification that ends onEnter, and loop() goes
\* home after an opening that was given up; enterDeepSleep does not come back.
FairSpec ==
    /\ Spec
    /\ WF_vars(Setup)
    /\ WF_vars(pc # "home" /\ Open)
    /\ WF_vars(~drawn /\ Draw)
    /\ WF_vars(gaveUp /\ GoHome)
    /\ WF_vars(PersistForSleep)

-----------------------------------------------------------------------------
(* Properties.                                                             *)

TypeOK ==
    /\ pc \in {"reset", "load", "decide", "bump", "launch", "arm", "reading",
               "home", "notice", "oom", "sleep", "asleep"}
    /\ open \in Books \cup {NoBook}
    /\ loads \in {0, 1}
    /\ dirty \in BOOLEAN
    /\ recents \in RecentLists
    /\ job \in BOOLEAN
    /\ disk \in [open : Books \cup {NoBook}, loads : {0, 1}, recents : RecentLists]
    /\ rtc \in [magic : BOOLEAN, target : {"home", "reader"}, autos : Nat]
    /\ silent \in BOOLEAN
    /\ target \in {"home", "reader"}
    /\ book \in Books \cup {NoBook}
    /\ entered \in BOOLEAN /\ drawn \in BOOLEAN /\ gaveUp \in BOOLEAN
    /\ faults \in 0 .. MaxFaults
    /\ unresolved \in BOOLEAN
    /\ slept \in Books \cup {NoBook} /\ promised \in Books \cup {NoBook}

\* main.cpp:1066: a boot never opens a book while an earlier boot's opening has
\* come to nothing - no frame, no close by the user, no entry that failed and
\* took the guard back - however many panics, power cuts and silent restarts
\* lie between the two.
GuardHolds == pc = "bump" => ~unresolved

\* ActivityRouter.cpp:64: after going to sleep in a book, the next boot finds
\* that book first in the list and no guard that would send it home.
ResumesAfterSleep ==
    pc = "decide" /\ ~silent /\ slept # NoBook
      => loads = 0 /\ recents.newest = slept

\* SilentRestart.h:17: a restart for lack of memory comes back to the book that
\* was open, once that book was registered and the stores could be flushed.
ReturnsToBook ==
    pc = "decide" /\ promised # NoBook
      => silent /\ target = "reader" /\ open = promised

\* EpubReaderActivity.cpp:1752: left alone, every start ends on a screen: the
\* restarts for lack of memory run out.
Settled ==
    \/ pc \in {"home", "notice", "oom", "asleep"}
    \/ pc = "reading" /\ drawn

BootSettles == pc = "reset" ~> Settled

=============================================================================
