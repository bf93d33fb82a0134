-------------------------- MODULE BootRecoveryProofs --------------------------
(***************************************************************************)
(* The safety properties of BootRecovery, for every set of books, every    *)
(* restart budget and every number of faults.                              *)
(*                                                                         *)
(* A property speaks of the moment in which the boot decides.  The         *)
(* invariant says what the card and the RTC memory must hold at every      *)
(* earlier moment for that: GuardInv for the two copies of the load count, *)
(* ListInv and ReaderInv for the book that is open, SleepInv for the way   *)
(* from a book through sleep to the next decision, ReturnInv for the way   *)
(* through a silent restart.                                               *)
(***************************************************************************)
EXTENDS BootRecovery, TLAPS

\* TypeOK in three parts.
Cards == [open : Books \cup {NoBook}, loads : {0, 1}, recents : RecentLists]
Rtcs == [magic : BOOLEAN, target : {"home", "reader"}, autos : Nat]
Pcs == {"reset", "load", "decide", "bump", "launch", "arm", "reading", "home",
        "notice", "oom", "sleep", "asleep"}
PlainTypes ==
    /\ pc \in Pcs
    /\ open \in Books \cup {NoBook}
    /\ loads \in {0, 1}
    /\ dirty \in BOOLEAN
    /\ recents \in RecentLists
    /\ job \in BOOLEAN
    /\ silent \in BOOLEAN
    /\ target \in {"home", "reader"}
    /\ book \in Books \cup {NoBook}
    /\ entered \in BOOLEAN /\ drawn \in BOOLEAN /\ gaveUp \in BOOLEAN
    /\ faults \in 0 .. MaxFaults
    /\ unresolved \in BOOLEAN
    /\ slept \in Books \cup {NoBook} /\ promised \in Books \cup {NoBook}

Known(r) == r = NoRecents \/ r.newest \in Books

\* What is opened is a book, and only with the guard down.
BookInv ==
    /\ pc \in {"bump", "launch", "reading"} => book \in Books
    /\ Known(recents) /\ Known(disk.recents)
    /\ pc = "bump" => loads = 0

\* An opening that came to nothing is on the card, and in RAM once loaded.
GuardInv ==
    unresolved => /\ disk.loads = 1
                  /\ pc \notin {"reset", "load"} => loads = 1

\* With no rewrite waiting, recent.json is the list.
ListInv == ~job /\ pc \notin {"reset", "load"} => disk.recents = recents

\* The book of an entered reader is the newest one and the open one, which
\* reaches the card with the next flush; a restart is armed by its magic.
ReaderInv ==
    /\ entered => pc \in {"reading", "arm", "sleep", "asleep", "reset", "load"}
    /\ entered /\ pc \in {"reading", "arm"} =>
          open = book /\ recents.newest = book /\ (dirty \/ disk.open = open)
    /\ pc = "arm" => rtc.magic

SleepInv ==
    slept # NoBook =>
        /\ pc \in {"sleep", "asleep", "reset", "load", "decide"}
        /\ pc = "sleep" => /\ loads = 0 /\ dirty
                           /\ recents.newest = slept /\ disk.recents = recents
        /\ pc \in {"asleep", "reset", "load"} =>
              disk.loads = 0 /\ disk.recents.newest = slept
        /\ pc = "decide" => loads = 0 /\ recents.newest = slept

ReturnInv ==
    promised # NoBook =>
        /\ pc \in {"reset", "load", "decide"}
        /\ pc = "reset" =>
              rtc.magic /\ rtc.target = "reader" /\ disk.open = promised
        /\ pc = "load" => silent /\ target = "reader" /\ disk.open = promised
        /\ pc = "decide" => silent /\ target = "reader" /\ open = promised

IInv ==
    /\ TypeOK /\ BookInv /\ GuardInv /\ ListInv
    /\ ReaderInv /\ SleepInv /\ ReturnInv

------------------------------------------------------------------------------
\* TypeOK is the three of them.
LEMMA TypeParts == TypeOK <=> PlainTypes /\ disk \in Cards /\ rtc \in Rtcs
  BY DEF TypeOK, PlainTypes, Pcs, Cards, Rtcs

\* Every step keeps the types of the plain variables: a load count of two would
\* need a second opening with the guard up (BumpGuard of main.cpp).
LEMMA PlainStep ==
    ASSUME PlainTypes, disk \in Cards, rtc \in Rtcs, BookInv, [Next]_vars
    PROVE  PlainTypes'
<1> USE DEF PlainTypes, Pcs, state, list, boot, reader, history
<1>a. RecentLists' = RecentLists
      BY DEF RecentLists
<1>1. CASE ConsumeTarget
  <2>1. /\ silent' \in BOOLEAN /\ target' \in {"home", "reader"}
        /\ pc' = "load"
        /\ UNCHANGED <<state, list, reader, faults, history>>
        BY <1>1 DEF ConsumeTarget, Rtcs
  <2> QED BY <2>1, <1>a
<1>2. CASE LoadStores
  <2>1. /\ open' \in Books \cup {NoBook} /\ loads' \in {0, 1}
        /\ recents' \in RecentLists
        BY <1>2 DEF LoadStores, Cards
  <2>2. /\ dirty' = FALSE /\ job' = FALSE /\ book' = NoBook
        /\ entered' = FALSE /\ drawn' = FALSE /\ gaveUp' = FALSE
        /\ pc' = "decide" /\ UNCHANGED <<boot, faults, history>>
        BY <1>2 DEF LoadStores
  <2> QED BY <2>1, <2>2, <1>a
<1>3. CASE DecideSilent
      BY <1>3, <1>a DEF DecideSilent
<1>4. ASSUME NEW backHeld \in BOOLEAN,
             NEW randomBookOnBoot \in BOOLEAN,
             DecideNormal(backHeld, randomBookOnBoot)
      PROVE  PlainTypes'
  <2>1. book' \in Books \cup {NoBook} /\ pc' \in {"bump", "home"}
        BY <1>4 DEF DecideNormal, MayResume, BookInv, Known, NoRecents,
                    RecentLists
  <2>2. /\ slept' = NoBook /\ promised' = NoBook
        /\ UNCHANGED <<state, list, boot, entered, drawn, gaveUp, faults,
                       unresolved>>
        BY <1>4 DEF DecideNormal
  <2> QED BY <2>1, <2>2, <1>a
<1>5. ASSUME NEW saved \in BOOLEAN, BumpGuard(saved) PROVE PlainTypes'
  <2>1. loads' = 1
        BY <1>5 DEF BumpGuard, BookInv
  <2>2. dirty' \in BOOLEAN /\ unresolved' \in BOOLEAN
        BY <1>5 DEF BumpGuard
  <2>3. faults' \in 0 .. MaxFaults
        BY <1>5, FaultsAssumption DEF BumpGuard
  <2>4. /\ open' = NoBook /\ pc' = "launch"
        /\ UNCHANGED <<list, boot, reader, slept, promised>>
        BY <1>5 DEF BumpGuard
  <2> QED BY <2>1, <2>2, <2>3, <2>4, <1>a
<1>6. ASSUME NEW flushed \in BOOLEAN, Restart(flushed) PROVE PlainTypes'
  <2>1. promised' \in Books \cup {NoBook} /\ faults' \in 0 .. MaxFaults
        BY <1>6, FaultsAssumption DEF Restart
  <2>2. /\ pc' = "reset"
        /\ UNCHANGED <<state, list, boot, reader, unresolved, slept>>
        BY <1>6 DEF Restart
  <2> QED BY <2>1, <2>2, <1>a
<1>7. CASE LoadFails
      BY <1>7, <1>a DEF LoadFails
<1>8. CASE Enter
      BY <1>8, <1>a DEF Enter
<1>9. CASE Register
      BY <1>9, <1>a DEF Register, RecentLists, BookInv
<1>10. ASSUME NEW exits \in BOOLEAN, EntryFails(exits) PROVE PlainTypes'
  <2>1. /\ loads' \in {0, 1} /\ dirty' \in BOOLEAN /\ job' \in BOOLEAN
        /\ unresolved' \in BOOLEAN
        BY <1>10 DEF EntryFails
  <2>2. /\ pc' \in {"arm", "oom"}
        /\ UNCHANGED <<open, recents, boot, reader, faults, slept, promised>>
        BY <1>10 DEF EntryFails, RestartToReader
  <2> QED BY <2>1, <2>2, <1>a
<1>11. CASE RenderOk
  <2>1. /\ drawn' = TRUE /\ unresolved' = FALSE
        /\ loads' \in {0, 1} /\ dirty' \in BOOLEAN
        BY <1>11 DEF RenderOk
  <2>2. UNCHANGED <<pc, open, list, boot, book, entered, gaveUp, faults,
                    slept, promised>>
        BY <1>11 DEF RenderOk
  <2>p. pc' \in Pcs
        BY <2>2
  <2> HIDE DEF Pcs
  <2> QED BY <2>1, <2>2, <2>p, <1>a
<1>12. CASE RenderOom
  <2>1. /\ pc' \in {"arm", "reading"} /\ job' \in BOOLEAN
        /\ gaveUp' \in BOOLEAN
        BY <1>12 DEF RenderOom, RestartToReader
  <2>2. UNCHANGED <<state, recents, boot, book, entered, drawn, faults,
                    history>>
        BY <1>12 DEF RenderOom
  <2> QED BY <2>1, <2>2, <1>a
<1>13. CASE GoHome
  <2>1. loads' \in {0, 1} /\ unresolved' \in BOOLEAN /\ dirty' \in BOOLEAN
        BY <1>13 DEF GoHome, CloseReader
  <2>2. /\ job' = FALSE /\ pc' = "home" /\ book' = NoBook
        /\ entered' = FALSE /\ drawn' = FALSE /\ gaveUp' = FALSE
        /\ UNCHANGED <<open, recents, boot, faults, slept, promised>>
        BY <1>13 DEF GoHome
  <2> QED BY <2>1, <2>2, <1>a
<1>14. CASE Dismiss
  <2>1. /\ job' = FALSE /\ dirty' = FALSE /\ pc' = "home"
        /\ UNCHANGED <<open, loads, recents, boot, reader, faults, history>>
        BY <1>14 DEF Dismiss
  <2> QED BY <2>1, <1>a, ZenonT(40)
<1>15. CASE LeaveWifi
  <2>1. /\ pc' = "arm"
        /\ UNCHANGED <<state, list, boot, reader, faults, history>>
        BY <1>15 DEF LeaveWifi
  <2> QED BY <2>1, <1>a
<1>16. CASE CloseForSleep
  <2>1. /\ loads' \in {0, 1} /\ unresolved' \in BOOLEAN /\ dirty' \in BOOLEAN
        /\ job' \in BOOLEAN /\ slept' \in Books \cup {NoBook}
        BY <1>16 DEF CloseForSleep, CloseReader
  <2>2. /\ pc' = "sleep"
        /\ UNCHANGED <<open, recents, boot, reader, faults, promised>>
        BY <1>16 DEF CloseForSleep
  <2> QED BY <2>1, <2>2, <1>a
<1>17. CASE PersistForSleep
  <2>1. /\ job' = FALSE /\ dirty' = FALSE /\ pc' = "asleep"
        /\ UNCHANGED <<open, loads, recents, boot, reader, faults, history>>
        BY <1>17 DEF PersistForSleep
  <2> QED BY <2>1, <1>a, ZenonT(40)
<1>18. CASE Wake
      BY <1>18, <1>a DEF Wake
<1>19. CASE SubactivityFails
  <2>1. /\ pc' = "arm"
        /\ UNCHANGED <<state, list, boot, reader, faults, history>>
        BY <1>19 DEF SubactivityFails, RestartToReader
  <2> QED BY <2>1, <1>a
<1>20. ASSUME NEW b \in Books, OpenBook(b) PROVE PlainTypes'
      BY <1>20, <1>a DEF OpenBook
<1>21. CASE Tick
  <2>1. /\ dirty' = FALSE
        /\ UNCHANGED <<pc, open, loads, list, boot, reader, faults, history>>
        BY <1>21 DEF Tick
  <2>p. pc' \in Pcs
        BY <2>1
  <2> HIDE DEF Pcs
  <2> QED BY <2>1, <2>p, <1>a, ZenonT(40)
<1>22. CASE RewriteRecents
  <2>1. /\ job' = FALSE
        /\ UNCHANGED <<pc, state, recents, boot, reader, faults, history>>
        BY <1>22 DEF RewriteRecents
  <2>p. pc' \in Pcs
        BY <2>1
  <2> HIDE DEF Pcs
  <2> QED BY <2>1, <2>p, <1>a, ZenonT(40)
<1>23. ASSUME NEW powerCut \in BOOLEAN, Reset(powerCut) PROVE PlainTypes'
  <2>1. /\ UNCHANGED <<state, list, boot, reader, unresolved>>
        /\ slept' = NoBook /\ promised' = NoBook /\ pc' = "reset"
        /\ faults < MaxFaults /\ faults' = faults + 1
        BY <1>23 DEF Reset
  <2>2. faults' \in 0 .. MaxFaults
        BY <2>1, FaultsAssumption
  <2> QED BY <2>1, <2>2, <1>a
<1>24. CASE UNCHANGED vars
      BY <1>24, <1>a DEF vars
<1> QED BY <1>1, <1>2, <1>3, <1>4, <1>5, <1>6, <1>7, <1>8, <1>9, <1>10,
          <1>11, <1>12, <1>13, <1>14, <1>15, <1>16, <1>17, <1>18, <1>19,
          <1>20, <1>21, <1>22, <1>23, <1>24
       DEF Next, Setup, Open, Draw, User

\* Every step keeps the type of the card.
LEMMA CardStep ==
    ASSUME PlainTypes, disk \in Cards, BookInv, [Next]_vars
    PROVE  disk' \in Cards
<1> USE DEF PlainTypes, Cards, state, list, boot, reader, history
<1>1. CASE UNCHANGED disk
      BY <1>1
<1>2. ASSUME NEW saved \in BOOLEAN, BumpGuard(saved) PROVE disk' \in Cards
  <2>1. open' = NoBook /\ loads' = 1
        BY <1>2 DEF BumpGuard, BookInv
  <2>2. disk' = disk \/ disk' = [disk EXCEPT !.open = NoBook, !.loads = 1]
        BY <1>2, <2>1 DEF BumpGuard
  <2> QED BY <2>2
<1>3. ASSUME NEW flushed \in BOOLEAN, Restart(flushed) PROVE disk' \in Cards
      BY <1>3 DEF Restart, Flushed
<1>4. ASSUME NEW exits \in BOOLEAN, EntryFails(exits) PROVE disk' \in Cards
      BY <1>4 DEF EntryFails, Drained, RestartToReader
<1>5. CASE RenderOk
      BY <1>5 DEF RenderOk
<1>6. CASE RenderOom
      BY <1>6 DEF RenderOom, Drained, RestartToReader
<1>7. CASE GoHome
      BY <1>7 DEF GoHome, Drained, Flushed, CloseReader
<1>8. CASE Dismiss
      BY <1>8 DEF Dismiss, Drained, Flushed
<1>9. CASE CloseForSleep
      BY <1>9 DEF CloseForSleep, Drained, CloseReader, Looping
<1>10. CASE PersistForSleep
      BY <1>10 DEF PersistForSleep, Drained, Flushed
<1>11. CASE Tick
      BY <1>11 DEF Tick, Flushed, Looping
<1>12. CASE RewriteRecents
      BY <1>12 DEF RewriteRecents
<1> QED BY <1>1, <1>2, <1>3, <1>4, <1>5, <1>6, <1>7, <1>8, <1>9, <1>10,
          <1>11, <1>12
       DEF Next, Setup, Open, Draw, User, ConsumeTarget, LoadStores,
           DecideSilent, DecideNormal, LoadFails, Enter, Register, LeaveWifi,
           Wake, SubactivityFails, OpenBook, Reset, vars

\* Every step keeps the type of the RTC memory.
LEMMA RtcStep ==
    ASSUME PlainTypes, rtc \in Rtcs, [Next]_vars
    PROVE  rtc' \in Rtcs
<1> USE DEF PlainTypes, Rtcs, state, list, boot, reader, history
<1>1. CASE UNCHANGED rtc
      BY <1>1
<1>2. CASE ConsumeTarget
      BY <1>2 DEF ConsumeTarget
<1>3. ASSUME NEW exits \in BOOLEAN, EntryFails(exits) PROVE rtc' \in Rtcs
  <2>1. rtc' = rtc \/ rtc' = [magic |-> TRUE, target |-> "reader",
                                autos |-> rtc.autos + 1]
        BY <1>3 DEF EntryFails, RestartToReader
  <2>2. rtc.autos + 1 \in Nat
        OBVIOUS
  <2>3. CASE rtc' = rtc
        BY <2>3
  <2>4. CASE rtc' = [magic |-> TRUE, target |-> "reader",
                     autos |-> rtc.autos + 1]
        BY <2>2, <2>4
  <2> QED BY <2>1, <2>3, <2>4
<1>4. CASE RenderOk
      BY <1>4 DEF RenderOk
<1>5. CASE RenderOom
  <2>1. rtc' = rtc \/ rtc' = [magic |-> TRUE, target |-> "reader",
                                autos |-> rtc.autos + 1]
        BY <1>5 DEF RenderOom, RestartToReader
  <2>2. rtc.autos + 1 \in Nat
        OBVIOUS
  <2>3. CASE rtc' = rtc
        BY <2>3
  <2>4. CASE rtc' = [magic |-> TRUE, target |-> "reader",
                     autos |-> rtc.autos + 1]
        BY <2>2, <2>4
  <2> QED BY <2>1, <2>3, <2>4
<1>6. CASE LeaveWifi
      BY <1>6 DEF LeaveWifi
<1>7. CASE SubactivityFails
      BY <1>7 DEF SubactivityFails, RestartToReader
<1>8. ASSUME NEW powerCut \in BOOLEAN, Reset(powerCut) PROVE rtc' \in Rtcs
  <2>1. CASE powerCut
    <3>1. PICK n \in 0 .. kMaxConsecutiveAutoRestarts + 1 :
                  rtc' = [magic |-> FALSE, target |-> "home", autos |-> n]
          BY <1>8, <2>1 DEF Reset
    <3> QED BY <3>1, BudgetAssumption
  <2>2. CASE ~powerCut
        BY <1>8, <2>2 DEF Reset
  <2> QED BY <2>1, <2>2
<1> QED BY <1>1, <1>2, <1>3, <1>4, <1>5, <1>6, <1>7, <1>8
       DEF Next, Setup, Open, Draw, User, LoadStores, DecideSilent,
           DecideNormal, BumpGuard, Restart, LoadFails, Enter, Register,
           GoHome, Dismiss, CloseForSleep, PersistForSleep, Wake, OpenBook,
           Tick, RewriteRecents, vars

\* Together: every step keeps TypeOK.
LEMMA TypeStep ==
    ASSUME TypeOK, BookInv, [Next]_vars PROVE TypeOK'
<1>1. PlainTypes /\ disk \in Cards /\ rtc \in Rtcs
      BY TypeParts
<1>2. PlainTypes' /\ disk' \in Cards /\ rtc' \in Rtcs
      BY <1>1, PlainStep, CardStep, RtcStep
<1>3. Cards' = Cards /\ Rtcs' = Rtcs
      BY DEF Cards, Rtcs, RecentLists
<1> QED BY <1>2, <1>3 DEF TypeOK, PlainTypes, Pcs, Cards, Rtcs

\* Every step keeps BookInv: decideBoot opens a known book with the guard down.
LEMMA BookStep ==
    ASSUME TypeOK, BookInv, [Next]_vars
    PROVE  BookInv'
<1> USE DEF TypeOK, BookInv, Known, NoRecents, RecentLists, state, list, boot,
            reader, history
<1>1. CASE ConsumeTarget
      BY <1>1 DEF ConsumeTarget
<1>2. CASE LoadStores
      BY <1>2 DEF LoadStores
<1>3. CASE DecideSilent
      BY <1>3 DEF DecideSilent
<1>4. ASSUME NEW backHeld \in BOOLEAN,
             NEW randomBookOnBoot \in BOOLEAN,
             DecideNormal(backHeld, randomBookOnBoot)
      PROVE  BookInv'
      BY <1>4 DEF DecideNormal, MayResume
<1>5. ASSUME NEW saved \in BOOLEAN, BumpGuard(saved) PROVE BookInv'
      BY <1>5, ZenonT(40) DEF BumpGuard
<1>6. ASSUME NEW flushed \in BOOLEAN, Restart(flushed) PROVE BookInv'
      BY <1>6 DEF Restart, Flushed
<1>7. CASE LoadFails
      BY <1>7 DEF LoadFails
<1>8. CASE Enter
      BY <1>8 DEF Enter
<1>9. CASE Register
      BY <1>9 DEF Register
<1>10. ASSUME NEW exits \in BOOLEAN, EntryFails(exits) PROVE BookInv'
      BY <1>10 DEF EntryFails, Drained, RestartToReader
<1>11. CASE RenderOk
      BY <1>11 DEF RenderOk
<1>12. CASE RenderOom
      BY <1>12 DEF RenderOom, Drained, RestartToReader
<1>13. CASE GoHome
      BY <1>13 DEF GoHome, Drained, Flushed, CloseReader
<1>14. CASE Dismiss
      BY <1>14 DEF Dismiss, Drained, Flushed
<1>15. CASE LeaveWifi
      BY <1>15 DEF LeaveWifi
<1>16. CASE CloseForSleep
      BY <1>16 DEF CloseForSleep, Drained, CloseReader, Looping
<1>17. CASE PersistForSleep
      BY <1>17 DEF PersistForSleep, Drained, Flushed
<1>18. CASE Wake
      BY <1>18 DEF Wake
<1>19. CASE SubactivityFails
      BY <1>19 DEF SubactivityFails, RestartToReader
<1>20. ASSUME NEW b \in Books, OpenBook(b) PROVE BookInv'
      BY <1>20 DEF OpenBook
<1>21. CASE Tick
      BY <1>21 DEF Tick, Flushed, Looping
<1>22. CASE RewriteRecents
      BY <1>22 DEF RewriteRecents
<1>23. ASSUME NEW powerCut \in BOOLEAN, Reset(powerCut) PROVE BookInv'
      BY <1>23 DEF Reset
<1>24. CASE UNCHANGED vars
      BY <1>24 DEF vars
<1> QED BY <1>1, <1>2, <1>3, <1>4, <1>5, <1>6, <1>7, <1>8, <1>9, <1>10,
          <1>11, <1>12, <1>13, <1>14, <1>15, <1>16, <1>17, <1>18, <1>19,
          <1>20, <1>21, <1>22, <1>23, <1>24
       DEF Next, Setup, Open, Draw, User

\* Every step keeps GuardInv: the guard on the card goes with the opening only.
LEMMA GuardStep ==
    ASSUME TypeOK, BookInv, GuardInv, [Next]_vars
    PROVE  GuardInv'
<1> USE DEF TypeOK, BookInv, GuardInv, state, list, boot, reader, history
<1>1. CASE ConsumeTarget
      BY <1>1 DEF ConsumeTarget
<1>2. CASE LoadStores
      BY <1>2 DEF LoadStores
<1>3. CASE DecideSilent
      BY <1>3 DEF DecideSilent
<1>4. ASSUME NEW backHeld \in BOOLEAN,
             NEW randomBookOnBoot \in BOOLEAN,
             DecideNormal(backHeld, randomBookOnBoot)
      PROVE  GuardInv'
      BY <1>4 DEF DecideNormal, MayResume
<1>5. ASSUME NEW saved \in BOOLEAN, BumpGuard(saved) PROVE GuardInv'
  <2>1. loads' = 1 /\ pc' = "launch" /\ unresolved' = saved
        BY <1>5 DEF BumpGuard
  <2>2. saved => disk' = [disk EXCEPT !.open = NoBook, !.loads = 1]
        BY <1>5, <2>1 DEF BumpGuard
  <2> QED BY <2>1, <2>2
<1>6. ASSUME NEW flushed \in BOOLEAN, Restart(flushed) PROVE GuardInv'
      BY <1>6 DEF Restart, Flushed
<1>7. CASE LoadFails
      BY <1>7 DEF LoadFails
<1>8. CASE Enter
      BY <1>8 DEF Enter
<1>9. CASE Register
      BY <1>9 DEF Register
<1>10. ASSUME NEW exits \in BOOLEAN, EntryFails(exits) PROVE GuardInv'
      BY <1>10 DEF EntryFails, Drained, RestartToReader
<1>11. CASE RenderOk
      BY <1>11 DEF RenderOk
<1>12. CASE RenderOom
      BY <1>12 DEF RenderOom, Drained, RestartToReader
<1>13. CASE GoHome
      BY <1>13 DEF GoHome, Drained, Flushed, CloseReader
<1>14. CASE Dismiss
      BY <1>14 DEF Dismiss, Drained, Flushed
<1>15. CASE LeaveWifi
      BY <1>15 DEF LeaveWifi
<1>16. CASE CloseForSleep
      BY <1>16 DEF CloseForSleep, Drained, CloseReader, Looping
<1>17. CASE PersistForSleep
      BY <1>17 DEF PersistForSleep, Drained, Flushed
<1>18. CASE Wake
      BY <1>18 DEF Wake
<1>19. CASE SubactivityFails
      BY <1>19 DEF SubactivityFails, RestartToReader
<1>20. ASSUME NEW b \in Books, OpenBook(b) PROVE GuardInv'
      BY <1>20 DEF OpenBook
<1>21. CASE Tick
      BY <1>21 DEF Tick, Flushed, Looping
<1>22. CASE RewriteRecents
      BY <1>22 DEF RewriteRecents
<1>23. ASSUME NEW powerCut \in BOOLEAN, Reset(powerCut) PROVE GuardInv'
      BY <1>23 DEF Reset
<1>24. CASE UNCHANGED vars
      BY <1>24 DEF vars
<1> QED BY <1>1, <1>2, <1>3, <1>4, <1>5, <1>6, <1>7, <1>8, <1>9, <1>10,
          <1>11, <1>12, <1>13, <1>14, <1>15, <1>16, <1>17, <1>18, <1>19,
          <1>20, <1>21, <1>22, <1>23, <1>24
       DEF Next, Setup, Open, Draw, User

\* Every step keeps ListInv: who drops the queued rewrite has done it, or has
\* lost the list with it.
LEMMA ListStep ==
    ASSUME TypeOK, ListInv, [Next]_vars
    PROVE  ListInv'
<1> USE DEF TypeOK, ListInv, state, list, boot, reader, history
<1>1. CASE ConsumeTarget
      BY <1>1 DEF ConsumeTarget
<1>2. CASE LoadStores
      BY <1>2 DEF LoadStores
<1>3. CASE DecideSilent
      BY <1>3 DEF DecideSilent
<1>4. ASSUME NEW backHeld \in BOOLEAN,
             NEW randomBookOnBoot \in BOOLEAN,
             DecideNormal(backHeld, randomBookOnBoot)
      PROVE  ListInv'
      BY <1>4 DEF DecideNormal, MayResume
<1>5. ASSUME NEW saved \in BOOLEAN, BumpGuard(saved) PROVE ListInv'
      BY <1>5, ZenonT(40) DEF BumpGuard
<1>6. ASSUME NEW flushed \in BOOLEAN, Restart(flushed) PROVE ListInv'
      BY <1>6 DEF Restart, Flushed
<1>7. CASE LoadFails
      BY <1>7 DEF LoadFails
<1>8. CASE Enter
      BY <1>8 DEF Enter
<1>9. CASE Register
      BY <1>9 DEF Register
<1>10. ASSUME NEW exits \in BOOLEAN, EntryFails(exits) PROVE ListInv'
      BY <1>10 DEF EntryFails, Drained, RestartToReader
<1>11. CASE RenderOk
      BY <1>11, ZenonT(40) DEF RenderOk
<1>12. CASE RenderOom
      BY <1>12 DEF RenderOom, Drained, RestartToReader
<1>13. CASE GoHome
      BY <1>13 DEF GoHome, Drained, Flushed, CloseReader
<1>14. CASE Dismiss
      BY <1>14 DEF Dismiss, Drained, Flushed
<1>15. CASE LeaveWifi
      BY <1>15 DEF LeaveWifi
<1>16. CASE CloseForSleep
      BY <1>16 DEF CloseForSleep, Drained, CloseReader, Looping
<1>17. CASE PersistForSleep
      BY <1>17 DEF PersistForSleep, Drained, Flushed
<1>18. CASE Wake
      BY <1>18 DEF Wake
<1>19. CASE SubactivityFails
      BY <1>19 DEF SubactivityFails, RestartToReader
<1>20. ASSUME NEW b \in Books, OpenBook(b) PROVE ListInv'
      BY <1>20 DEF OpenBook
<1>21. CASE Tick
      BY <1>21 DEF Tick, Flushed, Looping
<1>22. CASE RewriteRecents
      BY <1>22 DEF RewriteRecents
<1>23. ASSUME NEW powerCut \in BOOLEAN, Reset(powerCut) PROVE ListInv'
      BY <1>23 DEF Reset
<1>24. CASE UNCHANGED vars
      BY <1>24 DEF vars
<1> QED BY <1>1, <1>2, <1>3, <1>4, <1>5, <1>6, <1>7, <1>8, <1>9, <1>10,
          <1>11, <1>12, <1>13, <1>14, <1>15, <1>16, <1>17, <1>18, <1>19,
          <1>20, <1>21, <1>22, <1>23, <1>24
       DEF Next, Setup, Open, Draw, User

\* Every step keeps ReaderInv.
LEMMA ReaderStep ==
    ASSUME TypeOK, ReaderInv, [Next]_vars
    PROVE  ReaderInv'
<1> USE DEF TypeOK, ReaderInv, state, list, boot, reader, history
<1>1. CASE ConsumeTarget
      BY <1>1 DEF ConsumeTarget
<1>2. CASE LoadStores
      BY <1>2 DEF LoadStores
<1>3. CASE DecideSilent
      BY <1>3 DEF DecideSilent
<1>4. ASSUME NEW backHeld \in BOOLEAN,
             NEW randomBookOnBoot \in BOOLEAN,
             DecideNormal(backHeld, randomBookOnBoot)
      PROVE  ReaderInv'
      BY <1>4 DEF DecideNormal, MayResume
<1>5. ASSUME NEW saved \in BOOLEAN, BumpGuard(saved) PROVE ReaderInv'
      BY <1>5 DEF BumpGuard
<1>6. ASSUME NEW flushed \in BOOLEAN, Restart(flushed) PROVE ReaderInv'
      BY <1>6 DEF Restart, Flushed
<1>7. CASE LoadFails
      BY <1>7 DEF LoadFails
<1>8. CASE Enter
      BY <1>8 DEF Enter
<1>9. CASE Register
      BY <1>9 DEF Register
<1>10. ASSUME NEW exits \in BOOLEAN, EntryFails(exits) PROVE ReaderInv'
      BY <1>10 DEF EntryFails, Drained, RestartToReader
<1>11. CASE RenderOk
      BY <1>11 DEF RenderOk
<1>12. CASE RenderOom
      BY <1>12 DEF RenderOom, Drained, RestartToReader
<1>13. CASE GoHome
      BY <1>13 DEF GoHome, Drained, Flushed, CloseReader
<1>14. CASE Dismiss
      BY <1>14 DEF Dismiss, Drained, Flushed
<1>15. CASE LeaveWifi
      BY <1>15 DEF LeaveWifi
<1>16. CASE CloseForSleep
      BY <1>16 DEF CloseForSleep, Drained, CloseReader, Looping
<1>17. CASE PersistForSleep
      BY <1>17 DEF PersistForSleep, Drained, Flushed
<1>18. CASE Wake
      BY <1>18 DEF Wake
<1>19. CASE SubactivityFails
      BY <1>19 DEF SubactivityFails, RestartToReader
<1>20. ASSUME NEW b \in Books, OpenBook(b) PROVE ReaderInv'
      BY <1>20 DEF OpenBook
<1>21. CASE Tick
      BY <1>21 DEF Tick, Flushed, Looping
<1>22. CASE RewriteRecents
      BY <1>22 DEF RewriteRecents
<1>23. ASSUME NEW powerCut \in BOOLEAN, Reset(powerCut) PROVE ReaderInv'
      BY <1>23 DEF Reset
<1>24. CASE UNCHANGED vars
      BY <1>24 DEF vars
<1> QED BY <1>1, <1>2, <1>3, <1>4, <1>5, <1>6, <1>7, <1>8, <1>9, <1>10,
          <1>11, <1>12, <1>13, <1>14, <1>15, <1>16, <1>17, <1>18, <1>19,
          <1>20, <1>21, <1>22, <1>23, <1>24
       DEF Next, Setup, Open, Draw, User

\* Every step keeps SleepInv: the reader closes first and the flush follows.
LEMMA SleepStep ==
    ASSUME TypeOK, ListInv, ReaderInv, SleepInv, [Next]_vars
    PROVE  SleepInv'
<1> USE DEF TypeOK, ListInv, ReaderInv, SleepInv, state, list, boot, reader,
            history
<1>1. CASE ConsumeTarget
      BY <1>1 DEF ConsumeTarget
<1>2. CASE LoadStores
      BY <1>2 DEF LoadStores
<1>3. CASE DecideSilent
      BY <1>3 DEF DecideSilent
<1>4. ASSUME NEW backHeld \in BOOLEAN,
             NEW randomBookOnBoot \in BOOLEAN,
             DecideNormal(backHeld, randomBookOnBoot)
      PROVE  SleepInv'
      BY <1>4 DEF DecideNormal, MayResume
<1>5. ASSUME NEW saved \in BOOLEAN, BumpGuard(saved) PROVE SleepInv'
      BY <1>5 DEF BumpGuard
<1>6. ASSUME NEW flushed \in BOOLEAN, Restart(flushed) PROVE SleepInv'
      BY <1>6 DEF Restart, Flushed
<1>7. CASE LoadFails
      BY <1>7 DEF LoadFails
<1>8. CASE Enter
      BY <1>8 DEF Enter
<1>9. CASE Register
      BY <1>9 DEF Register
<1>10. ASSUME NEW exits \in BOOLEAN, EntryFails(exits) PROVE SleepInv'
      BY <1>10 DEF EntryFails, Drained, RestartToReader
<1>11. CASE RenderOk
      BY <1>11 DEF RenderOk
<1>12. CASE RenderOom
      BY <1>12 DEF RenderOom, Drained, RestartToReader
<1>13. CASE GoHome
      BY <1>13 DEF GoHome, Drained, Flushed, CloseReader
<1>14. CASE Dismiss
      BY <1>14 DEF Dismiss, Drained, Flushed
<1>15. CASE LeaveWifi
      BY <1>15 DEF LeaveWifi
<1>16. CASE CloseForSleep
      BY <1>16 DEF CloseForSleep, Drained, CloseReader, Looping
<1>17. CASE PersistForSleep
      BY <1>17 DEF PersistForSleep, Drained, Flushed
<1>18. CASE Wake
      BY <1>18 DEF Wake
<1>19. CASE SubactivityFails
      BY <1>19 DEF SubactivityFails, RestartToReader
<1>20. ASSUME NEW b \in Books, OpenBook(b) PROVE SleepInv'
      BY <1>20 DEF OpenBook
<1>21. CASE Tick
      BY <1>21 DEF Tick, Flushed, Looping
<1>22. CASE RewriteRecents
      BY <1>22 DEF RewriteRecents
<1>23. ASSUME NEW powerCut \in BOOLEAN, Reset(powerCut) PROVE SleepInv'
      BY <1>23 DEF Reset
<1>24. CASE UNCHANGED vars
      BY <1>24 DEF vars
<1> QED BY <1>1, <1>2, <1>3, <1>4, <1>5, <1>6, <1>7, <1>8, <1>9, <1>10,
          <1>11, <1>12, <1>13, <1>14, <1>15, <1>16, <1>17, <1>18, <1>19,
          <1>20, <1>21, <1>22, <1>23, <1>24
       DEF Next, Setup, Open, Draw, User

\* Every step keeps ReturnInv: the hook has flushed the open book.
LEMMA ReturnStep ==
    ASSUME TypeOK, ReaderInv, ReturnInv, [Next]_vars
    PROVE  ReturnInv'
<1> USE DEF TypeOK, ReaderInv, ReturnInv, state, list, boot, reader, history
<1>1. CASE ConsumeTarget
      BY <1>1 DEF ConsumeTarget
<1>2. CASE LoadStores
      BY <1>2 DEF LoadStores
<1>3. CASE DecideSilent
      BY <1>3 DEF DecideSilent
<1>4. ASSUME NEW backHeld \in BOOLEAN,
             NEW randomBookOnBoot \in BOOLEAN,
             DecideNormal(backHeld, randomBookOnBoot)
      PROVE  ReturnInv'
      BY <1>4 DEF DecideNormal, MayResume
<1>5. ASSUME NEW saved \in BOOLEAN, BumpGuard(saved) PROVE ReturnInv'
      BY <1>5 DEF BumpGuard
<1>6. ASSUME NEW flushed \in BOOLEAN, Restart(flushed) PROVE ReturnInv'
      BY <1>6 DEF Restart, Flushed
<1>7. CASE LoadFails
      BY <1>7 DEF LoadFails
<1>8. CASE Enter
      BY <1>8 DEF Enter
<1>9. CASE Register
      BY <1>9 DEF Register
<1>10. ASSUME NEW exits \in BOOLEAN, EntryFails(exits) PROVE ReturnInv'
      BY <1>10 DEF EntryFails, Drained, RestartToReader
<1>11. CASE RenderOk
      BY <1>11 DEF RenderOk
<1>12. CASE RenderOom
      BY <1>12 DEF RenderOom, Drained, RestartToReader
<1>13. CASE GoHome
      BY <1>13 DEF GoHome, Drained, Flushed, CloseReader
<1>14. CASE Dismiss
      BY <1>14 DEF Dismiss, Drained, Flushed
<1>15. CASE LeaveWifi
      BY <1>15 DEF LeaveWifi
<1>16. CASE CloseForSleep
      BY <1>16 DEF CloseForSleep, Drained, CloseReader, Looping
<1>17. CASE PersistForSleep
      BY <1>17 DEF PersistForSleep, Drained, Flushed
<1>18. CASE Wake
      BY <1>18 DEF Wake
<1>19. CASE SubactivityFails
      BY <1>19 DEF SubactivityFails, RestartToReader
<1>20. ASSUME NEW b \in Books, OpenBook(b) PROVE ReturnInv'
      BY <1>20 DEF OpenBook
<1>21. CASE Tick
      BY <1>21 DEF Tick, Flushed, Looping
<1>22. CASE RewriteRecents
      BY <1>22 DEF RewriteRecents
<1>23. ASSUME NEW powerCut \in BOOLEAN, Reset(powerCut) PROVE ReturnInv'
      BY <1>23 DEF Reset
<1>24. CASE UNCHANGED vars
      BY <1>24 DEF vars
<1> QED BY <1>1, <1>2, <1>3, <1>4, <1>5, <1>6, <1>7, <1>8, <1>9, <1>10,
          <1>11, <1>12, <1>13, <1>14, <1>15, <1>16, <1>17, <1>18, <1>19,
          <1>20, <1>21, <1>22, <1>23, <1>24
       DEF Next, Setup, Open, Draw, User

------------------------------------------------------------------------------
\* A first start of a device with nothing on its card satisfies IInv.
LEMMA InitInv == Init => IInv
<1> SUFFICES ASSUME Init PROVE IInv
    OBVIOUS
<1>0. NoRecents \in RecentLists
      BY DEF NoRecents, RecentLists
<1>1. TypeOK
  <2>1. /\ pc = "reset" /\ open = NoBook /\ loads = 0 /\ dirty = FALSE
        /\ recents = NoRecents /\ job = FALSE
        /\ silent = FALSE /\ target = "home"
        /\ book = NoBook /\ entered = FALSE /\ drawn = FALSE /\ gaveUp = FALSE
        /\ faults = 0 /\ unresolved = FALSE /\ slept = NoBook
        /\ promised = NoBook
        BY DEF Init
  <2>2. pc \in Pcs /\ faults \in 0 .. MaxFaults
        BY <2>1, FaultsAssumption DEF Pcs
  <2>3. PlainTypes
        BY <1>0, <2>1, <2>2 DEF PlainTypes
  <2>4. disk \in Cards /\ rtc \in Rtcs
        BY <1>0 DEF Init, Cards, Rtcs
  <2> QED BY <2>3, <2>4, TypeParts
<1>2. BookInv
      BY DEF Init, BookInv, Known
<1>3. GuardInv /\ ListInv /\ ReaderInv /\ SleepInv /\ ReturnInv
      BY DEF Init, GuardInv, ListInv, ReaderInv, SleepInv, ReturnInv
<1> QED BY <1>1, <1>2, <1>3 DEF IInv

\* Every step keeps IInv, part by part.
LEMMA StepInv == IInv /\ [Next]_vars => IInv'
<1> SUFFICES ASSUME IInv, [Next]_vars PROVE IInv'
    OBVIOUS
<1> USE DEF IInv
<1>1. TypeOK'
      BY TypeStep
<1>2. BookInv'
      BY BookStep
<1>3. GuardInv'
      BY GuardStep
<1>4. ListInv'
      BY ListStep
<1>5. ReaderInv'
      BY ReaderStep
<1>6. SleepInv'
      BY SleepStep
<1>7. ReturnInv'
      BY ReturnStep
<1> QED BY <1>1, <1>2, <1>3, <1>4, <1>5, <1>6, <1>7

\* IInv holds of every state of a device that is used, fails and restarts.
THEOREM Invariance == Spec => []IInv
<1>1. Init => IInv
      BY InitInv
<1>2. IInv /\ [Next]_vars => IInv'
      BY StepInv
<1> QED BY <1>1, <1>2, PTL DEF Spec

\* The types, for every restart budget: what is loaded, queued, on the card and
\* in RTC memory is what decideBoot and the reader expect.
THEOREM TypeCorrect == Spec => []TypeOK
<1>1. IInv => TypeOK
      BY DEF IInv
<1> QED BY Invariance, <1>1, PTL

\* main.cpp:1066, for all books, budgets and faults: no boot opens a book while
\* an opening of an earlier boot has come to nothing.
THEOREM GuardAlwaysHolds == Spec => []GuardHolds
<1>1. IInv => GuardHolds
      BY DEF IInv, TypeOK, BookInv, GuardInv, GuardHolds
<1> QED BY Invariance, <1>1, PTL

\* ActivityRouter.cpp:64, for all books, budgets and faults: a boot after going
\* to sleep in a book finds that book first in the list, and no guard.
THEOREM SleepIsResumed == Spec => []ResumesAfterSleep
<1>1. IInv => ResumesAfterSleep
      BY DEF IInv, SleepInv, ResumesAfterSleep
<1> QED BY Invariance, <1>1, PTL

\* SilentRestart.h:17, for all books, budgets and faults: a restart for lack of
\* memory comes back to the book that was open.
THEOREM RestartReturns == Spec => []ReturnsToBook
<1>1. IInv => ReturnsToBook
      BY DEF IInv, ReturnInv, ReturnsToBook
<1> QED BY Invariance, <1>1, PTL

=============================================================================
