-------------------------- MODULE ProgressFilesProofs --------------------------
(***************************************************************************)
(* The safety properties of ProgressFiles, for every set of positions and  *)
(* any number of faults.  TypeOK falls into parts by who writes the        *)
(* variables.  PlaceInv follows the place of the book through the steps of *)
(* a save (TmpInv says what may be promoted) and through a clearing, where *)
(* some of it is in RAM (Coming, ClearInv).  WholeInv is why the copy in   *)
(* /.crosspoint/backups does not come into it: as long as nothing has hurt *)
(* the files, one of the other two is there whenever it is.  TrackInv,     *)
(* SavedInv and LeftInv tie the tracker, the page on the screen and the    *)
(* place where the book was closed to the file.                            *)
(***************************************************************************)
EXTENDS ProgressFiles, TLAPS

Pcs == {"home", "reading", "wait", "restore", "snapshot", "copy", "asleep",
        "remove", "rewrite"}
Steps == {"idle", "clean", "open", "write", "unback", "back", "promote"}

ControlTypes ==
    /\ format \in {"epub", "paged"} /\ pc \in Pcs
    /\ then \in {"reading", "home", "snapshot"} /\ due \in BOOLEAN
    /\ hurt \in BOOLEAN /\ lost \in BOOLEAN

PositionTypes ==
    /\ page \in Pages /\ origin \in Pages \cup {None}
    /\ origin # None => format = "epub" /\ pc \in {"reading", "wait"}
    /\ observed \in Pages \cup {None} /\ saved \in Pages \cup {None}
    /\ dirty \in BOOLEAN
    /\ dirty => observed \in Pages
    /\ left \in Pages \cup {None}

SinkTypes ==
    /\ step \in Steps /\ job \in Pages \cup {None}
    /\ step # "idle" => job \in Pages /\ pc = "wait"

CardTypes ==
    /\ card \in [Names -> Files]
    /\ kept \in [{"real", "bak"} -> Pages \cup {None}]

\* Clean is what is saved, and what is being saved is what was observed.
TrackInv ==
    /\ ~dirty => observed = saved
    /\ step # "idle" => job = observed

\* What progress_tmp.bin holds when it is about to be promoted; a file is only
\* moved to .bak when there is one.
TmpInv ==
    /\ step = "write" => card["tmp"] = Empty
    /\ step \in {"unback", "back", "promote"} => card["tmp"] \in {job, Empty}
    /\ step = "back" => card["real"] # None
CopyInv == pc = "copy" => card["real"] # None

\* What a clearing is about to leave in place of Stored.
Coming ==
    IF kept["real"] # None THEN kept["real"]
    ELSE IF pc = "rewrite" /\ card["real"] # None THEN card["real"]
    ELSE IF kept["bak"] # None THEN kept["bak"]
    ELSE IF pc = "rewrite" /\ card["bak"] # None THEN card["bak"]
    ELSE card["mirror"]

\* The place of the book is the last position that became progress.bin.
PlaceInv ==
    ~hurt => IF pc \in {"remove", "rewrite"} THEN Place(Coming) = firm
                                             ELSE Place(Stored) = firm

\* Between its two halves a clearing has every good file, in RAM or rewritten;
\* with none to rewrite there was no copy either.
ClearInv ==
    ~hurt /\ pc \in {"remove", "rewrite"} =>
        /\ pc = "rewrite" =>
              \A f \in {"real", "bak"} :
                  IF kept[f] # None THEN card[f] \in {None, Empty}
                                    ELSE card[f] # Empty
        /\ Coming # Empty
        /\ kept["real"] = None /\ kept["bak"] = None
           /\ (pc = "rewrite" => card["real"] = None /\ card["bak"] = None)
              => card["mirror"] = None

\* progress.bin and .bak alone keep the place: the copy is not needed.
WholeInv ==
    ~hurt /\ pc \notin {"remove", "rewrite"} =>
        /\ pc # "restore"
        /\ card["real"] # Empty
        /\ card["real"] = None => card["bak"] # Empty
        /\ card["real"] = None /\ card["bak"] = None => card["mirror"] = None

\* left gives the page on the screen; it is then the position handed to the
\* sink, or about to be, and in the end the one on the card.
LeftInv ==
    left # None =>
        /\ pc = "reading" \/ (pc = "wait" /\ then = "reading") =>
              page = Opens(left)
        /\ pc = "wait" /\ then # "reading" =>
              left = IF origin # None THEN origin ELSE observed
        /\ pc \notin {"reading", "wait"} /\ ~lost /\ ~hurt => firm = left

\* What the tracker takes for saved is on the card.
SavedInv ==
    /\ pc \in {"reading", "wait"} /\ (step = "idle" \/ format = "paged")
    /\ ~lost /\ ~hurt /\ saved # None
    => saved = firm

-----------------------------------------------------------------------------
\* A step that leaves the files alone, with what is known of them, while no
\* clearing and no copy back is under way.
Quiet ==
    /\ UNCHANGED <<card, kept, firm, hurt>>
    /\ UNCHANGED pc \/ {pc, pc'} \cap {"restore", "remove", "rewrite"} = {}

\* Every step keeps the types of the control variables and of the flags.
LEMMA ControlStep ==
    ASSUME ControlTypes, [Next]_vars
    PROVE  ControlTypes'
<1> USE DEF ControlTypes, Pcs, shown, tracker, sink, history
<1>1. CASE Observe
      BY <1>1 DEF Observe, Unsaved, StillDue
<1>2. CASE DebounceElapses
      BY <1>2 DEF DebounceElapses
<1>3. CASE Tick
      BY <1>3 DEF Tick, Flush
<1>4. ASSUME NEW p \in Pages, TurnPage(p) PROVE ControlTypes'
      BY <1>4 DEF TurnPage
<1>5. ASSUME NEW next \in {"reading", "home", "snapshot"}, Save(next)
      PROVE  ControlTypes'
      BY <1>5 DEF Save, Flush, CloseAt, Unsaved, StillDue
<1>6. ASSUME NEW p \in Pages, FollowLink(p) PROVE ControlTypes'
      BY <1>6 DEF FollowLink
<1>7. ASSUME NEW next \in {"reading", "home", "snapshot"}, CloseUnlaid(next)
      PROVE  ControlTypes'
      BY <1>7 DEF CloseUnlaid, CloseAt
<1>8. CASE RestoreSavedPosition
      BY <1>8 DEF RestoreSavedPosition
<1>9. CASE SaveOrigin
      BY <1>9 DEF SaveOrigin, Seed
<1>10. CASE SaveAndRestart
      BY <1>10 DEF SaveAndRestart, Flush
<1>11. CASE Done
      BY <1>11 DEF Done, Seed
<1>12. CASE Clean
      BY <1>12 DEF Clean, Rest
<1>13. CASE OpenTmp
      BY <1>13 DEF OpenTmp, Rest
<1>14. CASE OpenFails
      BY <1>14 DEF OpenFails, Answer, Fault, Rest
<1>15. CASE WriteTmp
      BY <1>15 DEF WriteTmp, Fault, Rest
<1>16. CASE Unback
      BY <1>16 DEF Unback, Rest
<1>17. CASE Back
      BY <1>17 DEF Back, Fault, Rest
<1>18. CASE Promote
      BY <1>18 DEF Promote, Answer, Fault, Rest
<1>19. CASE Open
      BY <1>19 DEF Open, Begin, Seed
<1>20. CASE StartRestore
      BY <1>20 DEF StartRestore
<1>21. CASE Restore
      BY <1>21 DEF Restore, Begin, Seed
<1>22. CASE RestoreFails
      BY <1>22 DEF RestoreFails, Begin, Seed, Fault
<1>23. CASE SleepAtHome
      BY <1>23 DEF SleepAtHome
<1>24. CASE StartCopy
      BY <1>24 DEF StartCopy
<1>25. CASE Copy
      BY <1>25 DEF Copy
<1>26. CASE CopyFails
      BY <1>26 DEF CopyFails, Fault
<1>27. CASE Wake
      BY <1>27 DEF Wake
<1>28. CASE StartClearing
      BY <1>28 DEF StartClearing, Fault, Worth
<1>29. CASE RemoveFails
      BY <1>29 DEF RemoveFails, Fault
<1>30. CASE Removed
      BY <1>30 DEF Removed
<1>31. CASE Cleared
      BY <1>31 DEF Cleared
<1>32. ASSUME NEW f \in Names \ {"mirror"}, RemoveFile(f) PROVE ControlTypes'
      BY <1>32 DEF RemoveFile
<1>33. ASSUME NEW f \in {"real", "bak"}, Rewrite(f) PROVE ControlTypes'
      BY <1>33 DEF Rewrite
<1>34. ASSUME NEW f \in {"real", "bak"}, RewriteFails(f) PROVE ControlTypes'
      BY <1>34 DEF RewriteFails, Fault
<1>35. CASE PowerCut
      BY <1>35 DEF PowerCut, Fault, Seed
<1>36. CASE UNCHANGED vars
      BY <1>36 DEF vars
<1> QED BY <1>1, <1>2, <1>3, <1>4, <1>5, <1>6, <1>7, <1>8, <1>9, <1>10, <1>11,
           <1>12, <1>13, <1>14, <1>15, <1>16, <1>17, <1>18, <1>19, <1>20,
           <1>21, <1>22, <1>23, <1>24, <1>25, <1>26, <1>27, <1>28, <1>29,
           <1>30, <1>31, <1>32, <1>33, <1>34, <1>35, <1>36
       DEF Next, Reading, Sink, Opening, Sleeping, Clearing

\* Every step keeps the types of the positions in RAM; only what was observed is
\* dirty.
LEMMA PositionStep ==
    ASSUME PositionTypes, ControlTypes, [Next]_vars
    PROVE  PositionTypes'
<1> USE DEF PositionTypes, shown, tracker, sink, history
<1>1. CASE Observe
      BY <1>1 DEF Observe, Unsaved, StillDue
<1>2. CASE DebounceElapses
      BY <1>2 DEF DebounceElapses
<1>3. CASE Tick
      BY <1>3 DEF Tick, Flush
<1>4. ASSUME NEW p \in Pages, TurnPage(p) PROVE PositionTypes'
      BY <1>4 DEF TurnPage
<1>5. ASSUME NEW next \in {"reading", "home", "snapshot"}, Save(next)
      PROVE  PositionTypes'
      BY <1>5 DEF Save, Flush, CloseAt, Unsaved, StillDue
<1>6. ASSUME NEW p \in Pages, FollowLink(p) PROVE PositionTypes'
      BY <1>6 DEF FollowLink
<1>7. ASSUME NEW next \in {"reading", "home", "snapshot"}, CloseUnlaid(next)
      PROVE  PositionTypes'
      BY <1>7 DEF CloseUnlaid, CloseAt
<1>8. CASE RestoreSavedPosition
      BY <1>8 DEF RestoreSavedPosition
<1>9. CASE SaveOrigin
      BY <1>9 DEF SaveOrigin, Seed
<1>10. CASE SaveAndRestart
      BY <1>10 DEF SaveAndRestart, Flush
<1>11. CASE Done
      BY <1>11, PagesAssumption DEF Done, Seed
<1>12. CASE Clean
      BY <1>12 DEF Clean, Rest
<1>13. CASE OpenTmp
      BY <1>13 DEF OpenTmp, Rest
<1>14. CASE OpenFails
      BY <1>14 DEF OpenFails, Answer, Fault, Rest
<1>15. CASE WriteTmp
      BY <1>15 DEF WriteTmp, Fault, Rest
<1>16. CASE Unback
      BY <1>16 DEF Unback, Rest
<1>17. CASE Back
      BY <1>17 DEF Back, Fault, Rest
<1>18. CASE Promote
      BY <1>18 DEF Promote, Answer, Fault, Rest
<1>19. CASE Open
      BY <1>19, PagesAssumption, TextAssumption
      DEF Open, Begin, Opens, Seed, Place
<1>20. CASE StartRestore
      BY <1>20 DEF StartRestore
<1>21. CASE Restore
      BY <1>21, PagesAssumption, TextAssumption
      DEF Restore, Begin, Opens, Seed, Place
<1>22. CASE RestoreFails
  <2>1. PICK file \in {None, Empty} : Begin(file)
        BY <1>22 DEF RestoreFails
  <2> QED BY <2>1, PagesAssumption, TextAssumption
      DEF Begin, Opens, Seed, Place
<1>23. CASE SleepAtHome
      BY <1>23 DEF SleepAtHome
<1>24. CASE StartCopy
      BY <1>24 DEF StartCopy
<1>25. CASE Copy
      BY <1>25 DEF Copy
<1>26. CASE CopyFails
      BY <1>26 DEF CopyFails, Fault
<1>27. CASE Wake
      BY <1>27 DEF Wake
<1>28. CASE StartClearing
      BY <1>28 DEF StartClearing, Fault, Worth
<1>29. CASE RemoveFails
      BY <1>29 DEF RemoveFails, Fault
<1>30. CASE Removed
      BY <1>30 DEF Removed
<1>31. CASE Cleared
      BY <1>31 DEF Cleared
<1>32. ASSUME NEW f \in Names \ {"mirror"}, RemoveFile(f) PROVE PositionTypes'
      BY <1>32 DEF RemoveFile
<1>33. ASSUME NEW f \in {"real", "bak"}, Rewrite(f) PROVE PositionTypes'
      BY <1>33 DEF Rewrite
<1>34. ASSUME NEW f \in {"real", "bak"}, RewriteFails(f) PROVE PositionTypes'
      BY <1>34 DEF RewriteFails, Fault
<1>35. CASE PowerCut
      BY <1>35, PagesAssumption DEF PowerCut, Fault, Seed
<1>36. CASE UNCHANGED vars
      BY <1>36 DEF vars
<1> QED BY <1>1, <1>2, <1>3, <1>4, <1>5, <1>6, <1>7, <1>8, <1>9, <1>10, <1>11,
           <1>12, <1>13, <1>14, <1>15, <1>16, <1>17, <1>18, <1>19, <1>20,
           <1>21, <1>22, <1>23, <1>24, <1>25, <1>26, <1>27, <1>28, <1>29,
           <1>30, <1>31, <1>32, <1>33, <1>34, <1>35, <1>36
       DEF Next, Reading, Sink, Opening, Sleeping, Clearing

\* Every step keeps the types of the sink, and the loop waits while it writes.
LEMMA SinkStep ==
    ASSUME SinkTypes, PositionTypes, [Next]_vars
    PROVE  SinkTypes'
<1> USE DEF SinkTypes, PositionTypes, Steps, shown, tracker, sink, history
<1>1. CASE Observe
      BY <1>1 DEF Observe, Unsaved, StillDue
<1>2. CASE DebounceElapses
      BY <1>2 DEF DebounceElapses
<1>3. CASE Tick
      BY <1>3 DEF Tick, Flush
<1>4. ASSUME NEW p \in Pages, TurnPage(p) PROVE SinkTypes'
      BY <1>4 DEF TurnPage
<1>5. ASSUME NEW next \in {"reading", "home", "snapshot"}, Save(next)
      PROVE  SinkTypes'
      BY <1>5 DEF Save, Flush, CloseAt, Unsaved, StillDue
<1>6. ASSUME NEW p \in Pages, FollowLink(p) PROVE SinkTypes'
      BY <1>6 DEF FollowLink
<1>7. ASSUME NEW next \in {"reading", "home", "snapshot"}, CloseUnlaid(next)
      PROVE  SinkTypes'
      BY <1>7 DEF CloseUnlaid, CloseAt
<1>8. CASE RestoreSavedPosition
      BY <1>8 DEF RestoreSavedPosition
<1>9. CASE SaveOrigin
      BY <1>9 DEF SaveOrigin, Seed
<1>10. CASE SaveAndRestart
      BY <1>10 DEF SaveAndRestart, Flush
<1>11. CASE Done
      BY <1>11 DEF Done, Seed
<1>12. CASE Clean
      BY <1>12 DEF Clean, Rest
<1>13. CASE OpenTmp
      BY <1>13 DEF OpenTmp, Rest
<1>14. CASE OpenFails
      BY <1>14 DEF OpenFails, Answer, Fault, Rest
<1>15. CASE WriteTmp
      BY <1>15 DEF WriteTmp, Fault, Rest
<1>16. CASE Unback
      BY <1>16 DEF Unback, Rest
<1>17. CASE Back
      BY <1>17 DEF Back, Fault, Rest
<1>18. CASE Promote
      BY <1>18 DEF Promote, Answer, Fault, Rest
<1>19. CASE Open
      BY <1>19 DEF Open, Begin, Seed
<1>20. CASE StartRestore
      BY <1>20 DEF StartRestore
<1>21. CASE Restore
      BY <1>21 DEF Restore, Begin, Seed
<1>22. CASE RestoreFails
      BY <1>22 DEF RestoreFails, Begin, Seed, Fault
<1>23. CASE SleepAtHome
      BY <1>23 DEF SleepAtHome
<1>24. CASE StartCopy
      BY <1>24 DEF StartCopy
<1>25. CASE Copy
      BY <1>25 DEF Copy
<1>26. CASE CopyFails
      BY <1>26 DEF CopyFails, Fault
<1>27. CASE Wake
      BY <1>27 DEF Wake
<1>28. CASE StartClearing
      BY <1>28 DEF StartClearing, Fault, Worth
<1>29. CASE RemoveFails
      BY <1>29 DEF RemoveFails, Fault
<1>30. CASE Removed
      BY <1>30 DEF Removed
<1>31. CASE Cleared
      BY <1>31 DEF Cleared
<1>32. ASSUME NEW f \in Names \ {"mirror"}, RemoveFile(f) PROVE SinkTypes'
      BY <1>32 DEF RemoveFile
<1>33. ASSUME NEW f \in {"real", "bak"}, Rewrite(f) PROVE SinkTypes'
      BY <1>33 DEF Rewrite
<1>34. ASSUME NEW f \in {"real", "bak"}, RewriteFails(f) PROVE SinkTypes'
      BY <1>34 DEF RewriteFails, Fault
<1>35. CASE PowerCut
      BY <1>35 DEF PowerCut, Fault, Seed
<1>36. CASE UNCHANGED vars
      BY <1>36 DEF vars
<1> QED BY <1>1, <1>2, <1>3, <1>4, <1>5, <1>6, <1>7, <1>8, <1>9, <1>10, <1>11,
           <1>12, <1>13, <1>14, <1>15, <1>16, <1>17, <1>18, <1>19, <1>20,
           <1>21, <1>22, <1>23, <1>24, <1>25, <1>26, <1>27, <1>28, <1>29,
           <1>30, <1>31, <1>32, <1>33, <1>34, <1>35, <1>36
       DEF Next, Reading, Sink, Opening, Sleeping, Clearing

\* Every step keeps the types of the files.
LEMMA CardStep ==
    ASSUME CardTypes, SinkTypes, [Next]_vars
    PROVE  CardTypes'
<1> USE DEF CardTypes, SinkTypes, Names, Files
<1>1. CASE UNCHANGED <<card, kept>>
      BY <1>1
<1>2. CASE Clean
      BY <1>2 DEF Clean, Rest
<1>3. CASE OpenTmp
      BY <1>3 DEF OpenTmp, Rest
<1>4. CASE WriteTmp
      BY <1>4 DEF WriteTmp, Fault, Rest
<1>5. CASE Unback
      BY <1>5 DEF Unback, Rest
<1>6. CASE Back
      BY <1>6 DEF Back, Fault, Rest
<1>7. CASE Promote
      BY <1>7 DEF Promote, Answer, Fault, Rest
<1>8. CASE StartRestore
      BY <1>8 DEF StartRestore
<1>9. CASE Restore
      BY <1>9 DEF Restore, Begin, Seed
<1>10. CASE RestoreFails
      BY <1>10 DEF RestoreFails, Begin, Seed, Fault
<1>11. CASE StartCopy
      BY <1>11 DEF StartCopy
<1>12. CASE Copy
      BY <1>12 DEF Copy
<1>13. CASE CopyFails
      BY <1>13 DEF CopyFails, Fault
<1>14. CASE StartClearing
      BY <1>14 DEF StartClearing, Fault, Worth
<1>15. CASE RemoveFails
      BY <1>15 DEF RemoveFails, Fault
<1>16. ASSUME NEW f \in Names \ {"mirror"}, RemoveFile(f) PROVE CardTypes'
      BY <1>16 DEF RemoveFile
<1>17. ASSUME NEW f \in {"real", "bak"}, Rewrite(f) PROVE CardTypes'
      BY <1>17 DEF Rewrite
<1>18. ASSUME NEW f \in {"real", "bak"}, RewriteFails(f) PROVE CardTypes'
      BY <1>18 DEF RewriteFails, Fault
<1>19. CASE PowerCut
      BY <1>19 DEF PowerCut, Fault, Seed
<1> QED BY <1>1, <1>2, <1>3, <1>4, <1>5, <1>6, <1>7, <1>8, <1>9, <1>10, <1>11,
           <1>12, <1>13, <1>14, <1>15, <1>16, <1>17, <1>18, <1>19
       DEF Next, Reading, Sink, Opening, Sleeping, Clearing, Observe,
           DebounceElapses, Tick, TurnPage, FollowLink, RestoreSavedPosition,
           Save, CloseAt, CloseUnlaid, SaveOrigin, SaveAndRestart, Done,
           OpenFails, Open, SleepAtHome, Wake, Removed, Cleared, vars, Rest,
           Begin

\* Every step keeps the number of faults within its bound.
LEMMA FaultStep ==
    ASSUME faults \in 0 .. MaxFaults, [Next]_vars
    PROVE  faults' \in 0 .. MaxFaults
<1>1. UNCHANGED faults \/ Fault
      BY DEF Next, Reading, Sink, Opening, Sleeping, Clearing, Observe,
             DebounceElapses, Tick, TurnPage, FollowLink,
             RestoreSavedPosition, Save, CloseAt, CloseUnlaid, SaveOrigin,
             SaveAndRestart, Done, Clean, OpenTmp, OpenFails, WriteTmp,
             Unback, Back, Promote, Open, StartRestore, Restore, RestoreFails,
             SleepAtHome, StartCopy, Copy, CopyFails, Wake, StartClearing,
             RemoveFails, Removed, Cleared, RemoveFile, Rewrite, RewriteFails,
             PowerCut, Rest, Begin, vars
<1>2. CASE Fault
      BY <1>2, FaultsAssumption DEF Fault
<1> QED BY <1>1, <1>2

\* Every step keeps TrackInv.
LEMMA TrackStep ==
    ASSUME PositionTypes, SinkTypes, TrackInv, [Next]_vars
    PROVE  TrackInv'
<1> USE DEF PositionTypes, SinkTypes, TrackInv, shown, tracker, sink, history
<1>1. CASE Observe
      BY <1>1 DEF Observe, Unsaved, StillDue
<1>2. CASE DebounceElapses
      BY <1>2 DEF DebounceElapses
<1>3. CASE Tick
      BY <1>3 DEF Tick, Flush
<1>4. ASSUME NEW p \in Pages, TurnPage(p) PROVE TrackInv'
      BY <1>4 DEF TurnPage
<1>5. ASSUME NEW next \in {"reading", "home", "snapshot"}, Save(next)
      PROVE  TrackInv'
      BY <1>5 DEF Save, Flush, CloseAt, Unsaved, StillDue
<1>6. ASSUME NEW p \in Pages, FollowLink(p) PROVE TrackInv'
      BY <1>6 DEF FollowLink
<1>7. ASSUME NEW next \in {"reading", "home", "snapshot"}, CloseUnlaid(next)
      PROVE  TrackInv'
      BY <1>7 DEF CloseUnlaid, CloseAt
<1>8. CASE RestoreSavedPosition
      BY <1>8 DEF RestoreSavedPosition
<1>9. CASE SaveOrigin
      BY <1>9 DEF SaveOrigin, Seed
<1>10. CASE SaveAndRestart
      BY <1>10 DEF SaveAndRestart, Flush
<1>11. CASE Done
      BY <1>11 DEF Done, Seed
<1>12. CASE Clean
      BY <1>12 DEF Clean, Rest
<1>13. CASE OpenTmp
      BY <1>13 DEF OpenTmp, Rest
<1>14. CASE OpenFails
      BY <1>14 DEF OpenFails, Answer, Fault, Rest
<1>15. CASE WriteTmp
      BY <1>15 DEF WriteTmp, Fault, Rest
<1>16. CASE Unback
      BY <1>16 DEF Unback, Rest
<1>17. CASE Back
      BY <1>17 DEF Back, Fault, Rest
<1>18. CASE Promote
      BY <1>18 DEF Promote, Answer, Fault, Rest
<1>19. CASE Open
      BY <1>19 DEF Open, Begin, Seed
<1>20. CASE StartRestore
      BY <1>20 DEF StartRestore
<1>21. CASE Restore
      BY <1>21 DEF Restore, Begin, Seed
<1>22. CASE RestoreFails
      BY <1>22 DEF RestoreFails, Begin, Seed, Fault
<1>23. CASE SleepAtHome
      BY <1>23 DEF SleepAtHome
<1>24. CASE StartCopy
      BY <1>24 DEF StartCopy
<1>25. CASE Copy
      BY <1>25 DEF Copy
<1>26. CASE CopyFails
      BY <1>26 DEF CopyFails, Fault
<1>27. CASE Wake
      BY <1>27 DEF Wake
<1>28. CASE StartClearing
      BY <1>28 DEF StartClearing, Fault, Worth
<1>29. CASE RemoveFails
      BY <1>29 DEF RemoveFails, Fault
<1>30. CASE Removed
      BY <1>30 DEF Removed
<1>31. CASE Cleared
      BY <1>31 DEF Cleared
<1>32. ASSUME NEW f \in Names \ {"mirror"}, RemoveFile(f) PROVE TrackInv'
      BY <1>32 DEF RemoveFile
<1>33. ASSUME NEW f \in {"real", "bak"}, Rewrite(f) PROVE TrackInv'
      BY <1>33 DEF Rewrite
<1>34. ASSUME NEW f \in {"real", "bak"}, RewriteFails(f) PROVE TrackInv'
      BY <1>34 DEF RewriteFails, Fault
<1>35. CASE PowerCut
      BY <1>35 DEF PowerCut, Fault, Seed
<1>36. CASE UNCHANGED vars
      BY <1>36 DEF vars
<1> QED BY <1>1, <1>2, <1>3, <1>4, <1>5, <1>6, <1>7, <1>8, <1>9, <1>10, <1>11,
           <1>12, <1>13, <1>14, <1>15, <1>16, <1>17, <1>18, <1>19, <1>20,
           <1>21, <1>22, <1>23, <1>24, <1>25, <1>26, <1>27, <1>28, <1>29,
           <1>30, <1>31, <1>32, <1>33, <1>34, <1>35, <1>36
       DEF Next, Reading, Sink, Opening, Sleeping, Clearing

\* Every step keeps TmpInv.
LEMMA TmpStep ==
    ASSUME CardTypes, SinkTypes, TmpInv, [Next]_vars
    PROVE  TmpInv'
<1> USE DEF CardTypes, SinkTypes, TmpInv, Names, shown, tracker, sink, history
<1>1. CASE Observe
      BY <1>1, FilesAssumption DEF Observe, Unsaved, StillDue
<1>2. CASE DebounceElapses
      BY <1>2, FilesAssumption DEF DebounceElapses
<1>3. CASE Tick
      BY <1>3, FilesAssumption DEF Tick, Flush
<1>4. ASSUME NEW p \in Pages, TurnPage(p) PROVE TmpInv'
      BY <1>4, FilesAssumption DEF TurnPage
<1>5. ASSUME NEW next \in {"reading", "home", "snapshot"}, Save(next)
      PROVE  TmpInv'
      BY <1>5, FilesAssumption DEF Save, Flush, CloseAt, Unsaved, StillDue
<1>6. ASSUME NEW p \in Pages, FollowLink(p) PROVE TmpInv'
      BY <1>6, FilesAssumption DEF FollowLink
<1>7. ASSUME NEW next \in {"reading", "home", "snapshot"}, CloseUnlaid(next)
      PROVE  TmpInv'
      BY <1>7, FilesAssumption DEF CloseUnlaid, CloseAt
<1>8. CASE RestoreSavedPosition
      BY <1>8, FilesAssumption DEF RestoreSavedPosition
<1>9. CASE SaveOrigin
      BY <1>9, FilesAssumption DEF SaveOrigin, Seed
<1>10. CASE SaveAndRestart
      BY <1>10, FilesAssumption DEF SaveAndRestart, Flush
<1>11. CASE Done
      BY <1>11, FilesAssumption DEF Done, Seed
<1>12. CASE Clean
      BY <1>12, FilesAssumption DEF Clean, Rest
<1>13. CASE OpenTmp
      BY <1>13, FilesAssumption DEF OpenTmp, Rest
<1>14. CASE OpenFails
      BY <1>14, FilesAssumption DEF OpenFails, Answer, Fault, Rest
<1>15. CASE WriteTmp
      BY <1>15, FilesAssumption DEF WriteTmp, Fault, Rest
<1>16. CASE Unback
      BY <1>16, FilesAssumption DEF Unback, Rest
<1>17. CASE Back
      BY <1>17, FilesAssumption DEF Back, Fault, Rest
<1>18. CASE Promote
      BY <1>18, FilesAssumption DEF Promote, Answer, Fault, Rest
<1>19. CASE Open
      BY <1>19, FilesAssumption DEF Open, Begin, Seed
<1>20. CASE StartRestore
      BY <1>20, FilesAssumption DEF StartRestore
<1>21. CASE Restore
      BY <1>21, FilesAssumption DEF Restore, Begin, Seed
<1>22. CASE RestoreFails
      BY <1>22, FilesAssumption DEF RestoreFails, Begin, Seed, Fault
<1>23. CASE SleepAtHome
      BY <1>23, FilesAssumption DEF SleepAtHome
<1>24. CASE StartCopy
      BY <1>24, FilesAssumption DEF StartCopy
<1>25. CASE Copy
      BY <1>25, FilesAssumption DEF Copy
<1>26. CASE CopyFails
      BY <1>26, FilesAssumption DEF CopyFails, Fault
<1>27. CASE Wake
      BY <1>27, FilesAssumption DEF Wake
<1>28. CASE StartClearing
      BY <1>28, FilesAssumption DEF StartClearing, Fault, Worth
<1>29. CASE RemoveFails
      BY <1>29, FilesAssumption DEF RemoveFails, Fault
<1>30. CASE Removed
      BY <1>30, FilesAssumption DEF Removed
<1>31. CASE Cleared
      BY <1>31, FilesAssumption DEF Cleared
<1>32. ASSUME NEW f \in Names \ {"mirror"}, RemoveFile(f) PROVE TmpInv'
      BY <1>32, FilesAssumption DEF RemoveFile
<1>33. ASSUME NEW f \in {"real", "bak"}, Rewrite(f) PROVE TmpInv'
      BY <1>33, FilesAssumption DEF Rewrite
<1>34. ASSUME NEW f \in {"real", "bak"}, RewriteFails(f) PROVE TmpInv'
      BY <1>34, FilesAssumption DEF RewriteFails, Fault
<1>35. CASE PowerCut
      BY <1>35, FilesAssumption DEF PowerCut, Fault, Seed
<1>36. CASE UNCHANGED vars
      BY <1>36, FilesAssumption DEF vars
<1> QED BY <1>1, <1>2, <1>3, <1>4, <1>5, <1>6, <1>7, <1>8, <1>9, <1>10, <1>11,
           <1>12, <1>13, <1>14, <1>15, <1>16, <1>17, <1>18, <1>19, <1>20,
           <1>21, <1>22, <1>23, <1>24, <1>25, <1>26, <1>27, <1>28, <1>29,
           <1>30, <1>31, <1>32, <1>33, <1>34, <1>35, <1>36
       DEF Next, Reading, Sink, Opening, Sleeping, Clearing

\* Every step keeps CopyInv: nothing else runs while the sleep copies.
LEMMA CopyStep ==
    ASSUME ControlTypes, CardTypes, SinkTypes, CopyInv, [Next]_vars
    PROVE  CopyInv'
<1> USE DEF CardTypes, SinkTypes, CopyInv, Names, shown, tracker, sink, history
<1>1. CASE pc' # "copy" \/ UNCHANGED <<pc, card>>
      BY <1>1, FilesAssumption
<1>2. CASE StartCopy
      BY <1>2, FilesAssumption DEF StartCopy
<1> QED BY <1>1, <1>2
       DEF Next, Reading, Sink, Opening, Sleeping, Clearing, Observe,
           DebounceElapses, Tick, TurnPage, FollowLink, RestoreSavedPosition,
           Save, CloseAt, CloseUnlaid, SaveOrigin, SaveAndRestart, Done,
           Clean, OpenTmp, OpenFails, WriteTmp, Unback, Back, Promote, Open,
           StartRestore, Restore, RestoreFails, SleepAtHome, Copy, CopyFails,
           Wake, StartClearing, RemoveFails, Removed, Cleared, RemoveFile,
           Rewrite, RewriteFails, PowerCut, vars, ControlTypes, Rest, Begin

\* Only a position becomes firm.
LEMMA FirmStep ==
    ASSUME CardTypes, SinkTypes, TmpInv, firm \in Pages, [Next]_vars
    PROVE  firm' \in Pages
<1> USE DEF CardTypes, SinkTypes, TmpInv, Names, shown, tracker, sink, history
<1>1. CASE UNCHANGED firm
      BY <1>1, FilesAssumption
<1>2. CASE Promote
      BY <1>2, FilesAssumption DEF Promote, Answer, Fault, Rest
<1> QED BY <1>1, <1>2
       DEF Next, Reading, Sink, Opening, Sleeping, Clearing, Observe,
           DebounceElapses, Tick, TurnPage, FollowLink, RestoreSavedPosition,
           Save, CloseAt, CloseUnlaid, SaveOrigin, SaveAndRestart, Done,
           Clean, OpenTmp, OpenFails, WriteTmp, Unback, Back, Open,
           StartRestore, Restore, RestoreFails, SleepAtHome, StartCopy, Copy,
           CopyFails, Wake, StartClearing, RemoveFails, Removed, Cleared,
           RemoveFile, Rewrite, RewriteFails, PowerCut, vars, Rest, Begin

\* Every step keeps WholeInv.
LEMMA WholeStep ==
    ASSUME ControlTypes, CardTypes, SinkTypes, TmpInv, CopyInv, ClearInv,
           WholeInv, [Next]_vars
    PROVE  WholeInv'
<1> USE DEF CardTypes, SinkTypes, TmpInv, ClearInv, WholeInv, Names, Files,
            shown, tracker, sink, history
<1>1. CASE Quiet
      BY <1>1, FilesAssumption DEF Quiet
<1>2. CASE Clean
      BY <1>2, FilesAssumption DEF Clean, Rest
<1>3. CASE OpenTmp
      BY <1>3, FilesAssumption DEF OpenTmp, Rest
<1>4. CASE WriteTmp
      BY <1>4, FilesAssumption DEF WriteTmp, Fault, Rest
<1>5. CASE Unback
      BY <1>5, FilesAssumption DEF Unback, Rest
<1>6. CASE Back
      BY <1>6, FilesAssumption DEF Back, Fault, Rest
<1>7. CASE Promote
  <2>1. pc' = pc /\ kept' = kept /\ pc = "wait"
        BY <1>7 DEF Promote, Rest
  <2>2. CASE hurt'
        BY <2>2
  <2>3. CASE UNCHANGED <<card, firm, hurt>>
        BY <2>1, <2>3, FilesAssumption, PagesAssumption
  <2>4. CASE /\ card["real"] = None /\ card["tmp"] \in Pages
             /\ card' = [card EXCEPT !["real"] = card["tmp"], !["tmp"] = None]
             /\ firm' = card["tmp"]
        BY <2>1, <2>4, FilesAssumption, PagesAssumption
  <2>5. card["tmp"] \in Pages \cup {Empty}
        BY <1>7 DEF Promote
  <2> QED BY <1>7, <2>2, <2>3, <2>4, <2>5 DEF Promote
<1>8. CASE StartRestore
      BY <1>8, FilesAssumption DEF StartRestore, OnlyMirror
<1>9. CASE Restore
      BY <1>9, FilesAssumption DEF Restore, Begin, Seed
<1>10. CASE RestoreFails
      BY <1>10, FilesAssumption DEF RestoreFails, Begin, Seed, Fault,
                                    OnlyMirror
<1>11. CASE StartCopy
      BY <1>11, FilesAssumption DEF StartCopy
<1>12. CASE Copy
      BY <1>12, FilesAssumption DEF Copy
<1>13. CASE CopyFails
  <2>1. /\ card'["real"] = card["real"] /\ card'["bak"] = card["bak"]
        /\ pc \in {"snapshot", "copy"} /\ pc' = "asleep" /\ hurt' = hurt
        BY <1>13 DEF CopyFails
  <2>2. card["real"] # None
        BY <1>13 DEF CopyFails, CopyInv
  <2> QED BY <2>1, <2>2
<1>14. CASE StartClearing
      BY <1>14, FilesAssumption DEF StartClearing, Fault, Worth
<1>15. CASE RemoveFails
      BY <1>15, FilesAssumption DEF RemoveFails, Fault
<1>16. CASE Removed
      BY <1>16, FilesAssumption DEF Removed
<1>17. CASE Cleared
      BY <1>17, FilesAssumption DEF Cleared
<1>18. ASSUME NEW f \in Names \ {"mirror"}, RemoveFile(f) PROVE WholeInv'
      BY <1>18, FilesAssumption DEF RemoveFile
<1>19. ASSUME NEW f \in {"real", "bak"}, Rewrite(f) PROVE WholeInv'
      BY <1>19, FilesAssumption DEF Rewrite
<1>20. ASSUME NEW f \in {"real", "bak"}, RewriteFails(f) PROVE WholeInv'
      BY <1>20, FilesAssumption DEF RewriteFails, Fault
<1>21. CASE PowerCut
      BY <1>21, FilesAssumption DEF PowerCut, Fault, Seed
<1> QED BY <1>1, <1>2, <1>3, <1>4, <1>5, <1>6, <1>7, <1>8, <1>9, <1>10, <1>11,
           <1>12, <1>13, <1>14, <1>15, <1>16, <1>17, <1>18, <1>19, <1>20, <1>21
       DEF Next, Reading, Sink, Opening, Sleeping, Clearing, Observe,
           DebounceElapses, Tick, TurnPage, FollowLink, RestoreSavedPosition,
           Save, CloseAt, CloseUnlaid, SaveOrigin, SaveAndRestart, Done,
           OpenFails, Open, SleepAtHome, Wake, vars, Quiet, ControlTypes,
           Rest, Begin

\* Every step keeps ClearInv.
LEMMA ClearStep ==
    ASSUME ControlTypes, CardTypes, SinkTypes, WholeInv, ClearInv, [Next]_vars
    PROVE  ClearInv'
<1> USE DEF CardTypes, SinkTypes, WholeInv, ClearInv, Coming, Names, Files,
            shown, tracker, sink, history
<1>1. CASE Quiet
      BY <1>1, FilesAssumption DEF Quiet
<1>2. CASE Clean
      BY <1>2, FilesAssumption DEF Clean, Rest
<1>3. CASE OpenTmp
      BY <1>3, FilesAssumption DEF OpenTmp, Rest
<1>4. CASE WriteTmp
      BY <1>4, FilesAssumption DEF WriteTmp, Fault, Rest
<1>5. CASE Unback
      BY <1>5, FilesAssumption DEF Unback, Rest
<1>6. CASE Back
      BY <1>6, FilesAssumption DEF Back, Fault, Rest
<1>7. CASE Promote
      BY <1>7, FilesAssumption DEF Promote, Answer, Fault, Rest
<1>8. CASE StartRestore
      BY <1>8, FilesAssumption DEF StartRestore
<1>9. CASE Restore
      BY <1>9, FilesAssumption DEF Restore, Begin, Seed
<1>10. CASE RestoreFails
      BY <1>10, FilesAssumption DEF RestoreFails, Begin, Seed, Fault
<1>11. CASE StartCopy
      BY <1>11, FilesAssumption DEF StartCopy
<1>12. CASE Copy
      BY <1>12, FilesAssumption DEF Copy
<1>13. CASE CopyFails
      BY <1>13, FilesAssumption DEF CopyFails, Fault
<1>14. CASE StartClearing
  <2>1. PICK unread \in SUBSET {"real", "bak"} :
          /\ kept' = [f \in {"real", "bak"} |->
                        IF f \in unread THEN None ELSE Worth(card[f])]
          /\ \/ unread = {} /\ hurt' = hurt
             \/ hurt' = (hurt \/ "real" \in unread \/ card["real"] = None)
        BY <1>14 DEF StartClearing
  <2>2. pc = "home" /\ pc' = "remove" /\ UNCHANGED <<card, firm>>
        BY <1>14 DEF StartClearing
  <2>3. ~hurt' => /\ ~hurt
                  /\ unread = {} \/ (unread = {"bak"} /\ card["real"] # None)
        BY <2>1
  <2>4. ~hurt' => kept'["real"] = card["real"]
        BY <2>1, <2>2, <2>3 DEF Worth
  <2>5. ~hurt' /\ card["real"] = None => kept'["bak"] = card["bak"]
        BY <2>1, <2>2, <2>3 DEF Worth
  <2> QED BY <2>1, <2>2, <2>3, <2>4, <2>5, FilesAssumption, PagesAssumption
<1>15. CASE RemoveFails
      BY <1>15, FilesAssumption DEF RemoveFails, Fault
<1>16. CASE Removed
      BY <1>16, FilesAssumption DEF Removed
<1>17. CASE Cleared
      BY <1>17, FilesAssumption DEF Cleared
<1>18. ASSUME NEW f \in Names \ {"mirror"}, RemoveFile(f) PROVE ClearInv'
      BY <1>18, FilesAssumption DEF RemoveFile
<1>19. ASSUME NEW f \in {"real", "bak"}, Rewrite(f) PROVE ClearInv'
      BY <1>19, FilesAssumption DEF Rewrite
<1>20. ASSUME NEW f \in {"real", "bak"}, RewriteFails(f) PROVE ClearInv'
      BY <1>20, FilesAssumption DEF RewriteFails, Fault
<1>21. CASE PowerCut
      BY <1>21, FilesAssumption DEF PowerCut, Fault, Seed
<1> QED BY <1>1, <1>2, <1>3, <1>4, <1>5, <1>6, <1>7, <1>8, <1>9, <1>10, <1>11,
           <1>12, <1>13, <1>14, <1>15, <1>16, <1>17, <1>18, <1>19, <1>20, <1>21
       DEF Next, Reading, Sink, Opening, Sleeping, Clearing, Observe,
           DebounceElapses, Tick, TurnPage, FollowLink, RestoreSavedPosition,
           Save, CloseAt, CloseUnlaid, SaveOrigin, SaveAndRestart, Done,
           OpenFails, Open, SleepAtHome, Wake, vars, Quiet, ControlTypes,
           Rest, Begin

\* Every step keeps PlaceInv.
LEMMA PlaceStep ==
    ASSUME ControlTypes, CardTypes, SinkTypes, TmpInv, CopyInv, WholeInv,
           ClearInv, PlaceInv, [Next]_vars
    PROVE  PlaceInv'
<1> USE DEF CardTypes, SinkTypes, TmpInv, CopyInv, WholeInv, ClearInv,
            PlaceInv, Place, Stored, Coming, Names, Files, shown, tracker,
            sink, history
<1>1. CASE Quiet
      BY <1>1, FilesAssumption, PagesAssumption DEF Quiet
<1>2. CASE Clean
      BY <1>2, FilesAssumption, PagesAssumption DEF Clean, Rest
<1>3. CASE OpenTmp
      BY <1>3, FilesAssumption, PagesAssumption DEF OpenTmp, Rest
<1>4. CASE WriteTmp
      BY <1>4, FilesAssumption, PagesAssumption DEF WriteTmp, Fault, Rest
<1>5. CASE Unback
      BY <1>5, FilesAssumption, PagesAssumption DEF Unback, Rest
<1>6. CASE Back
      BY <1>6, FilesAssumption, PagesAssumption DEF Back, Fault, Rest
<1>7. CASE Promote
  <2>1. pc' = pc /\ kept' = kept /\ pc = "wait"
        BY <1>7 DEF Promote, Rest
  <2>2. CASE hurt'
        BY <2>2
  <2>3. CASE UNCHANGED <<card, firm, hurt>>
        BY <2>1, <2>3, FilesAssumption, PagesAssumption
  <2>4. CASE /\ card["real"] = None /\ card["tmp"] \in Pages
             /\ card' = [card EXCEPT !["real"] = card["tmp"], !["tmp"] = None]
             /\ firm' = card["tmp"]
        BY <2>1, <2>4, FilesAssumption, PagesAssumption
  <2>5. card["tmp"] \in Pages \cup {Empty}
        BY <1>7 DEF Promote
  <2> QED BY <1>7, <2>2, <2>3, <2>4, <2>5 DEF Promote
<1>8. CASE StartRestore
      BY <1>8, FilesAssumption, PagesAssumption DEF StartRestore, OnlyMirror
<1>9. CASE Restore
      BY <1>9, FilesAssumption, PagesAssumption DEF Restore, Begin, Seed
<1>10. CASE RestoreFails
      BY <1>10, FilesAssumption, PagesAssumption DEF RestoreFails, Begin, Seed,
                                                     Fault, OnlyMirror
<1>11. CASE StartCopy
      BY <1>11, FilesAssumption, PagesAssumption DEF StartCopy
<1>12. CASE Copy
      BY <1>12, FilesAssumption, PagesAssumption DEF Copy
<1>13. CASE CopyFails
      BY <1>13, FilesAssumption, PagesAssumption DEF CopyFails, Fault
<1>14. CASE StartClearing
  <2>1. PICK unread \in SUBSET {"real", "bak"} :
          /\ kept' = [f \in {"real", "bak"} |->
                        IF f \in unread THEN None ELSE Worth(card[f])]
          /\ \/ unread = {} /\ hurt' = hurt
             \/ hurt' = (hurt \/ "real" \in unread \/ card["real"] = None)
        BY <1>14 DEF StartClearing
  <2>2. pc = "home" /\ pc' = "remove" /\ UNCHANGED <<card, firm>>
        BY <1>14 DEF StartClearing
  <2>3. ~hurt' => /\ ~hurt
                  /\ unread = {} \/ (unread = {"bak"} /\ card["real"] # None)
        BY <2>1
  <2>4. ~hurt' => kept'["real"] = card["real"]
        BY <2>1, <2>2, <2>3 DEF Worth
  <2>5. ~hurt' /\ card["real"] = None => kept'["bak"] = card["bak"]
        BY <2>1, <2>2, <2>3 DEF Worth
  <2> QED BY <2>1, <2>2, <2>3, <2>4, <2>5, FilesAssumption, PagesAssumption
<1>15. CASE RemoveFails
      BY <1>15, FilesAssumption, PagesAssumption DEF RemoveFails, Fault
<1>16. CASE Removed
      BY <1>16, FilesAssumption, PagesAssumption DEF Removed
<1>17. CASE Cleared
      BY <1>17, FilesAssumption, PagesAssumption DEF Cleared
<1>18. ASSUME NEW f \in Names \ {"mirror"}, RemoveFile(f) PROVE PlaceInv'
      BY <1>18, FilesAssumption, PagesAssumption DEF RemoveFile
<1>19. ASSUME NEW f \in {"real", "bak"}, Rewrite(f) PROVE PlaceInv'
      BY <1>19, FilesAssumption, PagesAssumption DEF Rewrite
<1>20. ASSUME NEW f \in {"real", "bak"}, RewriteFails(f) PROVE PlaceInv'
      BY <1>20, FilesAssumption, PagesAssumption DEF RewriteFails, Fault
<1>21. CASE PowerCut
      BY <1>21, FilesAssumption, PagesAssumption DEF PowerCut, Fault, Seed
<1> QED BY <1>1, <1>2, <1>3, <1>4, <1>5, <1>6, <1>7, <1>8, <1>9, <1>10, <1>11,
           <1>12, <1>13, <1>14, <1>15, <1>16, <1>17, <1>18, <1>19, <1>20, <1>21
       DEF Next, Reading, Sink, Opening, Sleeping, Clearing, Observe,
           DebounceElapses, Tick, TurnPage, FollowLink, RestoreSavedPosition,
           Save, CloseAt, CloseUnlaid, SaveOrigin, SaveAndRestart, Done,
           OpenFails, Open, SleepAtHome, Wake, vars, Quiet, ControlTypes,
           Rest, Begin

\* Every step keeps SavedInv.
LEMMA SavedStep ==
    ASSUME ControlTypes, PositionTypes, CardTypes, SinkTypes, TrackInv, TmpInv,
           WholeInv, PlaceInv, SavedInv, [Next]_vars
    PROVE  SavedInv'
<1> USE DEF PositionTypes, SinkTypes, TrackInv, TmpInv, SavedInv, shown,
            tracker, sink, history
<1>1. CASE Observe
      BY <1>1, FilesAssumption, PagesAssumption DEF Observe, Unsaved, StillDue
<1>2. CASE DebounceElapses
      BY <1>2, FilesAssumption, PagesAssumption DEF DebounceElapses
<1>3. CASE Tick
      BY <1>3, FilesAssumption, PagesAssumption DEF Tick, Flush
<1>4. ASSUME NEW p \in Pages, TurnPage(p) PROVE SavedInv'
      BY <1>4, FilesAssumption, PagesAssumption DEF TurnPage
<1>5. ASSUME NEW next \in {"reading", "home", "snapshot"}, Save(next)
      PROVE  SavedInv'
      BY <1>5, FilesAssumption, PagesAssumption DEF Save, Flush, CloseAt,
                                                    Unsaved, StillDue
<1>6. ASSUME NEW p \in Pages, FollowLink(p) PROVE SavedInv'
      BY <1>6, FilesAssumption, PagesAssumption DEF FollowLink
<1>7. ASSUME NEW next \in {"reading", "home", "snapshot"}, CloseUnlaid(next)
      PROVE  SavedInv'
      BY <1>7, FilesAssumption, PagesAssumption DEF CloseUnlaid, CloseAt
<1>8. CASE RestoreSavedPosition
      BY <1>8, FilesAssumption, PagesAssumption DEF RestoreSavedPosition
<1>9. CASE SaveOrigin
      BY <1>9, FilesAssumption, PagesAssumption DEF SaveOrigin, Seed
<1>10. CASE SaveAndRestart
      BY <1>10, FilesAssumption, PagesAssumption DEF SaveAndRestart, Flush
<1>11. CASE Done
      BY <1>11, FilesAssumption, PagesAssumption DEF Done, Seed, ControlTypes
<1>12. CASE Clean
      BY <1>12, FilesAssumption, PagesAssumption DEF Clean, Rest
<1>13. CASE OpenTmp
      BY <1>13, FilesAssumption, PagesAssumption DEF OpenTmp, Rest
<1>14. CASE OpenFails
      BY <1>14, FilesAssumption, PagesAssumption DEF OpenFails, Answer, Fault,
                                                     Rest, ControlTypes
<1>15. CASE WriteTmp
      BY <1>15, FilesAssumption, PagesAssumption DEF WriteTmp, Fault, Rest
<1>16. CASE Unback
      BY <1>16, FilesAssumption, PagesAssumption DEF Unback, Rest
<1>17. CASE Back
      BY <1>17, FilesAssumption, PagesAssumption DEF Back, Fault, Rest
<1>18. CASE Promote
      BY <1>18, FilesAssumption, PagesAssumption DEF Promote, Answer, Fault,
                                                     Rest, CardTypes, Names,
                                                     ControlTypes
<1>19. CASE Open
      BY <1>19, FilesAssumption, PagesAssumption DEF Open, Begin, Seed,
                                                     OnlyMirror, PlaceInv,
                                                     Place
<1>20. CASE StartRestore
      BY <1>20, FilesAssumption, PagesAssumption DEF StartRestore
<1>21. CASE Restore
      BY <1>21, FilesAssumption, PagesAssumption DEF Restore, Begin, Seed,
                                                     WholeInv
<1>22. CASE RestoreFails
      BY <1>22, FilesAssumption, PagesAssumption DEF RestoreFails, Begin, Seed,
                                                     Fault, WholeInv,
                                                     OnlyMirror
<1>23. CASE SleepAtHome
      BY <1>23, FilesAssumption, PagesAssumption DEF SleepAtHome
<1>24. CASE StartCopy
      BY <1>24, FilesAssumption, PagesAssumption DEF StartCopy
<1>25. CASE Copy
      BY <1>25, FilesAssumption, PagesAssumption DEF Copy
<1>26. CASE CopyFails
      BY <1>26, FilesAssumption, PagesAssumption DEF CopyFails, Fault
<1>27. CASE Wake
      BY <1>27, FilesAssumption, PagesAssumption DEF Wake
<1>28. CASE StartClearing
      BY <1>28, FilesAssumption, PagesAssumption DEF StartClearing, Fault,
                                                     Worth
<1>29. CASE RemoveFails
      BY <1>29, FilesAssumption, PagesAssumption DEF RemoveFails, Fault
<1>30. CASE Removed
      BY <1>30, FilesAssumption, PagesAssumption DEF Removed
<1>31. CASE Cleared
      BY <1>31, FilesAssumption, PagesAssumption DEF Cleared
<1>32. ASSUME NEW f \in Names \ {"mirror"}, RemoveFile(f) PROVE SavedInv'
      BY <1>32, FilesAssumption, PagesAssumption DEF RemoveFile
<1>33. ASSUME NEW f \in {"real", "bak"}, Rewrite(f) PROVE SavedInv'
      BY <1>33, FilesAssumption, PagesAssumption DEF Rewrite
<1>34. ASSUME NEW f \in {"real", "bak"}, RewriteFails(f) PROVE SavedInv'
      BY <1>34, FilesAssumption, PagesAssumption DEF RewriteFails, Fault
<1>35. CASE PowerCut
      BY <1>35, FilesAssumption, PagesAssumption DEF PowerCut, Fault, Seed
<1>36. CASE UNCHANGED vars
      BY <1>36, FilesAssumption, PagesAssumption DEF vars
<1> QED BY <1>1, <1>2, <1>3, <1>4, <1>5, <1>6, <1>7, <1>8, <1>9, <1>10, <1>11,
           <1>12, <1>13, <1>14, <1>15, <1>16, <1>17, <1>18, <1>19, <1>20,
           <1>21, <1>22, <1>23, <1>24, <1>25, <1>26, <1>27, <1>28, <1>29,
           <1>30, <1>31, <1>32, <1>33, <1>34, <1>35, <1>36
       DEF Next, Reading, Sink, Opening, Sleeping, Clearing

\* Every step keeps LeftInv.
LEMMA LeftStep ==
    ASSUME ControlTypes, PositionTypes, CardTypes, SinkTypes, TrackInv,
           WholeInv, PlaceInv, SavedInv, LeftInv, [Next]_vars
    PROVE  LeftInv'
<1> USE DEF PositionTypes, SinkTypes, TrackInv, SavedInv, LeftInv, Opens,
            shown, tracker, sink, history
<1>1. CASE Observe
      BY <1>1, FilesAssumption, PagesAssumption DEF Observe, Unsaved, StillDue
<1>2. CASE DebounceElapses
      BY <1>2, FilesAssumption, PagesAssumption DEF DebounceElapses
<1>3. CASE Tick
      BY <1>3, FilesAssumption, PagesAssumption DEF Tick, Flush
<1>4. ASSUME NEW p \in Pages, TurnPage(p) PROVE LeftInv'
      BY <1>4, FilesAssumption, PagesAssumption DEF TurnPage
<1>5. ASSUME NEW next \in {"reading", "home", "snapshot"}, Save(next)
      PROVE  LeftInv'
      BY <1>5, FilesAssumption, PagesAssumption DEF Save, Flush, CloseAt,
                                                    Unsaved, StillDue
<1>6. ASSUME NEW p \in Pages, FollowLink(p) PROVE LeftInv'
      BY <1>6, FilesAssumption, PagesAssumption DEF FollowLink
<1>7. ASSUME NEW next \in {"reading", "home", "snapshot"}, CloseUnlaid(next)
      PROVE  LeftInv'
      BY <1>7, FilesAssumption, PagesAssumption DEF CloseUnlaid, CloseAt
<1>8. CASE RestoreSavedPosition
      BY <1>8, FilesAssumption, PagesAssumption DEF RestoreSavedPosition
<1>9. CASE SaveOrigin
      BY <1>9, FilesAssumption, PagesAssumption DEF SaveOrigin, Seed
<1>10. CASE SaveAndRestart
      BY <1>10, FilesAssumption, PagesAssumption DEF SaveAndRestart, Flush
<1>11. CASE Done
      BY <1>11, FilesAssumption, PagesAssumption DEF Done, Seed, ControlTypes
<1>12. CASE Clean
      BY <1>12, FilesAssumption, PagesAssumption DEF Clean, Rest
<1>13. CASE OpenTmp
      BY <1>13, FilesAssumption, PagesAssumption DEF OpenTmp, Rest
<1>14. CASE OpenFails
      BY <1>14, FilesAssumption, PagesAssumption DEF OpenFails, Answer, Fault,
                                                     Rest
<1>15. CASE WriteTmp
      BY <1>15, FilesAssumption, PagesAssumption DEF WriteTmp, Fault, Rest
<1>16. CASE Unback
      BY <1>16, FilesAssumption, PagesAssumption DEF Unback, Rest
<1>17. CASE Back
      BY <1>17, FilesAssumption, PagesAssumption DEF Back, Fault, Rest
<1>18. CASE Promote
      BY <1>18, FilesAssumption, PagesAssumption DEF Promote, Answer, Fault,
                                                     Rest
<1>19. CASE Open
      BY <1>19, FilesAssumption, PagesAssumption DEF Open, Begin, Seed,
                                                     OnlyMirror, PlaceInv,
                                                     Place
<1>20. CASE StartRestore
      BY <1>20, FilesAssumption, PagesAssumption DEF StartRestore
<1>21. CASE Restore
      BY <1>21, FilesAssumption, PagesAssumption DEF Restore, Begin, Seed,
                                                     WholeInv
<1>22. CASE RestoreFails
      BY <1>22, FilesAssumption, PagesAssumption DEF RestoreFails, Begin, Seed,
                                                     Fault, WholeInv,
                                                     OnlyMirror
<1>23. CASE SleepAtHome
      BY <1>23, FilesAssumption, PagesAssumption DEF SleepAtHome
<1>24. CASE StartCopy
      BY <1>24, FilesAssumption, PagesAssumption DEF StartCopy
<1>25. CASE Copy
      BY <1>25, FilesAssumption, PagesAssumption DEF Copy
<1>26. CASE CopyFails
      BY <1>26, FilesAssumption, PagesAssumption DEF CopyFails, Fault
<1>27. CASE Wake
      BY <1>27, FilesAssumption, PagesAssumption DEF Wake
<1>28. CASE StartClearing
  <2>1. ~hurt' => ~hurt
        BY <1>28 DEF StartClearing, Fault
  <2> QED BY <1>28, <2>1 DEF StartClearing
<1>29. CASE RemoveFails
      BY <1>29, FilesAssumption, PagesAssumption DEF RemoveFails, Fault
<1>30. CASE Removed
      BY <1>30, FilesAssumption, PagesAssumption DEF Removed
<1>31. CASE Cleared
      BY <1>31, FilesAssumption, PagesAssumption DEF Cleared
<1>32. ASSUME NEW f \in Names \ {"mirror"}, RemoveFile(f) PROVE LeftInv'
      BY <1>32, FilesAssumption, PagesAssumption DEF RemoveFile
<1>33. ASSUME NEW f \in {"real", "bak"}, Rewrite(f) PROVE LeftInv'
      BY <1>33, FilesAssumption, PagesAssumption DEF Rewrite
<1>34. ASSUME NEW f \in {"real", "bak"}, RewriteFails(f) PROVE LeftInv'
      BY <1>34, FilesAssumption, PagesAssumption DEF RewriteFails, Fault
<1>35. CASE PowerCut
      BY <1>35, FilesAssumption, PagesAssumption DEF PowerCut, Fault, Seed
<1>36. CASE UNCHANGED vars
      BY <1>36, FilesAssumption, PagesAssumption DEF vars
<1> QED BY <1>1, <1>2, <1>3, <1>4, <1>5, <1>6, <1>7, <1>8, <1>9, <1>10, <1>11,
           <1>12, <1>13, <1>14, <1>15, <1>16, <1>17, <1>18, <1>19, <1>20,
           <1>21, <1>22, <1>23, <1>24, <1>25, <1>26, <1>27, <1>28, <1>29,
           <1>30, <1>31, <1>32, <1>33, <1>34, <1>35, <1>36
       DEF Next, Reading, Sink, Opening, Sleeping, Clearing

-----------------------------------------------------------------------------
IInv ==
    /\ ControlTypes /\ PositionTypes /\ SinkTypes /\ CardTypes
    /\ faults \in 0 .. MaxFaults /\ firm \in Pages
    /\ TrackInv /\ TmpInv /\ CopyInv /\ PlaceInv /\ ClearInv /\ WholeInv
    /\ LeftInv /\ SavedInv

\* A card without files satisfies IInv.
LEMMA InitInv == Init => IInv
<1> SUFFICES ASSUME Init PROVE IInv
    OBVIOUS
<1> USE DEF Init
<1>1. ControlTypes /\ PositionTypes /\ SinkTypes
      BY PagesAssumption DEF ControlTypes, Pcs, PositionTypes, SinkTypes, Steps
<1>2. CardTypes
      BY DEF CardTypes, Names, Files
<1>3. faults \in 0 .. MaxFaults /\ firm \in Pages
      BY FaultsAssumption, PagesAssumption
<1>4. TrackInv /\ TmpInv /\ CopyInv /\ ClearInv /\ LeftInv /\ SavedInv
      BY DEF TrackInv, TmpInv, CopyInv, ClearInv, LeftInv, SavedInv
<1>5. PlaceInv /\ WholeInv
      BY PagesAssumption, FilesAssumption
      DEF PlaceInv, WholeInv, Stored, Place, Names
<1> QED BY <1>1, <1>2, <1>3, <1>4, <1>5 DEF IInv

\* Every step keeps IInv, part by part.
LEMMA StepInv == IInv /\ [Next]_vars => IInv'
<1> SUFFICES ASSUME IInv, [Next]_vars PROVE IInv'
    OBVIOUS
<1> USE DEF IInv
<1>1. ControlTypes' /\ PositionTypes' /\ SinkTypes' /\ CardTypes'
      BY ControlStep, PositionStep, SinkStep, CardStep
<1>2. faults' \in 0 .. MaxFaults
      BY FaultStep
<1>3. firm' \in Pages
      BY FirmStep
<1>4. TrackInv' /\ TmpInv' /\ CopyInv'
      BY TrackStep, TmpStep, CopyStep
<1>5. PlaceInv' /\ ClearInv' /\ WholeInv'
      BY PlaceStep, ClearStep, WholeStep
<1>6. LeftInv' /\ SavedInv'
      BY LeftStep, SavedStep
<1> QED BY <1>1, <1>2, <1>3, <1>4, <1>5, <1>6

\* IInv holds of every state of the book's files and of the readers.
THEOREM Invariance == Spec => []IInv
<1>1. Init => IInv
      BY InitInv
<1>2. IInv /\ [Next]_vars => IInv'
      BY StepInv
<1> QED BY <1>1, <1>2, PTL DEF Spec

\* The types, for every book: files, tracker, sink and clearing.
THEOREM TypeCorrect == Spec => []TypeOK
<1>1. IInv => TypeOK
      BY DEF IInv, ControlTypes, PositionTypes, SinkTypes, CardTypes, TypeOK,
             Pcs, Steps
<1> QED BY Invariance, <1>1, PTL

\* EpubProgressSink.cpp:87 and PagedProgressSink.cpp:38, for every book and any
\* number of faults: resets and failed calls in the middle of a save do not move
\* the place of the book.
THEOREM PlaceIsKept == Spec => []PlaceKept
<1>1. IInv => PlaceKept
      BY DEF IInv, PlaceInv, PlaceKept
<1> QED BY Invariance, <1>1, PTL

\* EpubReaderActivity.cpp:304 and ReaderProgressTracker.cpp:49, for every book,
\* wherever its text begins, and any number of faults: unless a write was lost,
\* the card has the page at which a book was closed, or from which its reader had
\* followed a link, and there the book opens, or where the text begins.
THEOREM ClosedIsKept == Spec => []ClosedKeepsPlace
<1>1. IInv => ClosedKeepsPlace
      BY DEF IInv, PlaceInv, LeftInv, ClosedKeepsPlace
<1> QED BY Invariance, <1>1, PTL

\* BackupMirror.cpp:105, for every book: a sleep copies what was saved at the
\* close, never a file in the middle of a rotation; where a call fails there is
\* no copy, or an empty one.
THEOREM CopyIsOfTheClose == Spec => SleepMirrors
<1>1. ASSUME IInv, pc = "copy", pc' = "asleep", left # None, ~lost, ~hurt, Next
      PROVE  \/ card'["mirror"] = left
             \/ faults' # faults /\ card'["mirror"] \in {None, Empty}
  <2>1. card["real"] = left
        BY <1>1 DEF IInv, CardTypes, Names, Files, CopyInv, WholeInv, PlaceInv,
                    Stored, Place, LeftInv
  <2>2. Copy \/ CopyFails
        BY <1>1 DEF Next, Reading, Sink, Opening, Sleeping, Clearing, Observe,
                    DebounceElapses, Tick, TurnPage, FollowLink,
                    RestoreSavedPosition, Save, CloseUnlaid, SaveOrigin,
                    SaveAndRestart, Done, Clean, OpenTmp, OpenFails,
                    WriteTmp, Unback, Back, Promote, Open, StartRestore,
                    Restore, RestoreFails, SleepAtHome, StartCopy, Wake,
                    StartClearing, RemoveFails, Removed, Cleared,
                    RemoveFile, Rewrite, RewriteFails, PowerCut, Rest,
                    Begin
  <2>3. CASE Copy
        BY <1>1, <2>1, <2>3 DEF Copy, IInv, CardTypes, Names
  <2>4. CASE CopyFails
        BY <1>1, <2>4 DEF CopyFails, Fault, IInv, CardTypes, Names
  <2> QED BY <2>2, <2>3, <2>4
<1>2. IInv /\ [Next]_vars =>
        [pc = "copy" /\ pc' = "asleep" /\ left # None /\ ~lost /\ ~hurt =>
           \/ card'["mirror"] = left
           \/ faults' # faults /\ card'["mirror"] \in {None, Empty}]_vars
      BY <1>1
<1> QED BY Invariance, <1>2, PTL DEF Spec, SleepMirrors

==============================================================================
