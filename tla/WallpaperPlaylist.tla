-------------------------- MODULE WallpaperPlaylist ---------------------------
(***************************************************************************)
(* The rotation of the sleep pictures: sleep/WallpaperPlaylistV2.cpp (the  *)
(* order file and its cursor), the facade sleep/Wallpaper.cpp (which path  *)
(* a sleep takes, how often it tries), the favourite names of              *)
(* util/FavoriteImage.cpp and the menu entries that move files under the   *)
(* rotation's feet.  Every sleep ends in a reset: only the folders, the    *)
(* order file and APP_STATE outlive it, and whatever the playlist knows of *)
(* the folder is found out again on the way into the next sleep, on as     *)
(* much heap as there is left.  APP_STATE and the order file are replaced  *)
(* whole (module SafeFile): a save is one step here.                       *)
(***************************************************************************)
EXTENDS Integers, SequencesExt, FiniteSetsExt

CONSTANTS
    Images,          \* pictures, as numbers in the order of their names
    Corrupt,         \* those that cannot be decoded
    NoImage,
    Stock,           \* pictures in /sleep when the firmware first runs, newest first
    Cap,             \* kSleepFolderCap, and SLEEP_FAVORITES_MAX
    MaxNew,          \* kMaxNewFilesPerReconcile
    SkipBudget,      \* names advance() passes over before it gives up
    Retries,         \* kNextSleepFileRetries
    MaxEdits         \* bound on edits by the user, on power cuts and on trims
                     \* that the card fails

ASSUME ImagesAssumption == Images \subseteq Nat /\ NoImage \notin Images
ASSUME StockAssumption == Stock \in Seq(Images) /\ IsInjective(Stock)
ASSUME CorruptAssumption == Corrupt \subseteq Images
ASSUME LimitsAssumption == /\ {Cap, MaxNew, SkipBudget, Retries} \subseteq Nat \ {0}
                           /\ MaxEdits \in Nat

\* A file name: x.bmp, or x_F.bmp for a favourite.
Names == [img : Images, fav : BOOLEAN]
NoName == [img |-> NoImage, fav |-> FALSE]
Counterpart(n) == [n EXCEPT !.fav = ~@]

Path(d, n) == [dir |-> d, name |-> n]
NoPath == Path("none", NoName)

NotLoaded == [names |-> <<>>, cursor |-> -1]
Emptied == [names |-> <<>>, cursor |-> 0]

VARIABLES
    folder,      \* /sleep, the newest file first
    pauseDir,    \* the names in "/sleep pause"
    disk,        \* sleep_order.txt: the names and the byte offset of the next
    lastShown,   \* APP_STATE.lastShownSleepFilename
    rendered,    \* APP_STATE.lastSleepWallpaperPath
    paused,      \* APP_STATE.wallpaperRotationPaused
    ram,         \* buffer_ and cursor_, or NotLoaded
    dirty,       \* dirty_
    pc,
    heap,        \* "low", "tight" or "roomy" on the way to sleep, else "any"
    attempt, directAfter,  \* locals of nextSleepFile
    pick,        \* the candidate and where it came from
    edits,
    onScreen,    \* history: the picture the last sleep left on the screen
    seen         \* history: names shown from the order since it was last settled

folders == <<folder, pauseDir>>
appState == <<lastShown, rendered, paused>>
playlist == <<disk, ram, dirty>>
local == <<heap, attempt, directAfter, pick>>
history == <<onScreen, seen>>
vars == <<folders, appState, playlist, pc, local, edits, history>>

Present == ToSet(folder)

\* What a listing of names shows, or leaves, of those in S: the one in place k has
\* k - 1 others before it.
Kept(names, S) ==
    LET at == {i \in DOMAIN names : names[i] \in S}
    IN [k \in 1..Cardinality(at) |->
          names[CHOOSE i \in at : Cardinality({j \in at : j < i}) = k - 1]]
Without(names, S) == Kept(names, ToSet(names) \ S)

NoPick == [name |-> NoName, by |-> "none"]

-----------------------------------------------------------------------------
(* The order: a sequence of names with a byte offset into it *)

\* The byte offset where entry i begins: a name counts one, its suffix another.
Start(names, i) == (i - 1) + Cardinality({j \in 1..(i - 1) : names[j].fav})

\* The entry the cursor stands on or in, one past the last at the end.
EntryAt(b) == CHOOSE i \in 1..(Len(b.names) + 1) :
                 /\ Start(b.names, i) <= b.cursor
                 /\ i <= Len(b.names) => b.cursor < Start(b.names, i + 1)

\* advance(): the entry its k-th turn looks at, and whether it looks at a whole
\* name that names a file.
Turn(b, k) == ((EntryAt(b) - 1 + k) % Len(b.names)) + 1
Hit(b, k) == /\ k = 0 => b.cursor = Start(b.names, EntryAt(b))
             /\ b.names[Turn(b, k)] \in Present
Hits(b) == {k \in 0..(SkipBudget - 1) : Hit(b, k)}

\* The cursor behind the entry of turn k.
Passed(b, k) == [b EXCEPT !.cursor = Start(b.names, Turn(b, k) + 1)]

\* The lap ends on turn k or earlier: the cursor went back to 0 and was saved.
Wraps(b, k) == EntryAt(b) + k > Len(b.names)

\* A slip: the cursor stays where it was.
RenameUnshifted(b, batch, mayGrow) ==
    [b EXCEPT !.names = [i \in DOMAIN @ |->
        IF Counterpart(@[i]) \in batch /\ (mayGrow \/ @[i].fav)
          THEN Counterpart(@[i]) ELSE @[i]]]

\* renameInBuffer for each new file whose counterpart has an entry: the name is
\* replaced where it stands; a longer one needs heap.  The offset moves along
\* with what changed before it.
RenameInBuffer(b, batch, mayGrow) ==
    LET names == [i \in DOMAIN b.names |->
            IF Counterpart(b.names[i]) \in batch /\ (mayGrow \/ b.names[i].fav)
              THEN Counterpart(b.names[i]) ELSE b.names[i]]
    IN [names |-> names, cursor |-> Start(names, EntryAt(b))]

\* rebuildSequential(): the files of a folder, the newest first; of a folder over
\* the cap one listing returns only so many.
Laps(files) ==
    {[names |-> Kept(files, listed), cursor |-> 0] :
        listed \in kSubset(Min({Cap, Len(files)}), ToSet(files))}

-----------------------------------------------------------------------------
(* Files that move take the references in APP_STATE along *)

\* A slip: the last picture on the screen is looked for where it was.
StayRendered(from, to) == rendered

\* updateSleepReferencesOnPathChange(): lastSleepWallpaperPath.
FollowRendered(from, to) == IF rendered = from THEN to ELSE rendered

\* Names that can be moved to "/sleep pause": a rename fails on a taken name.
Movable(S) == S \ pauseDir

\* The files of S are renamed to "/sleep pause".
MoveToPause(S) ==
    /\ folder' = Without(folder, S)
    /\ pauseDir' = pauseDir \cup S
    /\ lastShown' = IF lastShown \in S THEN NoName ELSE lastShown
    /\ rendered' = IF rendered.dir = "sleep" /\ rendered.name \in S
                     THEN FollowRendered(rendered, Path("pause", rendered.name))
                     ELSE rendered

\* A slip: the sort puts the newest in front.
TrimmedNewest ==
    LET plain == Kept(folder, {n \in Present : ~n.fav})
    IN ToSet(SubSeq(plain, 1, Min({Len(folder) - Cap, Len(plain)})))

\* trimToCap(): the oldest that are no favourites; all of them when favourites
\* fill the folder.
Trimmed ==
    LET plain == Kept(folder, {n \in Present : ~n.fav})
        kept == IF Len(folder) - Len(plain) >= Cap THEN 0
                ELSE Len(plain) - Min({Len(folder) - Cap, Len(plain)})
    IN ToSet(SubSeq(plain, kept + 1, Len(plain)))

RenderedExists == \/ rendered.dir = "sleep" /\ rendered.name \in Present
                  \/ rendered.dir = "pause" /\ rendered.name \in pauseDir

-----------------------------------------------------------------------------
Init ==
    /\ folder = [i \in DOMAIN Stock |-> [img |-> Stock[i], fav |-> FALSE]]
    /\ pauseDir = {}
    /\ disk = Emptied /\ ram = NotLoaded /\ dirty = TRUE
    /\ lastShown = NoName /\ rendered = NoPath /\ paused = FALSE
    /\ pc = "awake" /\ heap = "any"
    /\ attempt = 0 /\ directAfter = NoName /\ pick = NoPick
    /\ edits = 0
    /\ onScreen = NoImage /\ seen = {}

(* What happens between two sleeps *)

Edit == /\ pc = "awake" /\ edits < MaxEdits /\ edits' = edits + 1
        /\ UNCHANGED <<pc, local>>

\* A file arrives: by upload, from the library, or with the card in a PC; not
\* beside itself under its other name, which reconcile() takes for a rename.
AddFile(n) ==
    /\ Edit
    /\ {n, Counterpart(n)} \cap Present = {}
    /\ folder' = <<n>> \o folder
    /\ dirty' = TRUE
    /\ seen' = {}
    /\ UNCHANGED <<pauseDir, appState, disk, ram, onScreen>>

\* A file goes without the firmware's menus: on the web page, or on a PC.
RemoveFile(n) ==
    /\ Edit
    /\ n \in Present
    /\ folder' = Without(folder, {n})
    /\ onScreen' = IF rendered = Path("sleep", n) THEN NoImage ELSE onScreen
    /\ UNCHANGED <<pauseDir, appState, playlist, seen>>

\* FavoriteImage::setFavorite, either way.
ToggleFavourite(n) ==
    LET to == Counterpart(n)
    IN /\ Edit
       /\ n \in Present /\ to \notin Present
       /\ to.fav => Cardinality({m \in Present : m.fav}) < Cap
       /\ folder' = [i \in DOMAIN folder |-> IF folder[i] = n THEN to ELSE folder[i]]
       /\ lastShown' = IF lastShown = n THEN to ELSE lastShown
       /\ rendered' = FollowRendered(Path("sleep", n), Path("sleep", to))
       /\ seen' = IF n \in seen THEN (seen \ {n}) \cup {to} ELSE seen \ {to}
       /\ UNCHANGED <<pauseDir, paused, playlist, onScreen>>

\* The same for the last picture when it lies in "/sleep pause".
ToggleInPause ==
    LET n == rendered.name
    IN /\ Edit
       /\ rendered.dir = "pause" /\ n \in pauseDir /\ Counterpart(n) \notin pauseDir
       /\ pauseDir' = (pauseDir \ {n}) \cup {Counterpart(n)}
       /\ rendered' = FollowRendered(rendered, Path("pause", Counterpart(n)))
       /\ UNCHANGED <<folder, lastShown, paused, playlist, history>>

\* The reader's menu: move the last picture to "/sleep pause" (a copy over
\* whatever is there, then a delete), or delete it.
TriageMovePause ==
    LET n == rendered.name
    IN /\ Edit
       /\ rendered.dir = "sleep" /\ n \in Present
       /\ folder' = Without(folder, {n})
       /\ pauseDir' = pauseDir \cup {n}
       /\ lastShown' = IF lastShown = n THEN NoName ELSE lastShown
       /\ rendered' = FollowRendered(rendered, Path("pause", n))
       /\ paused' = FALSE
       /\ UNCHANGED <<playlist, history>>

TriageDelete ==
    LET n == rendered.name
    IN /\ Edit
       /\ RenderedExists
       /\ IF rendered.dir = "sleep"
            THEN /\ folder' = Without(folder, {n})
                 /\ lastShown' = IF lastShown = n THEN NoName ELSE lastShown
                 /\ UNCHANGED pauseDir
            ELSE pauseDir' = pauseDir \ {n} /\ UNCHANGED <<folder, lastShown>>
       /\ rendered' = NoPath /\ paused' = FALSE /\ onScreen' = NoImage
       /\ UNCHANGED <<playlist, seen>>

TogglePause ==
    /\ Edit
    /\ paused' = ~paused
    /\ UNCHANGED <<folders, lastShown, rendered, playlist, history>>

\* The home screen's remedy for a full folder; favourites are not spared.  (A
\* rename that the card fails is one of a smaller S.)
MoveRandomToPause(S) ==
    /\ Edit
    /\ Len(folder) > Cap /\ S \subseteq Present /\ S # {}
    /\ MoveToPause(Movable(S))
    /\ dirty' = (dirty \/ Movable(S) # {})
    /\ UNCHANGED <<paused, disk, ram, history>>

\* reshuffle(): the picture shown last goes in front and the cursor behind it.
\* A heap too small is either noticed first, and nothing happens, or by
\* writeBuffer, which has dropped the order held in memory by then.
ShownFirst(order) == IF lastShown \in ToSet(order) /\ Len(order) > 1
                       THEN <<lastShown>> \o Without(order, {lastShown}) ELSE order

Reshuffle(fits) ==
    /\ Edit
    /\ \E listed \in kSubset(Min({Cap, Len(folder)}), Present) :
         \E order \in SetToSeqs(listed) :
           LET names == ShownFirst(order)
               b == [names |-> names,
                     cursor |-> IF lastShown \in listed /\ Len(order) > 1
                                  THEN Start(names, 2) ELSE 0]
           IN IF folder = <<>>
                THEN disk' = Emptied /\ ram' = IF ram = NotLoaded THEN ram ELSE Emptied
                ELSE IF fits THEN disk' = b /\ ram' = b
                             ELSE disk' = disk /\ ram' = Emptied
    /\ seen' = IF fits THEN {n \in {lastShown} \cap ToSet(disk'.names) :
                               rendered = Path("sleep", n)}
                       ELSE seen
    /\ UNCHANGED <<folders, appState, dirty, onScreen>>

-----------------------------------------------------------------------------
(* The way to sleep: SleepActivity, wallpaper::nextSleepFile *)

\* The loop goes round: the playlist if the heap can carry it, which begins
\* with a reconcile while the folder is unsettled; else the file by name.
Attempt(h) == pc' = IF h # "low" /\ dirty THEN "reconcile" ELSE "pick"

\* Too little heap for any picture: a blank screen forgets the last one.
BlankSleep ==
    /\ pc = "awake"
    /\ rendered' = NoPath /\ onScreen' = NoImage
    /\ pc' = "asleep"
    /\ UNCHANGED <<folders, lastShown, paused, playlist, local, edits, seen>>

\* A paused rotation shows the last picture again, wherever it is now.
PausedSleep ==
    /\ pc = "awake"
    /\ paused /\ RenderedExists /\ rendered.name.img \notin Corrupt
    /\ onScreen' = rendered.name.img
    /\ pc' = "asleep"
    /\ UNCHANGED <<folders, appState, playlist, local, edits, seen>>

BeginSleep(h) ==
    /\ pc = "awake"
    /\ ~(paused /\ RenderedExists /\ rendered.name.img \notin Corrupt)
    /\ folder = <<>> => h = "low"
    /\ heap' = h
    /\ attempt' = 1 /\ directAfter' = lastShown /\ pick' = NoPick
    /\ Attempt(h)
    /\ UNCHANGED <<folders, appState, playlist, edits, history>>

\* A slip: only what is still to come in the lap is compared.
UnknownAhead(files, b) == files \ {b.names[i] : i \in EntryAt(b)..Len(b.names)}

\* nameIsInBuffer() fails: the files the order does not know.
Unknown(files, b) == files \ ToSet(b.names)

\* What the heap probes of one reconcile let through: the full listing, if it
\* comes to that; so many new files at most; a longer name, and the splice, which
\* needs more.
Rooms == {r \in [list : BOOLEAN, keep : 0..MaxNew, grow : BOOLEAN, splice : BOOLEAN] :
            /\ r.splice => r.grow
            /\ Len(folder) <= Cap => r.list
            /\ heap = "roomy" => r.list /\ r.keep = MaxNew /\ r.splice}

\* reconcile(), with ensureLoaded() before it: too many files are moved away, a
\* batch of new ones is taken in, those in front that are not just renamed.  A file
\* too many that was not moved stays unknown, its old entry with it, until a later
\* reconcile: the count of those shown starts anew.
Settle(room, gone, moved, b) ==
    LET new == Unknown(Present \ gone, b)
    IN \E batch \in kSubset(Min({room.keep, Cardinality(new)}), new) :
         LET renamed == RenameInBuffer(b, batch, room.grow)
             folded == {renamed.names[i] :
                          i \in {j \in DOMAIN b.names : renamed.names[j] # b.names[j]}}
             fresh == batch \ folded
             truncated == batch # new
         IN \/ /\ fresh = {}
               /\ ram' = renamed /\ dirty' = truncated
               /\ disk' = IF folded # {} THEN renamed ELSE disk
               /\ seen' = IF truncated \/ gone # moved THEN {} ELSE seen
            \/ /\ fresh # {} /\ ~room.splice
               /\ ram' = renamed /\ UNCHANGED dirty
               /\ disk' = IF folded # {} THEN renamed ELSE disk
               /\ seen' = {}
            \/ /\ fresh # {} /\ room.splice
               /\ ram' \in IF renamed.names = <<>> THEN Laps(folder')
                            ELSE {[names |-> Kept(folder, fresh) \o renamed.names,
                                   cursor |-> 0]}
               /\ disk' = ram' /\ dirty' = truncated
               /\ seen' = {}

Reconcile ==
    /\ pc = "reconcile"
    /\ \E room \in Rooms :
         \E gone \in {IF Len(folder) > Cap /\ room.list THEN Trimmed ELSE {}} :
           \E moved \in SUBSET Movable(gone) :
              /\ \/ moved = Movable(gone) /\ UNCHANGED edits
                 \/ moved # Movable(gone) /\ edits < MaxEdits /\ edits' = edits + 1
              /\ MoveToPause(moved)
              /\ Settle(room, gone, moved, IF ram = NotLoaded THEN disk ELSE ram)
    /\ pc' = "pick"
    /\ UNCHANGED <<paused, local, onScreen>>

\* nextSleepBmpAfter(): the next file by name, the first after the last.
Before(m, n) == m.img < n.img \/ (m.img = n.img /\ ~m.fav /\ n.fav)
Direct(after) ==
    LET later == {n \in Present : after # NoName /\ Before(after, n)}
        from == IF later # {} THEN later ELSE Present
    IN CHOOSE n \in from : \A m \in from \ {n} : Before(n, m)

\* The choice by name: nothing to show in an empty folder, and then the default
\* screen forgets the last picture.
DirectPick ==
    IF folder = <<>>
      THEN /\ rendered' = NoPath /\ onScreen' = NoImage
           /\ pc' = "asleep" /\ UNCHANGED pick
      ELSE /\ pick' = [name |-> Direct(directAfter), by |-> "name"]
           /\ pc' = "draw" /\ UNCHANGED <<rendered, onScreen>>

PickByName ==
    /\ pc = "pick" /\ heap = "low"
    /\ DirectPick
    /\ UNCHANGED <<folders, lastShown, paused, playlist, heap, attempt,
                   directAfter, edits, seen>>

\* advance() after its reconcile: an empty order is rebuilt first (the folder is
\* not empty, or the gate had found the order not worth its heap).
Orders == IF ram.names # <<>> THEN {ram} ELSE Laps(folder)

PickFromOrder ==
    /\ pc = "pick" /\ heap # "low"
    /\ \E b \in Orders :
         /\ Hits(b) # {}
         /\ ram' = Passed(b, Min(Hits(b))) /\ disk' = ram'
         /\ pick' = [name |-> b.names[Turn(b, Min(Hits(b)))], by |-> "order"]
    /\ lastShown' = pick'.name
    /\ seen' = IF ram.names # <<>> THEN seen ELSE {}
    /\ pc' = "draw"
    /\ UNCHANGED <<folders, rendered, paused, dirty, heap, attempt, directAfter,
                   edits, onScreen>>

\* advance() comes back empty: no heap to rebuild the order, or too many names in
\* a row whose files are gone.  Where it got to is not saved, except that the
\* lap ended.
PickPastOrder ==
    /\ pc = "pick" /\ heap # "low"
    /\ \/ /\ ram.names = <<>> /\ heap = "tight"
          /\ UNCHANGED <<ram, disk>>
       \/ /\ ram.names # <<>> /\ Hits(ram) = {}
          /\ ram' = Passed(ram, SkipBudget - 1)
          /\ disk' = IF Wraps(ram, SkipBudget - 1) THEN [ram EXCEPT !.cursor = 0] ELSE disk
    /\ DirectPick
    /\ UNCHANGED <<folders, lastShown, paused, dirty, heap, attempt, directAfter,
                   edits, seen>>

\* The probe draws it: rememberRendered().
Draw ==
    /\ pc = "draw" /\ pick.name.img \notin Corrupt
    /\ rendered' = Path("sleep", pick.name) /\ lastShown' = pick.name
    /\ onScreen' = pick.name.img
    /\ seen' = IF pick.by # "order" THEN seen
               ELSE IF pick.name \in seen THEN {pick.name}
               ELSE seen \cup {pick.name}
    /\ pc' = "asleep"
    /\ UNCHANGED <<folders, paused, playlist, local, edits>>

\* A slip: the next try by name begins where the first one did.
StayAfter == directAfter

\* The next try by name goes on behind the file that was refused.
StepPast == pick.name

DrawFails ==
    /\ pc = "draw" /\ pick.name.img \in Corrupt
    /\ directAfter' = StepPast
    /\ IF attempt < Retries
         THEN /\ attempt' = attempt + 1 /\ Attempt(heap)
              /\ UNCHANGED <<rendered, onScreen>>
         ELSE /\ rendered' = NoPath /\ onScreen' = NoImage
              /\ pc' = "asleep" /\ UNCHANGED attempt
    /\ UNCHANGED <<folders, lastShown, paused, playlist, heap, pick, edits, seen>>

\* The reset that ends a sleep.
Reset ==
    /\ ram' = NotLoaded /\ dirty' = TRUE
    /\ heap' = "any" /\ attempt' = 0 /\ directAfter' = NoName /\ pick' = NoPick
    /\ pc' = "awake"
    /\ UNCHANGED <<folders, appState, disk, onScreen>>

Wake == pc = "asleep" /\ Reset /\ UNCHANGED <<edits, seen>>

\* Power fails on the way to sleep, or the battery runs out in between.
PowerCut ==
    /\ pc # "asleep" /\ edits < MaxEdits
    /\ Reset
    /\ edits' = edits + 1 /\ seen' = {}

Next ==
    \/ \E n \in Names : AddFile(n) \/ RemoveFile(n) \/ ToggleFavourite(n)
    \/ ToggleInPause \/ TriageMovePause \/ TriageDelete \/ TogglePause
    \/ \E S \in SUBSET Present : MoveRandomToPause(S)
    \/ \E fits \in BOOLEAN : Reshuffle(fits)
    \/ BlankSleep \/ PausedSleep \/ \E h \in {"low", "tight", "roomy"} : BeginSleep(h)
    \/ Reconcile \/ PickByName \/ PickFromOrder \/ PickPastOrder \/ Draw \/ DrawFails
    \/ Wake \/ PowerCut

Spec == Init /\ [][Next]_vars

\* The way to sleep runs to its end, a device asleep is woken, and one awake
\* goes to sleep again, on whatever heap.
FairSpec ==
    /\ Spec
    /\ WF_vars(Reconcile)
    /\ WF_vars(PickByName \/ PickFromOrder \/ PickPastOrder)
    /\ WF_vars(Draw \/ DrawFails)
    /\ WF_vars(Wake)
    /\ WF_vars(BlankSleep \/ PausedSleep
                \/ \E h \in {"low", "tight", "roomy"} : BeginSleep(h))

-----------------------------------------------------------------------------
(* Properties *)

\* The order never holds a name twice, however often files are renamed, come
\* back or are folded in, and its cursor stands at the beginning of a name or at
\* the end (the byte offset of WallpaperPlaylistV2::cursor_).
TypeOK ==
    /\ ToSet(folder) \subseteq Names /\ pauseDir \subseteq Names
    /\ lastShown \in Names \cup {NoName}
    /\ rendered \in [dir : {"sleep", "pause"}, name : Names] \cup {NoPath}
    /\ paused \in BOOLEAN /\ dirty \in BOOLEAN
    /\ pc \in {"awake", "reconcile", "pick", "draw", "asleep"}
    /\ attempt \in 0..Retries /\ edits \in 0..MaxEdits
    /\ \A b \in {disk, ram} \ {NotLoaded} :
         /\ ToSet(b.names) \subseteq Names
         /\ Cardinality(ToSet(b.names)) = Len(b.names)
         /\ b.cursor = Start(b.names, EntryAt(b))

\* The names the lap can show: in the order, in the folder, and not broken.
Eligible == {n \in Present \cap ToSet(ram.names) : n.img \notin Corrupt}

\* A picture comes back from the order only when every other one of it that is
\* still there and can be drawn has had its turn: across resets, favourite
\* toggles, deletions and sleeps that chose by name, until new files, a power cut
\* or a file too many that was not moved away settle the order anew
\* (WallpaperPlaylistV2.h:20, no early repeat).
\* A reshuffle never begins with the picture the user has just seen.
LapShowsEach ==
    [][pc = "draw" /\ pc' = "asleep" /\ onScreen' # NoImage /\ pick.by = "order"
         /\ pick.name \in seen
       => Eligible \subseteq seen]_vars

\* On the way to sleep files leave the folder only when it is over its cap, never
\* a favourite, and, as long as no rename is failed by the card, never one while an
\* older plain one stays whose name is free (trimToCap): what was just added stays.
TrimsOldest ==
    [][pc = "reconcile" /\ pc' = "pick" /\ folder' # folder
       => /\ Len(folder) > Cap
          /\ Len(folder') >= Min({Cap, Cardinality({n \in Present : n.fav})})
          /\ \A i \in DOMAIN folder : folder[i] \notin ToSet(folder') =>
               /\ ~folder[i].fav
               /\ edits' = edits =>
                    \A j \in (i + 1)..Len(folder) :
                       folder[j] \in ToSet(folder') =>
                           folder[j].fav \/ folder[j] \in pauseDir]_vars

\* A paused rotation shows the picture of the last sleep again, after it was
\* marked, trimmed or moved, for as long as its file is in one of the folders;
\* unless the screen is blanked (lastSleepWallpaperPath follows every rename of the firmware).
PausedKeeps ==
    [][pc = "awake" /\ pc' # "awake" /\ paused /\ onScreen # NoImage
         /\ rendered' # NoPath
       => pc' = "asleep" /\ onScreen' = onScreen]_vars

\* However the heap changes from sleep to sleep, every picture that can be drawn
\* comes up again and again once the folder is left alone: as long as there is
\* now and then enough heap to reconcile, or never any for the playlist.
EveryPictureReturns ==
    \A i \in Images \ Corrupt :
        []<>(pc = "pick") /\ ([]<>(heap = "roomy") \/ <>[](pc = "pick" => heap = "low"))
          => []<>(onScreen = i \/ i \notin {n.img : n \in Present} \/ paused)

=============================================================================
