----------------------------- MODULE ProgressFiles -----------------------------
(***************************************************************************)
(* The reading position of one book on the card: progress.bin, its         *)
(* temporary file, its .bak and its copy in /.crosspoint/backups, under    *)
(* everything that writes them.  EpubProgressSink and PagedProgressSink    *)
(* rotate them with unchecked calls, ReaderProgressTracker decides when,   *)
(* BackupMirror copies progress.bin at every sleep and copies it back when *)
(* nothing else is left, and ClearCacheActivity removes the directory and  *)
(* rewrites what it kept in RAM.  The power may be cut between any two     *)
(* steps.                                                                  *)
(*                                                                         *)
(* The EPUB reader saves on lifecycle events and calls a submitted write   *)
(* saved; the paged readers (TXT, XTC) save after a debounce, wait for the *)
(* write and try again when it fails.  The queue in front of the EPUB      *)
(* sink is that of module EpubReader; here its job runs to its end.  A     *)
(* position is a number, the start of the book is 0; a file holds a        *)
(* position or nothing at all, since six bytes are written in one piece.   *)
(***************************************************************************)
EXTENDS Naturals

CONSTANTS
    Pages,      \* the positions in the book
    None,       \* no such file
    Empty,      \* a file that nothing was written to
    TextPlace,  \* where an EPUB opens that was saved at a position: from the
                \* first chapter it goes to the one where the text begins
    MaxFaults   \* bound on power cuts, failed and short writes, failed renames

ASSUME PagesAssumption == 0 \in Pages /\ None \notin Pages
ASSUME FilesAssumption == Empty \notin Pages \cup {None}
ASSUME TextAssumption == TextPlace \in [Pages -> Pages]
ASSUME FaultsAssumption == MaxFaults \in Nat

VARIABLES
    format,     \* which reader the book has: "epub" or "paged"
    pc,         \* what the device does
    then,       \* where it goes when what it waits for is written, else "home"
    page,       \* the page shown
    origin,     \* savedPositions[0]: where the reader of an EPUB followed the
                \* outermost link, or left for a bookmark; None without one
    observed, saved, dirty, \* ReaderProgressTracker
    due,        \* debounceMs_ have passed since lastChangeMs_
    step, job,  \* how far the sink is, and the position it writes
    card,       \* the files: progress_tmp.bin, progress.bin,
                \* progress.bin.bak and the copy in /.crosspoint/backups
    kept,       \* what ClearCacheActivity holds of the second and the third
    faults,
    firm,       \* history: the last position that became progress.bin
    hurt,       \* history: since then a short write became progress.bin, or a
                \* clearing or a copy back did not end, or a clearing went on
                \* without the file that gave the place
    lost,       \* history: this session a write was lost, but taken for done
    left        \* history: the position with which the book was closed

shown == <<page, origin>>
tracker == <<observed, saved, dirty, due>>
sink == <<step, job>>
history == <<firm, hurt, lost, left>>
vars == <<format, pc, then, shown, tracker, sink, card, kept, faults, history>>

Files == Pages \cup {None, Empty}
Names == {"tmp", "real", "bak", "mirror"}

\* What the reader takes from a file: one too short leaves it at the start.
Place(file) == IF file \in Pages THEN file ELSE 0

\* The page it then shows.
Opens(p) == IF format = "epub" THEN TextPlace[p] ELSE p

\* The file a reader opens: progress.bin, else its backup, else the copy.
Stored ==
    IF card["real"] # None THEN card["real"]
    ELSE IF card["bak"] # None THEN card["bak"] ELSE card["mirror"]

Fault == faults < MaxFaults /\ faults' = faults + 1

-----------------------------------------------------------------------------
Init ==
    /\ format \in {"epub", "paged"}
    /\ pc = "home" /\ then = "home"
    /\ page = 0 /\ origin = None
    /\ observed = None /\ saved = None /\ dirty = FALSE /\ due = FALSE
    /\ step = "idle" /\ job = None
    /\ card = [f \in Names |-> None]
    /\ kept = [f \in {"real", "bak"} |-> None]
    /\ faults = 0
    /\ firm = 0 /\ hurt = FALSE /\ lost = FALSE /\ left = None

-----------------------------------------------------------------------------
(* The tracker.  A position includes a page count, which no file at hand   *)
(* gives an EPUB: its first observation then differs from the seed.        *)

Seed(position) ==
    observed' = position /\ saved' = position /\ dirty' = FALSE /\ due' = FALSE

\* observe(): what it makes of dirty_ and of the debounce.
Unsaved == IF page = observed THEN dirty ELSE page # saved
StillDue == due /\ page = observed

Observe ==
    /\ pc = "reading" /\ page # observed
    /\ observed' = page /\ dirty' = Unsaved /\ due' = StillDue
    /\ UNCHANGED <<format, pc, then, shown, saved, sink, card, kept, faults,
                   history>>

DebounceElapses ==
    /\ pc = "reading" /\ dirty /\ ~due
    /\ due' = TRUE
    /\ UNCHANGED <<format, pc, then, shown, observed, saved, dirty, sink, card,
                   kept, faults, history>>

\* flush(force) of what was observed: `needed` is dirty_.  Only the EPUB
\* sink answers before it has written.
FlushHopefully(position, needed) ==
    /\ observed' = position
    /\ dirty' = FALSE /\ saved' = IF needed THEN position ELSE saved
    /\ IF needed THEN step' = "clean" /\ job' = position ELSE UNCHANGED sink

Flush(position, needed) ==
    /\ observed' = position
    /\ IF needed THEN step' = "clean" /\ job' = position ELSE UNCHANGED sink
    /\ IF needed /\ format = "epub"
       THEN saved' = position /\ dirty' = FALSE
       ELSE UNCHANGED saved /\ dirty' = needed

\* A plain pass of a paged reader's loop; the EPUB one only observes.
Tick ==
    /\ pc = "reading" /\ format = "paged"
    /\ page = observed /\ dirty /\ due
    /\ pc' = "wait" /\ then' = "reading"
    /\ Flush(page, TRUE)
    /\ UNCHANGED <<format, shown, due, card, kept, faults, history>>

TurnPage(p) ==
    /\ pc = "reading" /\ p # page
    /\ page' = p
    /\ left' = None
    /\ UNCHANGED <<format, pc, then, origin, tracker, sink, card, kept, faults,
                   firm, hurt, lost>>

\* A link into the notes, or a bookmark.  Links followed from there, and the
\* way back from them, are pages turned.
FollowLink(p) ==
    /\ pc = "reading" /\ format = "epub"
    /\ page' = p /\ origin' = IF origin = None THEN page ELSE origin
    /\ left' = None
    /\ UNCHANGED <<format, pc, then, tracker, sink, card, kept, faults,
                   firm, hurt, lost>>

RestoreSavedPosition ==
    /\ pc = "reading" /\ origin # None
    /\ page' = origin /\ origin' = None
    /\ left' = None
    /\ UNCHANGED <<format, pc, then, tracker, sink, card, kept, faults,
                   firm, hurt, lost>>

\* flushProgressIfNeeded(true) before a menu or a new layout, and by the
\* close that leads home or to sleep.
CloseAt(next, position) ==
    IF next = "reading" THEN left
    ELSE IF origin # None THEN origin ELSE position

SaveUnobserved(next) ==
    /\ pc = "reading"
    /\ pc' = "wait" /\ then' = next
    /\ Flush(observed, dirty)
    /\ left' = CloseAt(next, page)
    /\ UNCHANGED <<format, shown, due, card, kept, faults, firm, hurt, lost>>

Save(next) ==
    /\ pc = "reading"
    /\ pc' = "wait" /\ then' = next
    /\ Flush(page, Unsaved) /\ due' = StillDue
    /\ left' = CloseAt(next, page)
    /\ UNCHANGED <<format, shown, card, kept, faults, firm, hurt, lost>>

\* Without a section laid out the EPUB reader flushes nothing.
CloseUnlaid(next) ==
    /\ pc = "reading" /\ format = "epub" /\ next # "reading"
    /\ pc' = "wait" /\ then' = next
    /\ left' = CloseAt(next, None)
    /\ UNCHANGED <<format, shown, tracker, sink, card, kept, faults, firm, hurt,
                   lost>>

\* onExit() of a reader in the notes: the origin is written over the page just
\* handed to the sink.
SaveOrigin ==
    /\ pc = "wait" /\ then # "reading" /\ step = "idle" /\ origin # None
    /\ Seed(origin)
    /\ step' = "clean" /\ job' = origin
    /\ origin' = None
    /\ UNCHANGED <<format, pc, then, page, card, kept, faults, history>>

\* persistProgressBeforeRestart(): the last page drawn, then the reset, which
\* closes no reader.
SaveAndRestart ==
    /\ pc = "reading" /\ format = "epub"
    /\ pc' = "wait" /\ then' = "home"
    /\ Flush(observed, dirty)
    /\ origin' = None /\ left' = observed
    /\ UNCHANGED <<format, page, due, card, kept, faults, firm, hurt, lost>>

\* The main loop goes on once the sink is done; a close takes the tracker
\* with it, a write that failed included.
DoneUndrained ==
    /\ pc = "wait" /\ (origin = None \/ then = "reading")
    /\ pc' = then /\ then' = "home"
    /\ IF then = "reading"
       THEN UNCHANGED <<page, tracker, sink, lost>>
       ELSE /\ page' = 0 /\ Seed(None) /\ step' = "idle" /\ job' = None
            /\ lost' = (lost \/ dirty)
    /\ UNCHANGED <<format, origin, card, kept, faults, firm, hurt, left>>

Done ==
    /\ pc = "wait" /\ step = "idle" /\ (origin = None \/ then = "reading")
    /\ pc' = then /\ then' = "home"
    /\ IF then = "reading"
       THEN UNCHANGED <<page, tracker, lost>>
       ELSE page' = 0 /\ Seed(None) /\ lost' = (lost \/ dirty)
    /\ UNCHANGED <<format, origin, sink, card, kept, faults, firm, hurt, left>>

-----------------------------------------------------------------------------
(* The sink: writeProgressSync of the EPUB reader, on the writer task, and *)
(* PagedProgressSink::write, on the main loop.  Every call but the opening *)
(* goes unchecked.                                                         *)

Rest == UNCHANGED <<format, pc, then, shown, observed, due, kept, left>>

\* The sink answers: true once progress_tmp.bin could be opened.
Answer(written) ==
    /\ step' = "idle" /\ job' = None
    /\ IF written THEN saved' = observed /\ dirty' = FALSE
                  ELSE UNCHANGED <<saved, dirty>>

Clean ==
    /\ step = "clean" /\ step' = "open"
    /\ card' = [card EXCEPT !["tmp"] = None]
    /\ UNCHANGED <<job, saved, dirty, faults, firm, hurt, lost>> /\ Rest

OpenTmp ==
    /\ step = "open" /\ step' = "write"
    /\ card' = [card EXCEPT !["tmp"] = Empty]
    /\ UNCHANGED <<job, saved, dirty, faults, firm, hurt, lost>> /\ Rest

OpenFails ==
    /\ step = "open" /\ Fault
    /\ Answer(FALSE)
    /\ lost' = (lost \/ format = "epub")
    /\ UNCHANGED <<card, firm, hurt>> /\ Rest

WriteTmp ==
    /\ step = "write" /\ step' = "unback"
    /\ \/ card' = [card EXCEPT !["tmp"] = job] /\ UNCHANGED faults
       \/ Fault /\ UNCHANGED card
    /\ UNCHANGED <<job, saved, dirty, firm, hurt, lost>> /\ Rest

\* The old backup goes only when there is a file to take its place.
UnbackAlways ==
    /\ step = "unback"
    /\ step' = IF card["real"] # None THEN "back" ELSE "promote"
    /\ card' = [card EXCEPT !["bak"] = None]
    /\ UNCHANGED <<job, saved, dirty, faults, firm, hurt, lost>> /\ Rest

Unback ==
    /\ step = "unback"
    /\ IF card["real"] # None
       THEN step' = "back" /\ card' = [card EXCEPT !["bak"] = None]
       ELSE step' = "promote" /\ UNCHANGED card
    /\ UNCHANGED <<job, saved, dirty, faults, firm, hurt, lost>> /\ Rest

Back ==
    /\ step = "back" /\ step' = "promote"
    /\ \/ /\ card' = [card EXCEPT !["bak"] = card["real"], !["real"] = None]
          /\ UNCHANGED faults
       \/ Fault /\ UNCHANGED card
    /\ UNCHANGED <<job, saved, dirty, firm, hurt, lost>> /\ Rest

\* A rename does not replace a file.
Promote ==
    /\ step = "promote"
    /\ Answer(TRUE)
    /\ \/ /\ card["real"] = None
          /\ card' = [card EXCEPT !["real"] = card["tmp"], !["tmp"] = None]
          /\ hurt' = (card["tmp"] = Empty) /\ lost' = (lost \/ hurt')
          /\ firm' = IF hurt' THEN firm ELSE card["tmp"]
          /\ UNCHANGED faults
       \/ /\ card["real"] # None
          /\ lost' = TRUE
          /\ UNCHANGED <<card, faults, firm, hurt>>
       \/ /\ card["real"] = None /\ Fault
          /\ lost' = TRUE
          /\ UNCHANGED <<card, firm, hurt>>
    /\ Rest

-----------------------------------------------------------------------------
(* Opening the book, and the copy that may have to come back first.        *)

\* seed() with what was loaded from `file`, and no session before this one.
Begin(file) ==
    /\ pc' = "reading" /\ page' = Opens(Place(file)) /\ origin' = None
    /\ Seed(IF file \in Pages THEN file
            ELSE IF format = "paged" THEN 0 ELSE None)
    /\ left' = IF lost \/ hurt THEN None ELSE left
    /\ lost' = FALSE
    /\ UNCHANGED <<format, then, sink, kept, firm, hurt>>

OnlyMirror ==
    card["real"] = None /\ card["bak"] = None /\ card["mirror"] # None

Open ==
    /\ pc = "home" /\ ~OnlyMirror
    /\ Begin(Stored)
    /\ UNCHANGED <<card, faults>>

\* restoreFromMirror(), straight onto progress.bin.
StartRestore ==
    /\ pc = "home" /\ OnlyMirror
    /\ pc' = "restore"
    /\ card' = [card EXCEPT !["real"] = Empty]
    /\ UNCHANGED <<format, then, shown, tracker, sink, kept, faults, history>>

Restore ==
    /\ pc = "restore"
    /\ card' = [card EXCEPT !["real"] = card["mirror"]]
    /\ Begin(card["mirror"])
    /\ UNCHANGED faults

\* The copy cannot be made, or comes out short and is removed; a failed read
\* ends it, and leaves the file as if it were a copy.
RestoreFails ==
    /\ Fault
    /\ \E file \in {None, Empty} :
        /\ \/ pc = "home" /\ OnlyMirror /\ file = None
           \/ pc = "restore" /\ card["mirror"] # Empty
        /\ card' = [card EXCEPT !["real"] = file]
        /\ Begin(file)

-----------------------------------------------------------------------------
(* Sleep: snapshotAll() by SleepActivity, after the reader was closed and  *)
(* the writer drained.                                                     *)

SleepAtHome ==
    /\ pc = "home" /\ pc' = "snapshot"
    /\ UNCHANGED <<format, then, shown, tracker, sink, card, kept, faults,
                   history>>

StartCopy ==
    /\ pc = "snapshot"
    /\ IF card["real"] = None
       THEN pc' = "asleep" /\ UNCHANGED card
       ELSE pc' = "copy" /\ card' = [card EXCEPT !["mirror"] = Empty]
    /\ UNCHANGED <<format, then, shown, tracker, sink, kept, faults, history>>

\* copyFile() of progress.bin over the mirror of the last sleep.
Copy ==
    /\ pc = "copy" /\ pc' = "asleep"
    /\ card' = [card EXCEPT !["mirror"] = card["real"]]
    /\ UNCHANGED <<format, then, shown, tracker, sink, kept, faults, history>>

\* It cannot be opened; or a write comes out short and it is removed, or a
\* read fails and it stays as it is, empty.
CopyFails ==
    /\ Fault /\ pc' = "asleep"
    /\ \/ pc = "snapshot" /\ card["real"] # None /\ UNCHANGED card
       \/ /\ pc = "copy" /\ card["real"] # Empty
          /\ \E file \in {None, Empty} :
                card' = [card EXCEPT !["mirror"] = file]
    /\ UNCHANGED <<format, then, shown, tracker, sink, kept, history>>

Wake ==
    /\ pc = "asleep" /\ pc' = "home"
    /\ UNCHANGED <<format, then, shown, tracker, sink, card, kept, faults,
                   history>>

-----------------------------------------------------------------------------
(* ClearCacheActivity::clearCache(), for the directory of this book.       *)

Worth(file) == IF file = Empty THEN None ELSE file

\* A file that cannot be read is not kept; the clearing goes on without it.
StartClearing ==
    /\ pc = "home" /\ pc' = "remove"
    /\ \E unread \in SUBSET {f \in {"real", "bak"} : card[f] \in Pages} :
        /\ kept' = [f \in {"real", "bak"} |->
                       IF f \in unread THEN None ELSE Worth(card[f])]
        /\ \/ unread = {} /\ UNCHANGED <<faults, hurt>>
           \/ /\ unread # {} /\ Fault
              /\ hurt' = (hurt \/ "real" \in unread \/ card["real"] = None)
    /\ UNCHANGED <<format, then, shown, tracker, sink, card, firm, lost, left>>

\* removeDir() takes the files in the order of the directory.
RemoveFile(f) ==
    /\ pc = "remove" /\ card[f] # None
    /\ card' = [card EXCEPT ![f] = None]
    /\ UNCHANGED <<format, pc, then, shown, tracker, sink, kept, faults,
                   history>>

RemoveFails ==
    /\ pc = "remove" /\ Fault
    /\ pc' = "home" /\ hurt' = TRUE
    /\ kept' = [f \in {"real", "bak"} |-> None]
    /\ UNCHANGED <<format, then, shown, tracker, sink, card, firm, lost, left>>

Removed ==
    /\ pc = "remove" /\ \A f \in Names \ {"mirror"} : card[f] = None
    /\ pc' = "rewrite"
    /\ UNCHANGED <<format, then, shown, tracker, sink, card, kept, faults,
                   history>>

\* progress.bin first; each is opened, and so made empty, before it is written.
Rewrite(f) ==
    /\ pc = "rewrite" /\ kept[f] # None
    /\ f = "bak" => kept["real"] = None
    /\ IF card[f] = None
       THEN card' = [card EXCEPT ![f] = Empty] /\ UNCHANGED kept
       ELSE /\ card' = [card EXCEPT ![f] = kept[f]]
            /\ kept' = [kept EXCEPT ![f] = None]
    /\ UNCHANGED <<format, pc, then, shown, tracker, sink, faults, history>>

RewriteFails(f) ==
    /\ pc = "rewrite" /\ kept[f] # None
    /\ f = "bak" => kept["real"] = None
    /\ Fault
    /\ kept' = [kept EXCEPT ![f] = None] /\ hurt' = TRUE
    /\ UNCHANGED <<format, pc, then, shown, tracker, sink, card, firm, lost,
                   left>>

Cleared ==
    /\ pc = "rewrite" /\ \A f \in {"real", "bak"} : kept[f] = None
    /\ pc' = "home"
    /\ UNCHANGED <<format, then, shown, tracker, sink, card, kept, faults,
                   history>>

-----------------------------------------------------------------------------
\* What is in RAM is gone; what is on the card is as the last step left it.
PowerCut ==
    /\ pc \notin {"home", "asleep"} /\ Fault
    /\ pc' = "home" /\ then' = "home"
    /\ page' = 0 /\ origin' = None /\ Seed(None)
    /\ step' = "idle" /\ job' = None
    /\ kept' = [f \in {"real", "bak"} |-> None]
    /\ hurt' = (hurt \/ pc \in {"restore", "remove", "rewrite"})
    /\ left' = IF pc \in {"reading", "wait"} THEN None ELSE left
    /\ UNCHANGED <<format, card, firm, lost>>

Reading ==
    \/ Observe \/ DebounceElapses \/ Tick
    \/ \E p \in Pages : TurnPage(p) \/ FollowLink(p)
    \/ \E next \in {"reading", "home", "snapshot"} :
           Save(next) \/ CloseUnlaid(next)
    \/ RestoreSavedPosition \/ SaveOrigin \/ SaveAndRestart \/ Done

Sink == Clean \/ OpenTmp \/ OpenFails \/ WriteTmp \/ Unback \/ Back \/ Promote

Opening == Open \/ StartRestore \/ Restore \/ RestoreFails

Sleeping == SleepAtHome \/ StartCopy \/ Copy \/ CopyFails \/ Wake

Clearing ==
    \/ StartClearing \/ RemoveFails \/ Removed \/ Cleared
    \/ \E f \in Names \ {"mirror"} : RemoveFile(f)
    \/ \E f \in {"real", "bak"} : Rewrite(f) \/ RewriteFails(f)

Next == Reading \/ Sink \/ Opening \/ Sleeping \/ Clearing \/ PowerCut

Spec == Init /\ [][Next]_vars

\* The loop of the reader and the write it waits for go on.
FairSpec ==
    /\ Spec
    /\ WF_vars(Observe) /\ WF_vars(DebounceElapses) /\ WF_vars(Tick)
    /\ WF_vars(Done) /\ WF_vars(Sink)

-----------------------------------------------------------------------------
(* Properties *)

TypeOK ==
    /\ format \in {"epub", "paged"}
    /\ pc \in {"home", "reading", "wait", "restore", "snapshot", "copy",
               "asleep", "remove", "rewrite"}
    /\ then \in {"reading", "home", "snapshot"}
    /\ page \in Pages /\ origin \in Pages \cup {None}
    /\ origin # None => format = "epub" /\ pc \in {"reading", "wait"}
    /\ observed \in Pages \cup {None} /\ saved \in Pages \cup {None}
    /\ dirty \in BOOLEAN /\ due \in BOOLEAN
    /\ step \in {"idle", "clean", "open", "write", "unback", "back", "promote"}
    /\ job \in Pages \cup {None}
    /\ step # "idle" => job \in Pages /\ pc = "wait"
    /\ card \in [Names -> Files]
    /\ kept \in [{"real", "bak"} -> Pages \cup {None}]
    /\ faults \in 0 .. MaxFaults
    /\ firm \in Pages /\ hurt \in BOOLEAN /\ lost \in BOOLEAN
    /\ left \in Pages \cup {None}

\* Whatever happens between two steps of a save - a reset, a failed open, a
\* failed rename of either file - the files give the last position that became
\* progress.bin.  Only a short write, a clearing of the cache or a copy back
\* that did not end, or a clearing that could not read the file it should have
\* kept, can take it from them.
PlaceKept ==
    ~hurt /\ pc \notin {"restore", "remove", "rewrite"} => Place(Stored) = firm

\* A book that was closed, for home, for sleep or for a silent restart, has on
\* the card the page it was closed at - in the notes or at a bookmark, the page
\* from which the reader went there - through any clearing of the cache in
\* between, unless a write was lost; and that is where it opens again, or, for
\* an EPUB closed in its first chapter, where the text begins.  (A close with
\* no section laid out and a restart keep only what was drawn before.)
ClosedKeepsPlace ==
    left # None /\ ~lost /\ ~hurt =>
        CASE pc = "reading" -> page = Opens(left)
          [] pc \in {"home", "snapshot", "copy", "asleep"} -> Place(Stored) = left
          [] OTHER -> TRUE

\* The copy that a sleep makes is of the place where the book was closed: the
\* snapshot never reads a file that a save still rotates.  A call that fails
\* leaves no copy, or an empty one that copyFile() takes for good.
SleepMirrors ==
    [][pc = "copy" /\ pc' = "asleep" /\ left # None /\ ~lost /\ ~hurt =>
        \/ card'["mirror"] = left
        \/ faults' # faults /\ card'["mirror"] \in {None, Empty}]_vars

\* A page of a TXT or XTC book that stays on the screen reaches the card
\* without a key: a write that could not begin is tried again.  (The start
\* may also be where a lost file has left the reader, with nothing to save.)
StayingPageSaved ==
    \A p \in Pages :
        format = "paged" /\ <>[](pc \in {"reading", "wait"} /\ page = p) =>
            <>[](lost \/ (hurt /\ p = 0) \/ Place(Stored) = p)

=============================================================================
