# TLA+ models of crosspoint-reader-DX34

A verification development of the firmware of an ESP32-C3 e-reader: models of
the parts where several tasks, a failing SD card and sudden power loss meet,
checked with TLC on small instances and, where it matters most, proved with
TLAPS for all of them. Paths below are relative to the root of the repository
(`src/main.cpp` is the firmware's main file; `PROJECT.json` writes it
`src/src/main.cpp`).

    tlc -workers 2 -config SafeFile.cfg MCSafeFile
    tlapm SafeFileProofs.tla

## 1. Inventory

The device runs one core with FreeRTOS. Three tasks of equal priority touch the
state that is worth modelling: the Arduino **main loop** (buttons, activities,
stores), the **render task** of the activity in front (layout and drawing), and
the **AsyncWriter** task (background SD writes). They meet in the `RenderLock`
of an activity, the mutex and ring of the writer, and a lock in `HalStorage`
that covers one SD operation at a time, never a sequence of them. Power can go
at any time, and the firmware restarts itself when the heap is fragmented.

| Component | State | Operations | Interacts with | What must hold |
|---|---|---|---|---|
| **Persisted file** `src/persist/SdFatFileIO.cpp`, `src/JsonSettingsIO.cpp`, sweep in `src/main.cpp` | four directory entries per path: the file, `.bak`, `.tmp`, `.tmp2` | safeWrite, safeWriteStreamed, safeRead, sweep at boot | all stores; power loss; card errors | an acknowledged write survives; a failed one rolls back |
| **Background writer** `src/persist/AsyncWriter.cpp` | ring of 4 jobs, `busy_`, notification | start, submit, drainBlocking, task loop | reader, recents, router | no lost wake-up, FIFO, oldest dropped first, a drain is complete and returns |
| **EPUB reader** `src/activities/reader/EpubReaderActivity.cpp` | spine index, next page, section, footnote stack, deferred flags | open, turn, skip, menu and its jumps, layout, draw, reload, restart, close | render task, tracker, writer, sub-activities | the newest position reaches the card; closing ends; what is asked for is drawn |
| **Progress** `ReaderProgressTracker.cpp`, `EpubProgressSink.cpp`, `PagedProgressSink.cpp` | observed and saved position, `progress.bin` and `.bak` | observe, flush, write, load | reader, writer | nothing observed is forgotten on a lifecycle event |
| **Input dispatcher** `ReaderInputDispatcher.h` | pending tap | dispatch to an effect | reader | effects fit the state |
| **JSON stores** `PersistentStore.h`, `PersistManager.cpp` | data, dirty, debounce clock | edit, tickPersist, flushAll, load, rollback | persisted file, router, restart hook | every edit is flushed in bounded time and before power-down |
| **Recent books** `src/RecentBooksStore.cpp` | list in RAM, `recent.json` | add, update, move, percent, save, saveAsync | writer, reader, boot | the file ends up as the newest list |
| **Activities** `Activity.cpp`, `ActivityWithSubactivity.cpp` | render task handle, mutex, done semaphore | enter, exit, request update (and wait) | power lock, main loop | one render task, no lock lost, no frame lost |
| **Router** `src/lifecycle/ActivityRouter.cpp` | pending route, busy | request, apply, enterDeepSleep | stores, activities | state is flushed after the last exit |
| **Boot and silent restart** `src/boot/`, `src/SilentRestart.cpp` | RTC magic and counts, load count, open book | arm, consume, reserve, decide | stores, reader | a book that cannot be opened does not trap the device |
| **Deferred actions** `DeferredActionQueue.h` | bitset | post, drain, clear | library | none lost, none twice |
| **Section page cache** `SectionPageCache.h` | window of three pages | fetch, shift, clear | reader | the window is of this chapter |
| **Section files** `lib/Epub/Epub/Section.cpp` | page count, cache file | create, load, clear | reader | the page count is that of the file |
| **Web upload** `src/network/ws/WsUploadSession.cpp` | owner, size, received, clock | start, data, disconnect, tick | nothing at this commit | dormant: see "Not modelled" |
| **Wallpaper rotation** `src/sleep/WallpaperPlaylistV2.cpp`, `Wallpaper.cpp`, `util/FavoriteImage.cpp` | names and byte cursor, the two folders, three fields of `APP_STATE` | reconcile, advance, reshuffle, retries, favourite, pause, move | deep sleep, persisted file, heap | every wallpaper comes up, none early; a paused one stays |
| **Backup mirror** `src/persist/BackupMirror.cpp` | copies in `/.crosspoint/backups` | snapshot at sleep, restore at opening | progress, sleep | a good copy of what was saved |
| **Clear cache** `ClearCacheActivity.cpp` | what it keeps in RAM | remove the directories, rewrite | progress | the places in the books survive |
| **Trash** `src/persist/Trash.cpp` | slots | move, prune | library | a move is all or nothing |
| Parsing, fonts, images, archives, I18N, settings screens, web server, OTA, KOReader client | – | – | – | data transformation, vendored code, user interface, network I/O: not modelled |

Hard here: steps of three tasks in orders nobody tested; the position read
without the lock that a layout writes under it; several jobs for one file in a
ring that drops; an order of flush, join and drain that only works one way; a
file that is a sequence of renames; restarts in the middle of everything.
`PROJECT.json` lists each such hazard at its line with the properties that would
catch it, or a note on why none does yet.

## 2. Modules

| Module | What it is |
|---|---|
| `SafeFile` | one path and its rotation, one SD operation per step |
| `DurableCell` | what the rotation promises: a single durable cell |
| `SafeFileProofs` | inductive invariant, theorems |
| `AsyncWriter` | ring, mutex, notification, writer task, draining producers |
| `JobQueue` | what the runner promises: a FIFO that gives up its oldest |
| `AsyncWriterProofs` | inductive invariant, theorems |
| `EpubReader` | reader, render task and writer around the reading position |
| `EpubReaderProofs` | inductive invariant, theorems |
| `BootRecovery` | from reset to a screen: boot, crash guard, silent restarts, sleep |
| `BootRecoveryProofs` | inductive invariant, theorems |
| `ProgressFiles` | `progress.bin`, its backup and its mirror under all their writers |
| `ProgressFilesProofs` | inductive invariant, theorems |
| `WallpaperPlaylist` | the rotation of the sleep pictures over many sleeps |
| `WallpaperPlaylistProofs` | inductive invariant, theorems |
| `WallpaperLapProofs` | the laps of the rotation: a second inductive invariant on top of the first |
| `RecentsSaving` | two tasks rotating `recent.json` at once |
| `MC*` | instances for TLC |

How the modules meet: `SafeFile` is the reason why a write of a JSON store is
one step in `BootRecovery` and `WallpaperPlaylist`; `JobQueue` is the abstract
form in which `EpubReader` and `BootRecovery` see the background writer;
`EpubReader` asks *which* position is handed to the sink, `ProgressFiles` what
the sink and everyone else then make of the files; `RecentsSaving` takes the
rotation of `SafeFile` and the jobs of `AsyncWriter` and lets two of them run
at once, which none of the other modules does.

Some definitions are variants of a neighbouring one with one plausible
programming error in it; most say so in their comment ("a slip"). No action of
the specifications uses them. Put in place of their neighbour they must break a
property, and `PROJECT.json` ("mutants") says which: that is how we know a
property depends on the code it is about.

### SafeFile

A payload is the number of the write that made it; 0 is "no file" and, for the
reader of it, "defaults". `disk` maps the four names to 0, a payload, or `Torn`.
`pc` walks through `safeWriteStreamed`: remove a stale `.tmp` or fall back to
`.tmp2`, open, fill, remove `.bak`, rename the file to `.bak`, rename the
temporary file to the file, and the roll-back. Each step may fail as the code
allows, `Fail(d)` is `return false`, and `Crash` may come anywhere. `Sweep` and
`Load` are the part of `setup()` that concerns this path. The two booleans that
never change pick the kind of path: `swept` (settings, state, recents) or not,
and `parses` (read with `safeDeserializeFile`, which goes on to the next tier
until one parses) or read with `safeRead`, which stops at the first non-empty
tier. `safeRead` skips an empty file; a file that was only just opened counts as
`Torn` here, which is the less favourable choice.

Four history variables say how much has gone wrong since the last acknowledged
write: `gaps` counts rotations that broke off and left no primary (with the
`.bak` gone or about to go), `torn` short writes that nobody noticed, `alt`
writes that had to use `.tmp2`. The properties are of the form "at most so much
has gone wrong, therefore":

* `FailedWriteRollsBack`: nothing of the kind happened, so the primary *is* the
  acknowledged write whenever no rotation is half way.
* `BootKeepsAcked`: after one gap, or one short write on a path that is parsed
  tier by tier, a boot loads at least the acknowledged write.
* `UnsweptSurvivesTwo`: two gaps in a row, on a path that is not swept.
* `ImplementsCell`: seen through `Recoverable` (what a boot would load now) the
  four names are one cell which only an acknowledgement changes.

Two statements of the comments do not hold of the code, each with a run that
shows it: `EveryPathSurvivesTwo` (the third tier that `IFileIO.h:49` promises is
swept away before it is read) and `TrueMeansWhole` (`IFileIO.h:31`; the producer
in `PersistentStore.h:84` never reports a short write).

### AsyncWriter and JobQueue

What the code does under `mtx_` in one go is one action; the notification after
it is another; the writer's running of a job and the clearing of `busy_` are two
more, because others may look in between. `Drained` is the test of
`drainBlocking`'s polling loop coming out true. A failed `xTaskCreate` is a
stutter, and until `Start` jobs run on the spot. `settled` holds jobs run or
dropped, `mine` the newest job of each producer. `ImplementsQueue` is the
refinement to `JobQueue`, fairness included.

### EpubReader

`mpc` is the main loop, `rpc` the render task, `queue` and `running` the writer
in the abstract form of `JobQueue`, with positions for job numbers and one extra
job for `recent.json`. The blocks under `RenderLock` are single steps guarded by
`LockFree`. What is *not* under it in the code is not here either: page turns
write `section.page` while a layout may run, `LoopTop` observes the position on
every turn of the loop, and `DeferredReset` drops the section without a look at
the render task. `Panic` is the outcome when it hits a layout: the reset of the
device.

Layout is one step per page (`pageCount` of the live `Section` grows under the
eyes of the main loop), may fail, be retried in the same object (`stale`), fail
for good (recovery screen), find no memory (silent restart after a flush and a
drain, or going home), and drawing may fail and ask for the deferred reset. The
menu deletes the reader's render task and creates it anew; out of it come chapter
and page jumps, bookmarks, footnotes, rotation and display reloads. `Exit`,
`SaveOrigin`, `Join`, `Close` are `onExit()` in its order.

* `PipelineNewest`: the last position job that is running or waiting, or the
  file if there is none, is what the tracker takes for saved.
* `QuietClose`: a book closed on an open page, with no frame asked for or under
  way, is on the card at that page, or at the outermost link when the reader is
  in a footnote.
* `CloseCompletes`: an exit that has begun ends, whoever waits for whom.
* Not kept by the code: `FinishedBookIsSaved` (`EpubReaderActivity.cpp:1851`)
  and `ResetIsRedrawn` (`:1699`).

Left out, and why it does no harm to these properties: page counts inside a
position, anchors and the projection of a page onto a new layout (they change
which page a jump lands on, not how it is saved); highlight mode; deleting or
forgetting the book from the menu (the book is gone); the low-memory restarts at
menu entry; menu entries that leave the position alone; saves of `APP_STATE`
(module `BootRecovery`); torn writes of `progress.bin` (module `ProgressFiles`).
A section that is in the cache looks like a fast layout. A second skip back before the
first has been drawn is left out, which keeps the chapter at -1 or more.

### BootRecovery

`pc` is where `setup()`, the router or the shown activity is. The card holds
`state.json` and `recent.json` (`disk`), a write of which is one step; `rtc` is
the RTC memory that survives a reset but not a power cut; `dirty` is the flag of
`PersistentStore`, `job` a queued rewrite of `recent.json`. `ConsumeTarget`,
`LoadStores`, `DecideSilent`/`DecideNormal` and `BumpGuard` are `setup()` in its
order. A book opens in `Enter` and `Register` (the render task may draw before
`registerRecentBook`), or fails in one of four ways: `loadEpub` returns nothing
(`LoadFails`), the activity or its task cannot be allocated (`EntryFails`), no
page fits the heap (`RenderOom`, until the budget is used up), or a panic
(`Reset`). `Restart` is the pre-restart hook, whose flush may fail.
`CloseForSleep` and `PersistForSleep` are the two halves of going to sleep.

* `GuardHolds`: no boot opens a book while an opening of an earlier boot has
  come to nothing, whatever lies between the two.
* `ResumesAfterSleep`: after a sleep in a book, the next boot finds that book
  first in the list, and the guard down.
* `ReturnsToBook`: a restart for lack of memory comes back to the open book.
* `BootSettles`: left alone, every start ends on a screen.

Met while modelling, none of it against a line of the repository: (a) when the
reader's task cannot be created, its `onExit` takes the durable guard back
before the device restarts, so such a failure does not count as one
(`GuardHolds` says "no close"); (b) "a book is open" is
`openEpubPath` not being empty (`src/main.cpp:422`), so that lack of memory on
entering *another* screen restarts into the last book; (c) the render task may
run out of memory before the book is registered: the restart then lands at home
or in the book before it; (d) a restart does not drain the writer unless its
caller has done so.

Left out: TXT and XTC books, the loop magic next to the count, `esp_restart` as
the last resort of `enterNewActivity` (it is a `Reset`).

### ProgressFiles

`card` has the four names of one book: the temporary file, `progress.bin`, its
`.bak`, and the copy of the mirror. `step` walks through
`EpubProgressSink::writeProgressSync` and `PagedProgressSink::write`, which do
the same calls in the same order and look only at the result of the opening.
The reader is `observe`/`flush` of `ReaderProgressTracker` with the two ways in
which a sink answers: the EPUB one at once, the paged one when it is done.
`StartCopy`/`Copy` are `BackupMirror::snapshotAll`, `StartRestore`/`Restore` its
`restoreFromMirror`, and `StartClearing` … `Cleared` are
`ClearCacheActivity::clearCache`. Opens, writes and renames may fail, so
may the removals of a clearing and the reads of a clearing and of a copy, and
power may be cut between any two steps.

The page on the screen need not be the position in the file. `TextPlace` is
where an EPUB opens that was saved at a position: one saved in its first chapter
goes on to the chapter where the text begins (`EpubReaderActivity.cpp:243-249`),
whatever these two are in the book at hand. `origin` is `savedPositions[0]`:
`FollowLink` is a footnote, a link or a bookmark, `RestoreSavedPosition` the way
back, and `SaveOrigin` writes the origin over the page when such a reader is
closed (304-307). `CloseUnlaid` is the close with no section laid out, which
flushes nothing.

`hurt` is a history variable: since the last good promotion a short write has
become `progress.bin`, a clearing or a copy back broke off, or a clearing went
on without the file that gave the place. `lost` says that a write was lost but
taken for done, `left` is the position a close should leave on the card.

* `PlaceKept`: nothing of that kind happened, so the files give the last
  position that became `progress.bin`.
* `ClosedKeepsPlace`: the card has the page a book was closed at, or the
  outermost link's when the reader was in the notes; there it opens, or where the
  text begins.
* `SleepMirrors`: the copy made at sleep is of that place. When a call fails
  there is none, or an empty one that nobody notices.
* `StayingPageSaved`: a page of a TXT or XTC book that stays on the screen is
  saved without a key, retried after a failed write.

Met while modelling: a short write makes `progress.bin` empty, the load then
gives the start of the book although `.bak` is good, and the next save rotates
the empty file over it; power loss in `restoreFromMirror` leaves an empty
`progress.bin` that hides the mirror for good; a read that fails ends `copyFile`
with "true" (`BackupMirror.cpp:29`), so that an empty file stands for the copy, at
sleep in place of a good mirror, at opening in place of the book's position;
`snapshotAll` overwrites a good copy with an empty file and skips a book that has
only its `.bak`; a clearing that breaks off loses what is in RAM. `EpubProgressSink.h:7-10` still speaks of
remove and rename without a backup. The proof shows one thing more (`WholeInv`):
as long as nothing is `hurt`, the mirror is never needed.

Left out: the page count that is part of a position, a `progress.bin` that exists
and cannot be opened or read by the reader that opens the book, a removal that
fails in the middle of a save, the write after a re-layout (`TxtReaderActivity.cpp:485`, whose result nobody looks at:
`StayingPageSaved` is shown without it), the rest of the stack of saved positions
above the outermost (links followed from the notes are pages turned), all other
books.

### WallpaperPlaylist

`folder` is `/sleep` with the newest file first, `disk` the order file, `ram`
what is loaded of it; a name is a picture and whether it carries the `_F` of a
favourite. Every sleep ends in a reset, so `BeginSleep`, `Reconcile`, the three
`Pick…` actions, `Draw` or `DrawFails` and `Wake` make one turn, with `heap`
choosing which of the paths of `nextSleepFile` there is memory for. The byte
cursor is real: a favourite's name is longer by its suffix, and a rename in
front of the cursor must move it. Edits are uploads, deletions, favourites,
moves, pausing and the reshuffle of the settings, and a power cut. The heap
probes of a reconcile are `Rooms`: whether there is room to list the folder, how
many of the new files are taken in, and whether names may grow or be put in front.
A file leaves `/sleep` for `/sleep pause` by a rename, which a taken name refuses
always and the card at any time (counted among the edits).

* `LapShowsEach`: no picture comes back while another one waits for its turn.
  Whatever settles the order anew starts the count anew: new files, a power cut,
  and a file too many that could not be moved away (see below).
* `TrimsOldest`: the cap pushes out files only above it, never a favourite, and
  none while an older plain one stays whose name is free, unless the card fails a
  rename.
* `PausedKeeps`: a paused rotation shows the same picture while it exists.
* `EveryPictureReturns`: every picture that can be drawn comes up again and
  again once the folder is left alone.
* `TypeOK` carries two facts that no step states: the order never holds a name
  twice, and the cursor is always at the beginning of a name.

Met while proving: a file over the cap whose name is taken in `/sleep pause`
stays in `/sleep`, but the reconcile drops it from the entries along with those
that were moved ("Drop the moved entries", `WallpaperPlaylistV2.cpp:241-252`). A
favourite toggle of it is then not taken over into the order, its old name is
passed over as gone, and it comes in again behind the cursor: the others come
round once more before it. TLC found this on an instance with a larger folder
while we looked for the inductive invariant; `LapShowsEach` had claimed more than
the code does. No line of the repository promises the turn to that file.

Met while modelling: a *new* `x_F` put beside `x` takes the place of `x` in the
order and the two alternate; a reshuffle that gives up for lack of heap empties
the order in RAM, though the comment at `WallpaperPlaylistV2.cpp:585` leaves it
in place; more names in a row that are gone than `advance` skips hold the order
until the folder is edited; changing between the order and the direct walk over
the folder may repeat a picture; as many undrawable files in a row as there are
retries stall the direct walk (hence `RetriesAssumption` of the instance, for
`EveryPictureReturns`); a heap that is tight
at *every* sleep keeps a new upload out of the order.

Left out: pictures in the root folder, notices for the home screen, a copy that
fails in the menu, `x` and `x_F` put there together by hand; favourites are
recognised by the suffix; listings beyond the cap are any `Cap` of the files.

### RecentsSaving

`saveToFile` rotates `recent.json` on the main loop while the writer task
rotates it in a job of `saveToFileAsync`; callers of the second are
`ReaderSession.cpp:21` and `EpubReaderMenuActivity.cpp:153`. Each rotation is
that of `SafeFile` with no failures of its own. `SomeListLeft` is the weakest
reading of `RecentBooksStore.h:104` and does not hold: the two promote and
remove each other's temporary file until no name has a list.

### Not modelled

* **Web uploads** (`WsUploadSession`): nothing creates the WebSocket server
  (`CrossPointWebServer.cpp:318-328`); uploads come in by HTTP, one synchronous
  sequence in one task, as does everything else of the web server.
* **Parsing, hyphenation, fonts, images, archives, I18N, settings screens,
  OTA, the KOReader client**: data transformation, user interface, network I/O
  and vendored libraries. They are nearly all of the lines of the repository
  (fonts, expat, miniz, hyphenation tables), which is why the models stand for
  a small share of it.
* **Power lock and `requestUpdateAndWait`**, the pending route of the router, the
  debounce clock of the stores, trash, section page cache, deferred actions: see
  the plan.

## 3. Runs and bounds

| Run | Checks | Bounds | States |
|---|---|---|---|
| `safe_file` | TypeOK, FailedWriteRollsBack, BootKeepsAcked, UnsweptSurvivesTwo, ImplementsCell | 4 payloads, all four kinds of path, crashes unbounded | 75,638 |
| `safe_file_two_gaps` | EveryPathSurvivesTwo: **violated** | same | – |
| `safe_file_short_write` | TrueMeansWhole: **violated** | same | – |
| `async_writer` | TypeOK, NoLostWakeup, OnePlace, DrainSettles, ImplementsQueue, DrainReturns | 2 producers, ring of 4 (as in the code), 9 jobs | 86,779 |
| `epub_reader` | TypeOK, PipelineNewest, QuietClose | chapters of 1 and 2 pages, 1 saved footnote position, ring of 4, 3 keys or failures per opening, openings unbounded | 3,603,138 |
| `epub_reader_live` | CloseCompletes | chapters of 0 and 2 pages, 2 keys or failures | 712,096 |
| `epub_reader_close` | FinishedBookIsSaved: **violated** | chapters of 0 and 2 pages, 3 keys or failures | – |
| `epub_reader_redraw` | ResetIsRedrawn: **violated** | as `epub_reader_live` | – |
| `boot_recovery` | TypeOK, GuardHolds, ResumesAfterSleep, ReturnsToBook, BootSettles | 2 books, budget of 2 (as in the code), 3 panics, power cuts or failed writes, boots unbounded | 86,920 |
| `recents_saving` | SomeListLeft: **violated** | 2 saves after the first list, ring of 4 | – |
| `wallpaper_playlist` | TypeOK, LapShowsEach, TrimsOldest, PausedKeeps, EveryPictureReturns | 4 pictures, 1 undrawable, cap 3, 1 new file per reconcile, 2 names skipped, 2 retries, 2 edits, failed renames or power cuts, sleeps unbounded | 303,093 |
| `progress_files` | TypeOK, PlaceKept, ClosedKeepsPlace, SleepMirrors, StayingPageSaved | 3 positions, text beginning at the second, both formats, 2 faults, sessions unbounded | 1,481,052 |

Every gap or short write takes a payload of its own, so four payloads reach an
acknowledged write with three mishaps after it, one more than any property
speaks of. Nine jobs go more than twice round a ring of four and drop jobs with
the writer in every place. The two books of `EpubReader` begin with a title page
or with a cover that has no pages (an empty chapter), the text starts at the next
chapter (`getSpineIndexForTextReference`) and has a page turn in it; `MaxEvents`
counts page keys, skips, toggles, menu openings and failures since the book was
opened, while jumps made inside the menu are not counted. In `boot_recovery`
three faults are one in an opening, one in the boot that recovers from it and
one more; two books tell the newest one, the open one and the random one apart.
In `wallpaper_playlist` each limit is met: the fourth picture is one too many for
the folder, a deletion of two is one more than a reconcile takes in, and two
retries are one more than the undrawable picture. In `progress_files` the third
position tells the last place from the one before it and both from the start, and
the second fault hits what recovers from the first. In `recents_saving` two
changes of the list, one for each saver, are enough for their rotations to meet.
Deadlock is checked in all runs but that one, which stops when the reader has
made `MaxSaves` changes and both rotations are over.

**Fairness.** `AsyncWriter`: weak fairness of the writer and of a producer that
owes a notification or polls; all tasks have one priority and FreeRTOS
time-slices them. Nothing obliges a producer to submit or to drain, and
`DrainReturns` holds because submissions come to an end (`MaxJobs`): a task that
submits without pause can hold up another one's drain, in the code too.
`EpubReader`: weak fairness of the main loop, the render task and the writer as
wholes. The user's actions have none; a loop without input is a step of the main
loop, so the fairness is never met by waiting for a key. `BootRecovery`:
`setup()` and an activity that is being entered are straight-line code; the
render task answers the notification with which `onEnter` ends; `loop()` goes
home after an opening that was given up; `enterDeepSleep` does not come back. It
is *not* assumed that a page fits the heap: that the restarts end is the budget's
doing. `WallpaperPlaylist`: the way into a sleep runs on, the device wakes and
goes to sleep again. `ProgressFiles`: the reader's loop and the write it waits
for run on.

## 4. Proofs

`SafeFileProofs` proves, for every `MaxWrites` and every value of `Torn` that is
not a number (`TornAssumption`, `MaxWritesAssumption`), `TypeOK` and all the
properties of the run `safe_file`. `FailedWriteRollsBack` says nothing of the
moments between the renames, and the boot properties speak of one moment only,
so neither is inductive. `IInv` says what the disk looks like *during* a
rotation, in four parts: what the write in progress carries (`WriteInv`), the
disk without short writes (`IntactInv`), the state in which only `.tmp` is left
(`TmpInv`), and where the older payload is after one short write (`ShortInv`).
The refinement follows from `IInv` step by step: promotion acknowledges, a step
that adds to `gaps` or `torn` hurts the cell, handing in a payload is `Write`,
everything else stutters or drifts.

`AsyncWriterProofs` proves, for every set of producers, every capacity above 0
(`QueueAssumption`) and every number of jobs (`MaxJobsAssumption`), `TypeOK`,
`NoLostWakeup`, `OnePlace`, `DrainSettles` and the safety part of
`ImplementsQueue` (`Spec => Queue!Spec`). The key is `RingInv`: whatever was
dropped, the ring holds the last `count` jobs in a row, so that all the index
arithmetic is a window sliding over 1, 2, …; `SettledInv` and `WriterInv` tie the
jobs before the window and `busy` to the place of the writer.

`BootRecoveryProofs` proves, for every set of books, every restart budget and any
number of faults (`BooksAssumption`, `BudgetAssumption`, `FaultsAssumption`),
`TypeOK`, `GuardHolds`, `ResumesAfterSleep` and `ReturnsToBook`. Each property
speaks of the moment in which the boot decides, so the invariant follows what it
will find there backwards: `GuardInv` (an opening that came to nothing is counted
on the card, and in RAM once loaded), `SleepInv` from closing the reader over the
flush to the next decision, `ReturnInv` from the hook over the reset to it, and
for these `ListInv` (no rewrite waiting, so the file is the list) and `ReaderInv`
(the book of the entered reader is the open and the newest one, and reaches the
card with the next flush). That the load count stays below two rests on
`BookInv`: an opening is counted only with the guard down.

`ProgressFilesProofs` proves, for every set of positions, wherever the text begins
and for any number of faults (`PagesAssumption`, `FilesAssumption`,
`TextAssumption`, `FaultsAssumption`), `TypeOK`, `PlaceKept`, `ClosedKeepsPlace`
and `SleepMirrors`. `PlaceKept` is silent while
a clearing is under way, where part of the place is in RAM: `PlaceInv` says what
will be there when it ends (`Coming`), `ClearInv` that its halves fit together,
`TmpInv` that what is promoted is the job or an empty file, `WholeInv` that no
file is there without another being good. `ClosedKeepsPlace` joins the position
a close should leave to the file along the way `LeftInv` (it is the origin still
to be saved, or what the tracker has observed), `TrackInv`, `SavedInv`,
`PlaceInv`.

`EpubReaderProofs` proves `TypeOK`, `PipelineNewest` and `QuietClose` for every
book of 1 to 65535 chapters with any numbers of pages (`BookAssumption`; the
chapter count is a `uint16_t`), any depth of the footnote stack, any number of
keys and failures, and every ring of at least three jobs (`BoundAssumption`; the
code has four). Three is what it takes: the newest position can have a rewrite of
`recent.json` behind it twice, one from the main loop and one from the render
task on its way to a restart, and the next job may push out the oldest.
`PipelineNewest` does not say *where* in the ring the newest position stands, so
it is not inductive. `PipeInv` does: at most `Slack` jobs are behind it, all of
them `recent.json`. What each task holds from one of its steps to a later one
while the other runs is in `LocalInv`, `OriginInv`, `TrackInv`, `SpineInv` and
`SectionInv`; `ClosedInv` says who is gone when, and `QuietInv` follows a quiet
exit through save, join and drain to the closed book. `SpineInv` has no chapter
laid out or drawn that the book does not have, although `spine` itself may be -1
or past the end.

`WallpaperPlaylistProofs` proves `TypeOK`, `PausedKeeps` and `TrimsOldest` for
every set of pictures (`ImagesAssumption`), every first stock of files without
repetition (`StockAssumption`), every cap, limit of new files, skip budget and
number of retries above 0 (`LimitsAssumption`) and any undrawable pictures
(`CorruptAssumption`). That they are fewer than the retries is assumed in the
instance alone (`RetriesAssumption`); only the liveness of the direct walk needs
it. `OrderInv` holds the shape of the order: no name twice, and the byte
cursor at the beginning of one, through folding in, dropping, trimming, renaming
and reshuffling. `PickInv` says that a chosen file is there, `ScreenInv` that
`lastSleepWallpaperPath` finds the picture on the screen in the folder it is in
now, `FolderInv` and `FieldsInv` give the types. The lists of the model are
filtered by rank among the indices that stay (`Kept`), not by recursion, so that
their lemmas follow from facts about cardinalities and need no induction.

`WallpaperLapProofs` proves `LapShowsEach` under the same assumptions. `LapAt`
cuts the order in two at the cursor: none of the next `m` entries has been shown
in this lap, and of all the others every picture that can be drawn has been.
`LapInv` says so of the order in RAM and of the one on the card at once, as the
device may fall back from the one to the other at a reset; `DrawnInv` is the same
with a name chosen and not yet counted; `TwinInv` keeps `x` and `x_F` from
standing side by side, `KnownInv` has the order of a settled folder
know every file in it, unless the count has just begun anew, and `WakeInv` has
every wake begin with a folder to be read again.

So every safety property of the passing runs is a theorem. With TLC alone stay
the liveness properties (`DrainReturns`, the fairness in `ImplementsQueue`,
`CloseCompletes`, `BootSettles`, `EveryPictureReturns`, `StayingPageSaved`), since
the prover does neither fairness nor ENABLED, and the five violations, which are
counterexamples and have nothing to prove.

## 5. Plan

Done: `SafeFile` with `DurableCell`, `AsyncWriter` with `JobQueue`,
`BootRecovery`, `ProgressFiles`, `EpubReader` and `WallpaperPlaylist`, each with
its proofs; `RecentsSaving` with its run. Next, in this order:

1. **RenderTask**: render lock, power lock, `requestUpdateAndWait` with its
   semaphore, deletion of the task by another activity. Properties: no task is
   deleted while it holds a lock; a waiting request is answered.
2. **Router**: the one pending route, and what is flushed when a second request
   comes before the first is applied.
3. **Debounce**: the clock of `PersistentStore` in 32-bit milliseconds. Property:
   a store that keeps changing is written all the same.
4. **Trash**, **SectionPageCache**, **DeferredActions**.
5. A composition of `EpubReader`'s queue with the sink of `ProgressFiles`, in
   which a position is lost on the way and the tracker takes it for saved.

Further properties of `EpubReader`: the footnote stack after a link that leads
nowhere, and the header's promise about `pendingSectionReset`.
