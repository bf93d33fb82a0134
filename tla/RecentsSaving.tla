----------------------------- MODULE RecentsSaving -----------------------------
(***************************************************************************)
(* recent.json has two ways to the card: saveToFile() rotates the file on  *)
(* the main loop, saveToFileAsync() takes a snapshot and lets the writer   *)
(* task rotate it.  HalStorage locks one operation at a time, not a whole  *)
(* rotation (JsonSettingsIO.cpp, atomicWriteRotate), so the steps of two   *)
(* rotations of the same three names mix.  Operations do not fail here for *)
(* any other reason; module SafeFile has those failures.                   *)
(***************************************************************************)
EXTENDS Naturals, Sequences

CONSTANTS
    MaxSaves,   \* bound on the number of versions of the list
    kMaxQueue

Tasks == {"main", "writer"}
Names == {"real", "bak", "tmp", "tmp2"}
Absent == 0

VARIABLES
    file,       \* what each name holds: Absent, a version, or Torn
    version,    \* the version of RECENT_BOOKS in memory
    queue,      \* snapshots in the AsyncWriter
    pc,         \* the next step of each task's rotation
    payload,    \* the version it writes
    active,     \* activeTmp
    handle      \* the main loop's open file: "none", "own", or "gone" when
                \* the other task removed or renamed the file under it

vars == <<file, version, queue, pc, payload, active, handle>>

Torn == MaxSaves + 2
Exists(n) == file[n] # Absent

Init ==
    /\ file = [n \in Names |-> IF n = "real" THEN 1 ELSE Absent]
    /\ version = 1
    /\ queue = <<>>
    /\ pc = [t \in Tasks |-> "idle"]
    /\ payload = [t \in Tasks |-> 1]
    /\ active = [t \in Tasks |-> "tmp"]
    /\ handle = "none"

Goto(t, step) == pc' = [pc EXCEPT ![t] = step]

-----------------------------------------------------------------------------
(* The two savers                                                          *)

\* addBook, removeBook, setBoldSwap, pruneMissing: the list changes and is
\* written at once.
saveToFile ==
    /\ pc["main"] = "idle" /\ version < MaxSaves + 1
    /\ version' = version + 1
    /\ payload' = [payload EXCEPT !["main"] = version + 1]
    /\ Goto("main", "start")
    /\ UNCHANGED <<file, queue, active, handle>>

\* addBook with deferPersist, flushPercentIfDirty: a snapshot is queued.
saveToFileAsync ==
    /\ pc["main"] = "idle" /\ version < MaxSaves + 1 /\ Len(queue) < kMaxQueue
    /\ version' = version + 1
    /\ queue' = Append(queue, version + 1)
    /\ UNCHANGED <<file, pc, payload, active, handle>>

Pop ==
    /\ pc["writer"] = "idle" /\ queue # <<>>
    /\ payload' = [payload EXCEPT !["writer"] = Head(queue)]
    /\ queue' = Tail(queue)
    /\ Goto("writer", "start")
    /\ UNCHANGED <<file, version, active, handle>>

-----------------------------------------------------------------------------
(* One rotation                                                            *)

\* What the removal or renaming of a name does to the main loop's open file.
Under(n) == IF handle = "own" /\ n = active["main"] THEN "gone" ELSE handle

ProbeTmp(t) ==
    /\ pc[t] = "start"
    /\ active' = [active EXCEPT ![t] = "tmp"]
    /\ Goto(t, IF Exists("tmp") THEN "unlink" ELSE "fill")
    /\ UNCHANGED <<file, version, queue, payload, handle>>

\* A .tmp that cannot be removed, here because it is gone already.
RemoveTmp(t) ==
    /\ pc[t] = "unlink"
    /\ file' = [file EXCEPT !["tmp"] = Absent]
    /\ active' = IF Exists("tmp") THEN active ELSE [active EXCEPT ![t] = "tmp2"]
    /\ handle' = Under("tmp")
    /\ Goto(t, "fill")
    /\ UNCHANGED <<version, queue, payload>>

\* The writer's snapshot is written in one operation.
WriteFile ==
    /\ pc["writer"] = "fill"
    /\ file' = [file EXCEPT ![active["writer"]] = payload["writer"]]
    /\ handle' = Under(active["writer"])
    /\ Goto("writer", "unbak")
    /\ UNCHANGED <<version, queue, payload, active>>

\* The main loop streams: open, many writes, close.
OpenTmp ==
    /\ pc["main"] = "fill"
    /\ file' = [file EXCEPT ![active["main"]] = Torn]
    /\ handle' = "own"
    /\ Goto("main", "close")
    /\ UNCHANGED <<version, queue, payload, active>>

\* Closing a file whose directory entry was deleted, renamed or replaced writes
\* nothing: the mildest of the outcomes the card library may produce.
CloseTmp ==
    /\ pc["main"] = "close"
    /\ IF handle = "own"
         THEN file' = [file EXCEPT ![active["main"]] = payload["main"]]
         ELSE UNCHANGED file
    /\ handle' = "none"
    /\ Goto("main", "unbak")
    /\ UNCHANGED <<version, queue, payload, active>>

RemoveBak(t) ==
    /\ pc[t] = "unbak"
    /\ file' = [file EXCEPT !["bak"] = Absent]
    /\ Goto(t, "probe")
    /\ UNCHANGED <<version, queue, payload, active, handle>>

ProbeReal(t) ==
    /\ pc[t] = "probe"
    /\ Goto(t, IF Exists("real") THEN "rotate" ELSE "promote")
    /\ UNCHANGED <<file, version, queue, payload, active, handle>>

CanRename(from, to) == Exists(from) /\ ~ Exists(to)
Renamed(from, to) == [file EXCEPT ![from] = Absent, ![to] = file[from]]

\* A primary that cannot be rotated away: the new file is given up.
Rotate(t) ==
    /\ pc[t] = "rotate"
    /\ IF CanRename("real", "bak")
         THEN file' = Renamed("real", "bak") /\ Goto(t, "promote")
              /\ UNCHANGED handle
         ELSE file' = [file EXCEPT ![active[t]] = Absent] /\ Goto(t, "idle")
              /\ handle' = Under(active[t])
    /\ UNCHANGED <<version, queue, payload, active>>

Promote(t) ==
    /\ pc[t] = "promote"
    /\ IF CanRename(active[t], "real")
         THEN /\ file' = Renamed(active[t], "real")
              /\ handle' = Under(active[t])
              /\ Goto(t, "idle")
         ELSE /\ Goto(t, IF Exists("bak") THEN "undo" ELSE "idle")
              /\ UNCHANGED <<file, handle>>
    /\ UNCHANGED <<version, queue, payload, active>>

RemoveReal(t) ==
    /\ pc[t] = "undo"
    /\ file' = [file EXCEPT !["real"] = Absent]
    /\ Goto(t, "restore")
    /\ UNCHANGED <<version, queue, payload, active, handle>>

Restore(t) ==
    /\ pc[t] = "restore"
    /\ file' = IF CanRename("bak", "real") THEN Renamed("bak", "real") ELSE file
    /\ Goto(t, "idle")
    /\ UNCHANGED <<version, queue, payload, active, handle>>

RotationStep(t) ==
    \/ ProbeTmp(t) \/ RemoveTmp(t) \/ RemoveBak(t) \/ ProbeReal(t)
    \/ Rotate(t) \/ Promote(t) \/ RemoveReal(t) \/ Restore(t)

Next ==
    \/ saveToFile \/ saveToFileAsync \/ Pop
    \/ WriteFile \/ OpenTmp \/ CloseTmp
    \/ \E t \in Tasks : RotationStep(t)

Spec == Init /\ [][Next]_vars

-----------------------------------------------------------------------------
(* Properties.                                                             *)

\* persistAppState() finds the main loop here and the writer drained.
Drained == pc["main"] = "idle" /\ pc["writer"] = "idle" /\ queue = <<>>

\* safeDeserializeFile(): the first name whose content parses.
Whole(n) == Exists(n) /\ file[n] # Torn
Loaded ==
    CASE Whole("real") -> file["real"]
      [] ~Whole("real") /\ Whole("bak") -> file["bak"]
      [] ~Whole("real") /\ ~Whole("bak") /\ Whole("tmp") -> file["tmp"]
      [] OTHER -> Absent

\* RecentBooksStore.h:104-105 promises of a queued snapshot that the drains in
\* persistAppState() and deep sleep "guarantee queued writes hit disk before
\* power-down".  In its weakest reading: after a drain the card has some list.
SomeListLeft == Drained => Loaded # Absent

=============================================================================
