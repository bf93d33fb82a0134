------------------------------- MODULE SafeFile -------------------------------
(***************************************************************************)
(* One persisted JSON file and its rotation: safeWrite / safeWriteStreamed *)
(* and safeRead of src/persist/SdFatFileIO.cpp, their twins                *)
(* atomicWriteRotate / safeReadFile / safeDeserializeFile of               *)
(* src/JsonSettingsIO.cpp, and the boot sweep of main.cpp.                 *)
(*                                                                         *)
(* Every SD-card operation is a step of its own, so that a power loss can  *)
(* fall between any two of them, and every one may fail.  A payload is the *)
(* number of the write that produced it: 0 stands for "no payload", which  *)
(* is what the program's defaults are, and for a file that is not there.   *)
(***************************************************************************)
EXTENDS Naturals

CONSTANTS
    Torn,       \* a file that holds only part of a payload (not even one, if it was only opened)
    MaxWrites   \* bound on the number of payloads handed to safeWrite

ASSUME TornAssumption == Torn \notin Nat
ASSUME MaxWritesAssumption == MaxWrites \in Nat

VARIABLES
    swept,      \* is the path one of those setup() sweeps?            (never changes)
    parses,     \* is it read by safeDeserializeFile, tier by tier?    (never changes)
    disk,       \* the four directory entries of this path
    pc,         \* where the boot or the write in progress is
    active,     \* activeTmp: the temporary name this write uses
    mem,        \* the payload the program holds in memory
    ver,        \* number of payloads handed to safeWrite so far
    result,     \* what the last write returned since the last boot
    acked,      \* history: newest whole payload whose write returned true
    gaps,       \* history: rotations broken off since then without a primary
    torn,       \* history: short writes that went unnoticed since then
    alt         \* history: writes since then that had to use .tmp2

file == <<swept, parses>>
hist == <<acked, gaps, torn, alt>>
vars == <<file, disk, pc, active, mem, ver, result, hist>>

Names == {"real", "bak", "tmp", "tmp2"}
Content == Nat \cup {Torn}
WriteSteps == {"stale", "open", "fill", "bak", "rotate", "promote", "restore"}
Steps == WriteSteps \cup {"off", "load", "idle"}

Exists(n) == disk[n] # 0
Whole(c) == c \in Nat \ {0}

-----------------------------------------------------------------------------
(* Reading.                                                                *)

\* Does this tier end the search?  safeRead takes the first file that is not
\* empty; safeDeserializeFile goes on to the next tier until one parses.
Accepts(c) == IF parses THEN Whole(c) ELSE c # 0

\* What the caller ends up with: a torn file does not parse, so defaults stay.
Parsed(c) == IF Whole(c) THEN c ELSE 0

\* Slips to tell the properties apart: a reader that forgets the third tier,
\* and one that prefers the newest file.
ReadForgettingTmp(d) ==
    Parsed(IF Accepts(d["real"]) THEN d["real"] ELSE d["bak"])
ReadTmpFirst(d) ==
    Parsed(IF Accepts(d["tmp"]) THEN d["tmp"]
           ELSE IF Accepts(d["real"]) THEN d["real"]
           ELSE d["bak"])

\* real, then .bak, then .tmp; .tmp2 is never read.
Read(d) ==
    Parsed(IF Accepts(d["real"]) THEN d["real"]
           ELSE IF Accepts(d["bak"]) THEN d["bak"]
           ELSE d["tmp"])

\* What the next boot can count on: the sweep comes before the load.
Recoverable == Read(IF swept THEN [disk EXCEPT !["tmp"] = 0] ELSE disk)

-----------------------------------------------------------------------------
Init ==
    /\ swept \in BOOLEAN
    /\ parses \in BOOLEAN
    /\ disk = [n \in Names |-> 0]
    /\ pc = "off"
    /\ active = "tmp"
    /\ mem = 0
    /\ ver = 0
    /\ result = "none"
    /\ acked = 0
    /\ gaps = 0
    /\ torn = 0
    /\ alt = 0

\* sweepOrphanTmp on one name: removed (perhaps after truncating it, or by
\* renaming it to a junk name), left truncated, or left as it was.
Leftover(c) == IF c = 0 THEN {0} ELSE {0, Torn, c}

Sweep ==
    /\ pc = "off"
    /\ IF swept
         THEN \E t \in Leftover(disk["tmp"]), t2 \in Leftover(disk["tmp2"]) :
                disk' = [disk EXCEPT !["tmp"] = t, !["tmp2"] = t2]
         ELSE disk' = disk
    /\ pc' = "load"
    /\ UNCHANGED <<file, active, mem, ver, result, hist>>

Load ==
    /\ pc = "load"
    /\ mem' = Read(disk)
    /\ pc' = "idle"
    /\ UNCHANGED <<file, disk, active, ver, result, hist>>

-----------------------------------------------------------------------------
(* Writing.                                                                *)

\* A write that ends without success (it returned false, or power was lost)
\* leaves a gap when the primary is not whole in d, and the backup is not
\* either or was already up for removal in this write.
Gap(d) ==
    /\ ~ Whole(d["real"])
    /\ \/ ~ Whole(d["bak"])
       \/ pc \in {"rotate", "promote", "restore"}

Fail(d) ==
    /\ disk' = d
    /\ gaps' = IF Gap(d) THEN gaps + 1 ELSE gaps
    /\ result' = "failed"
    /\ pc' = "idle"
    /\ UNCHANGED <<file, active, mem, ver, acked, torn, alt>>

\* The program changes its data and calls safeWrite; ensureParentDirectory
\* may refuse before any file of this path is touched.
Begin ==
    /\ pc = "idle"
    /\ ver < MaxWrites
    /\ ver' = ver + 1
    /\ mem' = ver + 1
    /\ \/ pc' = "stale" /\ result' = "none"
       \/ pc' = "idle" /\ result' = "failed"
    /\ UNCHANGED <<file, disk, active, hist>>

\* A slip: the backup's name for the temporary file.
RemoveStaleTmpThenUseBak ==
    /\ pc = "stale"
    /\ active' = "bak"
    /\ pc' = "open"
    /\ UNCHANGED <<file, disk, mem, ver, result, hist>>

\* A stale .tmp that cannot be removed makes the write use .tmp2.
RemoveStaleTmp ==
    /\ pc = "stale"
    /\ \/ /\ disk' = [disk EXCEPT !["tmp"] = 0]
          /\ active' = "tmp"
          /\ alt' = alt
       \/ /\ Exists("tmp")
          /\ disk' = disk
          /\ active' = "tmp2"
          /\ alt' = alt + 1
    /\ pc' = "open"
    /\ UNCHANGED <<file, mem, ver, result, acked, gaps, torn>>

OpenTmp ==
    /\ pc = "open"
    /\ \/ /\ disk' = [disk EXCEPT ![active] = Torn]
          /\ pc' = "fill"
          /\ UNCHANGED <<file, active, mem, ver, result, hist>>
       \/ Fail(disk)

\* The payload reaches the temporary file whole; or short, with nobody looking
\* at the sink's return values; or the write is seen to fail, and the partial
\* file is removed or stays.
FillTmp ==
    /\ pc = "fill"
    /\ \/ /\ disk' = [disk EXCEPT ![active] = mem]
          /\ pc' = "bak"
          /\ UNCHANGED <<file, active, mem, ver, result, hist>>
       \/ /\ torn' = torn + 1
          /\ pc' = "bak"
          /\ UNCHANGED <<file, disk, active, mem, ver, result, acked, gaps, alt>>
       \/ \E c \in {0, Torn} : Fail([disk EXCEPT ![active] = c])

\* A .bak that cannot be removed is only logged.
RemoveBak ==
    /\ pc = "bak"
    /\ \/ disk' = [disk EXCEPT !["bak"] = 0]
       \/ Exists("bak") /\ disk' = disk
    /\ pc' = "rotate"
    /\ UNCHANGED <<file, active, mem, ver, result, hist>>

\* SdFat's rename refuses a target that exists, and may fail anyway.
Rename(from, to) ==
    /\ Exists(from)
    /\ ~ Exists(to)
    /\ disk' = [disk EXCEPT ![from] = 0, ![to] = disk[from]]

\* Slips: removing the primary instead of keeping it as the backup, and going
\* on to promote although the primary could not be rotated away.
RotateByRemoving ==
    /\ pc = "rotate"
    /\ disk' = [disk EXCEPT !["real"] = 0]
    /\ pc' = "promote"
    /\ UNCHANGED <<file, active, mem, ver, result, hist>>
RotateIgnoringFailure ==
    /\ pc = "rotate"
    /\ disk' = disk \/ Rename("real", "bak")
    /\ pc' = "promote"
    /\ UNCHANGED <<file, active, mem, ver, result, hist>>

Rotate ==
    /\ pc = "rotate"
    /\ \/ /\ IF Exists("real") THEN Rename("real", "bak") ELSE disk' = disk
          /\ pc' = "promote"
          /\ UNCHANGED <<file, active, mem, ver, result, hist>>
       \/ /\ Exists("real")
          /\ \E c \in {0, disk[active]} : Fail([disk EXCEPT ![active] = c])

\* On success safeWrite returns true, whatever the temporary file held.
Promote ==
    /\ pc = "promote"
    /\ Rename(active, "real")
    /\ IF Whole(disk[active])
         THEN acked' = mem /\ gaps' = 0 /\ torn' = 0 /\ alt' = 0
         ELSE UNCHANGED hist
    /\ result' = "ok"
    /\ pc' = "idle"
    /\ UNCHANGED <<file, active, mem, ver>>

PromoteFails ==
    /\ pc = "promote"
    /\ IF Exists("bak")
         THEN /\ pc' = "restore"
              /\ UNCHANGED <<file, disk, active, mem, ver, result, hist>>
         ELSE Fail(disk)

\* The backup goes back to the primary's name, or that fails as well.
Restore ==
    /\ pc = "restore"
    /\ \/ Fail([disk EXCEPT !["bak"] = 0, !["real"] = disk["bak"]])
       \/ Fail(disk)

\* Power loss, panic or watchdog reset at any point.
Crash ==
    /\ pc # "off"
    /\ gaps' = IF pc \in WriteSteps /\ Gap(disk) THEN gaps + 1 ELSE gaps
    /\ pc' = "off"
    /\ mem' = 0
    /\ result' = "none"
    /\ UNCHANGED <<file, disk, active, ver, acked, torn, alt>>

Next ==
    \/ Sweep \/ Load
    \/ Begin \/ RemoveStaleTmp \/ OpenTmp \/ FillTmp \/ RemoveBak
    \/ Rotate \/ Promote \/ PromoteFails \/ Restore
    \/ Crash

Spec == Init /\ [][Next]_vars

-----------------------------------------------------------------------------
(* Properties.                                                             *)

TypeOK ==
    /\ swept \in BOOLEAN
    /\ parses \in BOOLEAN
    /\ disk \in [Names -> Content]
    /\ pc \in Steps
    /\ active \in {"tmp", "tmp2"}
    /\ mem \in Nat
    /\ ver \in Nat
    /\ result \in {"none", "ok", "failed"}
    /\ acked \in Nat
    /\ gaps \in Nat
    /\ torn \in Nat
    /\ alt \in Nat

\* While no rotation has been broken off and no short write has gone unnoticed
\* since the last acknowledged write, the primary holds exactly that write
\* whenever no rotation is under way: a write that fails rolls back.
Sound == gaps = 0 /\ torn = 0

FailedWriteRollsBack ==
    Sound /\ pc \notin {"promote", "restore"} => disk["real"] = acked

\* One rotation broken off anywhere, by power loss or by a failing card, loses
\* nothing that was acknowledged; nor does one short write, for the files that
\* are read tier by tier.  (Load takes the program to the read payload.)
Survivable ==
    \/ gaps <= 1 /\ torn = 0
    \/ gaps = 0 /\ torn <= 1 /\ parses

BootKeepsAcked ==
    [][pc = "load" /\ pc' = "idle" /\ Survivable => mem' >= acked]_vars

\* The third tier: a path that setup() does not sweep also survives a second
\* broken rotation, from its .tmp, unless a stuck .tmp made a write use .tmp2.
TmpTierServes == gaps <= 2 /\ torn = 0 /\ alt = 0

UnsweptSurvivesTwo ==
    [][pc = "load" /\ pc' = "idle" /\ TmpTierServes /\ ~ swept
         => mem' >= acked]_vars

\* IFileIO.h:49 promises "crash-safe fallback: real -> .bak -> .tmp" of every
\* path; setup() removes the third tier of the swept ones before they are read.
EveryPathSurvivesTwo ==
    [][pc = "load" /\ pc' = "idle" /\ TmpTierServes => mem' >= acked]_vars

\* IFileIO.h:31 says of a producer that it "Returns true iff every write
\* succeeded", so that a write that returned true left its payload, whole, in
\* the primary.  PersistentStore's producer returns true whatever was written.
TrueMeansWhole == result = "ok" => disk["real"] = mem

\* Seen from above, the file is one durable cell.
Cell == INSTANCE DurableCell WITH
            stored <- Recoverable,
            latest <- ver,
            hurt <- ~ Sound

ImplementsCell == Cell!Spec

=============================================================================
