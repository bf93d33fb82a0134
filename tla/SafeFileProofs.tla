---------------------------- MODULE SafeFileProofs ----------------------------
(***************************************************************************)
(* The inductive invariant of SafeFile and the theorems it gives.          *)
(***************************************************************************)
EXTENDS SafeFile, TLAPS

Rotating == {"rotate", "promote", "restore"}
Filled == Rotating \cup {"bak"}
AtRest == {"off", "load", "idle", "stale"}

\* A write in progress carries the newest payload, and its temporary file is
\* that payload or a short write of it, counted in torn.
WriteInv ==
    /\ pc \in WriteSteps => mem = ver /\ ver >= 1
    /\ acked <= ver
    /\ \A n \in Names : disk[n] # Torn => disk[n] <= ver
    /\ pc \in Filled => disk[active] \in {mem, Torn}
    /\ pc \in Filled /\ torn = 0 => disk[active] = mem
    /\ pc = "fill" => disk[active] = Torn
    /\ pc \in WriteSteps \ {"stale"} /\ alt = 0 => active = "tmp"

\* Without a short write the primary is the acknowledged payload or missing,
\* and then the backup is the acknowledged payload or missing; both can only
\* be missing after a broken rotation, or while one may still break.
IntactInv ==
    torn = 0 =>
        /\ disk["real"] \in {0, acked}
        /\ disk["real"] = 0 => disk["bak"] \in {0, acked}
        /\ acked = 0 => disk["bak"] = 0
        /\ pc \in {"promote", "restore"} => disk["real"] = 0
        /\ gaps = 0 => IF pc \in {"promote", "restore"}
                         THEN disk["bak"] = acked
                         ELSE disk["real"] = acked
        /\ gaps <= 1 /\ disk["real"] = 0 /\ pc \notin Rotating
             => disk["bak"] = acked

\* After a second broken rotation the payload of the last write is still in
\* .tmp, until the next write removes it.
OnlyTmpLeft ==
    /\ torn = 0 /\ gaps = 2 /\ alt = 0 /\ ~ swept /\ pc \in AtRest
    /\ disk["real"] = 0 /\ disk["bak"] = 0 /\ acked # 0

TmpInv == OnlyTmpLeft => Whole(disk["tmp"]) /\ disk["tmp"] >= acked

\* One short write: the payload before it is in the primary until that write
\* rotates, and in the backup afterwards, until the next write rotates.
ShortInv ==
    torn = 1 /\ gaps = 0 =>
        /\ disk["real"] \in {0, acked, Torn}
        /\ pc \notin Rotating => acked \in {disk["real"], disk["bak"]}
        /\ disk["real"] = 0 => disk["bak"] \in {0, acked, Torn}
        /\ pc \in {"promote", "restore"} => disk["real"] = 0
        /\ pc \in {"bak", "rotate"} /\ disk[active] = Torn
             => disk["real"] = acked /\ (acked = 0 => disk["bak"] = 0)
        /\ pc \in {"promote", "restore"} /\ disk[active] = Torn
             => disk["bak"] = acked

IInv == TypeOK /\ WriteInv /\ IntactInv /\ TmpInv /\ ShortInv

-----------------------------------------------------------------------------
(* Type correctness.                                                       *)

\* Every step of the boot, of the rotation and of a crash keeps every
\* variable in its range, whatever the bound on the writes.
LEMMA TypeStep ==
    ASSUME TypeOK, [Next]_vars PROVE TypeOK'
<1> USE TornAssumption DEF TypeOK, Names, Content, Steps, WriteSteps, Whole, Gap, file, hist, Read, Parsed, Accepts
<1>1. CASE Sweep
  BY <1>1 DEF Sweep, Leftover
<1>2. CASE Load
  BY <1>2 DEF Load
<1>3. CASE Begin
  BY <1>3 DEF Begin
<1>4. CASE RemoveStaleTmp
  BY <1>4 DEF RemoveStaleTmp, Exists
<1>5. CASE OpenTmp
  BY <1>5 DEF OpenTmp, Fail
<1>6. CASE FillTmp
  BY <1>6 DEF FillTmp, Fail
<1>7. CASE RemoveBak
  BY <1>7 DEF RemoveBak, Exists
<1>8. CASE Rotate
  BY <1>8 DEF Rotate, Rename, Exists, Fail
<1>9. CASE Promote
  BY <1>9 DEF Promote, Rename, Exists
<1>10. CASE PromoteFails
  BY <1>10 DEF PromoteFails, Exists, Fail
<1>11. CASE Restore
  BY <1>11 DEF Restore, Fail
<1>12. CASE Crash
  BY <1>12 DEF Crash
<1>13. CASE UNCHANGED vars
  BY <1>13 DEF vars
<1> QED
  BY <1>1, <1>2, <1>3, <1>4, <1>5, <1>6, <1>7, <1>8, <1>9, <1>10, <1>11, <1>12, <1>13 DEF Next

\* TypeOK holds throughout.
THEOREM TypeCorrect == Spec => []TypeOK
<1>1. Init => TypeOK
  BY DEF Init, TypeOK, Names, Content, Steps, WriteSteps
<1> QED
  BY <1>1, TypeStep, PTL DEF Spec

-----------------------------------------------------------------------------
(* The inductive invariant, part by part.                                  *)

\* A write fills its temporary file with the newest payload or cuts it short.
LEMMA WriteStep ==
    ASSUME TypeOK, WriteInv, [Next]_vars PROVE WriteInv'
<1> USE TornAssumption DEF TypeOK, Names, Content, Steps, WriteSteps, Whole, Gap, file, hist, WriteInv, Filled, Rotating
<1>1. CASE Sweep
  BY <1>1 DEF Sweep, Leftover
<1>2. CASE Load
  BY <1>2 DEF Load
<1>3. CASE Begin
  BY <1>3 DEF Begin
<1>4. CASE RemoveStaleTmp
  BY <1>4 DEF RemoveStaleTmp, Exists
<1>5. CASE OpenTmp
  BY <1>5 DEF OpenTmp, Fail
<1>6. CASE FillTmp
  BY <1>6 DEF FillTmp, Fail
<1>7. CASE RemoveBak
  BY <1>7 DEF RemoveBak, Exists
<1>8. CASE Rotate
  BY <1>8 DEF Rotate, Rename, Exists, Fail
<1>9. CASE Promote
  BY <1>9 DEF Promote, Rename, Exists
<1>10. CASE PromoteFails
  BY <1>10 DEF PromoteFails, Exists, Fail
<1>11. CASE Restore
  BY <1>11 DEF Restore, Fail
<1>12. CASE Crash
  BY <1>12 DEF Crash
<1>13. CASE UNCHANGED vars
  BY <1>13 DEF vars
<1> QED
  BY <1>1, <1>2, <1>3, <1>4, <1>5, <1>6, <1>7, <1>8, <1>9, <1>10, <1>11, <1>12, <1>13 DEF Next

\* Without short writes, primary and backup go missing together only after
\* a broken rotation.
LEMMA IntactStep ==
    ASSUME TypeOK, WriteInv, IntactInv, [Next]_vars PROVE IntactInv'
<1> USE TornAssumption DEF TypeOK, Names, Content, Steps, WriteSteps, Whole, Gap, file, hist, WriteInv, IntactInv, Filled, Rotating
<1>1. CASE Sweep
  BY <1>1 DEF Sweep, Leftover
<1>2. CASE Load
  BY <1>2 DEF Load
<1>3. CASE Begin
  BY <1>3 DEF Begin
<1>4. CASE RemoveStaleTmp
  BY <1>4 DEF RemoveStaleTmp, Exists
<1>5. CASE OpenTmp
  BY <1>5 DEF OpenTmp, Fail
<1>6. CASE FillTmp
  BY <1>6 DEF FillTmp, Fail
<1>7. CASE RemoveBak
  BY <1>7 DEF RemoveBak, Exists
<1>8. CASE Rotate
  BY <1>8 DEF Rotate, Rename, Exists, Fail
<1>9. CASE Promote
  BY <1>9 DEF Promote, Rename, Exists
<1>10. CASE PromoteFails
  BY <1>10 DEF PromoteFails, Exists, Fail
<1>11. CASE Restore
  BY <1>11 DEF Restore, Fail
<1>12. CASE Crash
  BY <1>12 DEF Crash
<1>13. CASE UNCHANGED vars
  BY <1>13 DEF vars
<1> QED
  BY <1>1, <1>2, <1>3, <1>4, <1>5, <1>6, <1>7, <1>8, <1>9, <1>10, <1>11, <1>12, <1>13 DEF Next

\* What a second broken rotation leaves in .tmp stays until the next write.
LEMMA TmpStep ==
    ASSUME TypeOK, WriteInv, IntactInv, TmpInv, [Next]_vars PROVE TmpInv'
<1> USE TornAssumption DEF TypeOK, Names, Content, Steps, WriteSteps, Whole, Gap, file, hist, WriteInv, IntactInv, TmpInv, OnlyTmpLeft, AtRest, Filled, Rotating
<1>1. CASE Sweep
  BY <1>1 DEF Sweep, Leftover
<1>2. CASE Load
  BY <1>2 DEF Load
<1>3. CASE Begin
  BY <1>3 DEF Begin
<1>4. CASE RemoveStaleTmp
  BY <1>4 DEF RemoveStaleTmp, Exists
<1>5. CASE OpenTmp
  BY <1>5 DEF OpenTmp, Fail
<1>6. CASE FillTmp
  BY <1>6 DEF FillTmp, Fail
<1>7. CASE RemoveBak
  BY <1>7 DEF RemoveBak, Exists
<1>8. CASE Rotate
  BY <1>8 DEF Rotate, Rename, Exists, Fail
<1>9. CASE Promote
  BY <1>9 DEF Promote, Rename, Exists
<1>10. CASE PromoteFails
  BY <1>10 DEF PromoteFails, Exists, Fail
<1>11. CASE Restore
  BY <1>11 DEF Restore, Fail
<1>12. CASE Crash
  BY <1>12 DEF Crash
<1>13. CASE UNCHANGED vars
  BY <1>13 DEF vars
<1> QED
  BY <1>1, <1>2, <1>3, <1>4, <1>5, <1>6, <1>7, <1>8, <1>9, <1>10, <1>11, <1>12, <1>13 DEF Next

\* One short write leaves the payload before it in primary or backup.
LEMMA ShortStep ==
    ASSUME TypeOK, WriteInv, IntactInv, ShortInv, [Next]_vars PROVE ShortInv'
<1> USE TornAssumption DEF TypeOK, Names, Content, Steps, WriteSteps, Whole, Gap, file, hist, WriteInv, IntactInv, ShortInv, Filled, Rotating
<1>1. CASE Sweep
  BY <1>1 DEF Sweep, Leftover
<1>2. CASE Load
  BY <1>2 DEF Load
<1>3. CASE Begin
  BY <1>3 DEF Begin
<1>4. CASE RemoveStaleTmp
  BY <1>4 DEF RemoveStaleTmp, Exists
<1>5. CASE OpenTmp
  BY <1>5 DEF OpenTmp, Fail
<1>6. CASE FillTmp
  BY <1>6 DEF FillTmp, Fail
<1>7. CASE RemoveBak
  BY <1>7 DEF RemoveBak, Exists
<1>8. CASE Rotate
  <2>1. CASE Exists("real") /\ Rename("real", "bak") /\ pc' = "promote"
    BY <1>8, <2>1 DEF Rotate, Rename, Exists, Fail
  <2>2. CASE ~ Exists("real")
    BY <1>8, <2>2 DEF Rotate, Exists
  <2>3. CASE Exists("real") /\ \E c \in {0, disk[active]} : Fail([disk EXCEPT ![active] = c])
    BY <1>8, <2>3 DEF Rotate, Exists, Fail
  <2> QED
    BY <1>8, <2>1, <2>2, <2>3 DEF Rotate
<1>9. CASE Promote
  BY <1>9 DEF Promote, Rename, Exists
<1>10. CASE PromoteFails
  BY <1>10 DEF PromoteFails, Exists, Fail
<1>11. CASE Restore
  BY <1>11 DEF Restore, Fail
<1>12. CASE Crash
  BY <1>12 DEF Crash
<1>13. CASE UNCHANGED vars
  BY <1>13 DEF vars
<1> QED
  BY <1>1, <1>2, <1>3, <1>4, <1>5, <1>6, <1>7, <1>8, <1>9, <1>10, <1>11, <1>12, <1>13 DEF Next

-----------------------------------------------------------------------------
(* The properties.                                                         *)

\* The whole inductive invariant holds of every reachable state; each part
\* rests on itself and on the parts before it.
THEOREM Inductive == Spec => []IInv
<1>1. Init => IInv
  BY TornAssumption DEF Init, IInv, TypeOK, WriteInv, IntactInv, TmpInv, OnlyTmpLeft,
       ShortInv, Names, Content, Steps, WriteSteps, Filled, Rotating, Whole
<1>2. IInv /\ [Next]_vars => IInv'
  BY TypeStep, WriteStep, IntactStep, TmpStep, ShortStep DEF IInv
<1> QED
  BY <1>1, <1>2, PTL DEF Spec

\* A write that fails rolls back: with no rotation broken off and no write short
\* unnoticed since the newest acknowledged payload, the primary still holds it.
THEOREM RollBack == Spec => []FailedWriteRollsBack
<1>1. IInv => FailedWriteRollsBack
  BY DEF IInv, IntactInv, FailedWriteRollsBack, Sound
<1> QED
  BY <1>1, Inductive, PTL

\* Loading in a survivable state finds the acknowledged payload or a later one.
LEMMA LoadFinds ==
    ASSUME IInv, pc = "load", Survivable PROVE Read(disk) >= acked
<1> USE TornAssumption DEF IInv, TypeOK, Names, Content, Whole, Read, Parsed, Accepts,
      Rotating
<1>1. CASE gaps <= 1 /\ torn = 0
  BY <1>1 DEF IntactInv
<1>2. CASE gaps = 0 /\ torn = 1 /\ parses
  BY <1>2 DEF ShortInv
<1> QED
  BY <1>1, <1>2 DEF Survivable

\* One broken rotation, or one short write to a file read tier by tier, costs
\* no acknowledged write.
THEOREM KeepsAcked == Spec => BootKeepsAcked
<1>1. IInv /\ [Next]_vars
        => [pc = "load" /\ pc' = "idle" /\ Survivable => mem' >= acked]_vars
  <2> SUFFICES ASSUME IInv, Next, pc = "load", pc' = "idle", Survivable
               PROVE  mem' >= acked
    OBVIOUS
  <2>1. Load
    BY DEF Next, Sweep, Load, Begin, RemoveStaleTmp, OpenTmp, FillTmp, RemoveBak,
           Rotate, Promote, PromoteFails, Restore, Crash
  <2> QED
    BY <2>1, LoadFinds DEF Load
<1> QED
  BY <1>1, Inductive, PTL DEF Spec, BootKeepsAcked

\* A path that setup() does not sweep survives a second broken rotation.
THEOREM TwoGaps == Spec => UnsweptSurvivesTwo
<1>1. IInv /\ [Next]_vars
        => [pc = "load" /\ pc' = "idle" /\ TmpTierServes /\ ~ swept
              => mem' >= acked]_vars
  <2> SUFFICES ASSUME IInv, Next, pc = "load", pc' = "idle", TmpTierServes, ~ swept
               PROVE  mem' >= acked
    OBVIOUS
  <2>1. Load
    BY DEF Next, Sweep, Load, Begin, RemoveStaleTmp, OpenTmp, FillTmp, RemoveBak,
           Rotate, Promote, PromoteFails, Restore, Crash
  <2>2. Read(disk) >= acked
    BY TornAssumption DEF IInv, TypeOK, IntactInv, TmpInv, OnlyTmpLeft, AtRest,
       TmpTierServes, Names, Content, Whole, Read, Parsed, Accepts, Rotating
  <2> QED
    BY <2>1, <2>2 DEF Load
<1> QED
  BY <1>1, Inductive, PTL DEF Spec, UnsweptSurvivesTwo

-----------------------------------------------------------------------------
(* The rotation implements one durable cell.                               *)

\* What a boot can count on never runs ahead of the payloads handed in.
LEMMA RecoverableInRange == IInv => Recoverable \in 0..ver
  BY TornAssumption DEF IInv, TypeOK, WriteInv, Recoverable, Read, Parsed, Accepts, Whole,
     Names, Content

\* While nothing went wrong, a boot reads exactly the acknowledged payload.
LEMMA SoundReadsAcked == IInv /\ Sound /\ acked # 0 => Recoverable = acked
  BY TornAssumption DEF IInv, TypeOK, IntactInv, Sound, Recoverable, Read, Parsed, Accepts,
     Whole, Names, Content

\* A step that hurts the cell leaves what a boot would read as it was.
LEMMA HurtKeepsRecoverable ==
    ASSUME IInv, Next, Sound, ~ Sound' PROVE Recoverable' = Recoverable
<1> USE TornAssumption DEF IInv, TypeOK, Names, Content, Sound, file, hist, Whole, Gap
<1>1. CASE disk' = disk /\ swept' = swept /\ parses' = parses
  BY <1>1 DEF Recoverable, Read, Parsed, Accepts
<1>2. CASE FillTmp
  BY <1>1, <1>2 DEF FillTmp, Fail, WriteInv, Recoverable, Read, Parsed, Accepts
<1>3. CASE Rotate
  BY <1>3 DEF Rotate, Rename, Exists, Fail, IntactInv
<1>4. CASE Restore
  BY <1>1, <1>4 DEF Restore, Fail, IntactInv, Recoverable, Read, Parsed, Accepts
<1> QED
  BY <1>1, <1>2, <1>3, <1>4 DEF Next, Sweep, Load, Begin, RemoveStaleTmp, OpenTmp,
     RemoveBak, Promote, Rename, Exists, PromoteFails, Fail, Crash

\* Every step is a step of the cell or leaves it alone.
LEMMA CellStep ==
    ASSUME IInv, IInv', [Next]_vars PROVE [Cell!Next]_(Cell!vars)
<1> USE DEF Cell!Next, Cell!vars, Cell!Write, Cell!Acknowledge, Cell!Hurt, Cell!Drift
<1>1. CASE UNCHANGED vars
  BY <1>1 DEF vars, file, hist, Recoverable, Read, Parsed, Accepts, Whole, Sound
<1>2. CASE Begin
  BY <1>2 DEF Begin, file, hist, Recoverable, Read, Parsed, Accepts, Whole, Sound
<1>3. CASE Promote /\ Whole(disk[active])
  <2> USE TornAssumption DEF Promote, Rename, Exists, IInv, TypeOK, Names, Content, Whole
  <2>1. disk'["real"] = ver /\ ver \in Nat \ {0}
    BY <1>3 DEF WriteInv, Filled, Rotating, WriteSteps
  <2>2. Recoverable' = ver
    BY <2>1, <1>3 DEF Recoverable, Read, Parsed, Accepts, file
  <2>3. acked' = ver /\ ver' = ver /\ Sound'
    BY <1>3 DEF WriteInv, WriteSteps, Sound
  <2> QED
    BY <2>2, <2>3
<1>4. CASE Next /\ ~ Begin /\ ~ (Promote /\ Whole(disk[active]))
  <2>1. ver' = ver /\ acked' = acked /\ (Sound' => Sound)
    BY <1>4 DEF IInv, TypeOK, Next, Sweep, Load, RemoveStaleTmp, OpenTmp, FillTmp, RemoveBak,
       Rotate, Promote, PromoteFails, Restore, Crash, Fail, file, hist, Sound
  <2>2. CASE Sound /\ ~ Sound'
    BY <2>1, <2>2, <1>4, HurtKeepsRecoverable
  <2>3. CASE Sound /\ Sound' /\ acked # 0
    <3>1. Recoverable = acked
      BY <2>3, SoundReadsAcked
    <3>2. (IInv /\ Sound /\ acked # 0 => Recoverable = acked)'
      BY SoundReadsAcked, PTL
    <3> QED
      BY <2>1, <2>3, <3>1, <3>2
  <2>4. CASE ~ Sound \/ (Sound' /\ acked = 0)
    <3>1. (IInv => Recoverable \in 0..ver)'
      BY RecoverableInRange, PTL
    <3> QED
      BY <2>1, <2>4, <3>1
  <2> QED
    BY <2>2, <2>3, <2>4
<1> QED
  BY <1>1, <1>2, <1>3, <1>4

\* The file, seen through what a boot would read, is a durable cell.
THEOREM Refinement == Spec => ImplementsCell
<1>1. Init => Cell!Init
  BY DEF Init, Cell!Init, Recoverable, Read, Parsed, Accepts, Whole, Names, Sound
<1> QED
  BY <1>1, Inductive, CellStep, PTL DEF Spec, ImplementsCell, Cell!Spec

===============================================================================
