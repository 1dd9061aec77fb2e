--------------------------- MODULE FileLockProofs ---------------------------
(***************************************************************************)
(* Proofs about platform/coordination/filelock for any number of callers,  *)
(* records, crashes and host crashes, failing system calls included.       *)
(***************************************************************************)
EXTENDS FileLock, TLAPS

-----------------------------------------------------------------------------
\* The initial state of a directory without files for the subject is well
\* typed.
LEMMA TypeInit == Init => TypeOK /\ TombFull
<1> SUFFICES ASSUME Init PROVE TypeOK /\ TombFull
  OBVIOUS
<1>1. suspected \in BOOLEAN
  BY Zenon DEF Init
<1>2. fenceDisk \in SUBSET Nat
  BY DEF Init
<1> QED
  BY <1>1, <1>2, FileLockAssumption
     DEF FileLockAssumption, Init, TypeOK, PCs, TombFull

\* Every step of Acquire, of a release, of a reclaim, of the clock and of a
\* crash keeps the types.
LEMMA TypeNext == TypeOK /\ TombFull /\ [Next]_vars => (TypeOK /\ TombFull)'
<1> SUFFICES ASSUME TypeOK, TombFull, [Next]_vars PROVE (TypeOK /\ TombFull)'
  OBVIOUS
<1> USE FileLockAssumption
    DEF FileLockAssumption, TypeOK, TombFull, PCs, Goto, local, disk, history
<1>1. ASSUME NEW p \in Procs, Acquire(p) PROVE (TypeOK /\ TombFull)'
  BY <1>1 DEF Acquire
<1>2. ASSUME NEW p \in Procs, ClaimStage(p) PROVE (TypeOK /\ TombFull)'
  BY <1>2 DEF ClaimStage
<1>3. ASSUME NEW p \in Procs, ClaimLink(p) PROVE (TypeOK /\ TombFull)'
  BY <1>3 DEF ClaimLink, SetLock
<1>4. ASSUME NEW p \in Procs, ClaimSync(p) PROVE (TypeOK /\ TombFull)'
  BY <1>4 DEF ClaimSync, FsyncDir
<1>5. ASSUME NEW p \in Procs, FenceRead(p) PROVE (TypeOK /\ TombFull)'
  BY <1>5 DEF FenceRead
<1>6. ASSUME NEW p \in Procs, FenceWrite(p) PROVE (TypeOK /\ TombFull)'
  <2>1. fence' \in Nat /\ fenceDisk' \in SUBSET Nat
    <3>1. seen[p] + 1 \in Nat
      OBVIOUS
    <3> QED
      BY <1>6, <3>1 DEF FenceWrite
  <2>2. pc' \in [Procs -> PCs] /\ TombFull'
    BY <1>6 DEF FenceWrite
  <2> QED
    BY <1>6, <2>1, <2>2 DEF FenceWrite
<1>7. ASSUME NEW p \in Procs, FenceCommit(p) PROVE (TypeOK /\ TombFull)'
  <2>1. top' \in Nat
    BY <1>7 DEF FenceCommit, Higher
  <2>2. lockDisk' \in SUBSET (Recs \cup {None}) /\ fenceDisk' \in SUBSET Nat
    BY <1>7 DEF FenceCommit, FsyncDir
  <2>3. pc' \in [Procs -> PCs] /\ TombFull'
    BY <1>7 DEF FenceCommit
  <2> QED
    BY <1>7, <2>1, <2>2, <2>3 DEF FenceCommit
<1>8. ASSUME NEW p \in Procs, Release(p) PROVE (TypeOK /\ TombFull)'
  BY <1>8 DEF Release
<1>9. ASSUME NEW p \in Procs, ReleaseCheck(p) PROVE (TypeOK /\ TombFull)'
  BY <1>9 DEF ReleaseCheck
<1>10. ASSUME NEW p \in Procs, ReleaseRemove(p) PROVE (TypeOK /\ TombFull)'
  BY <1>10 DEF ReleaseRemove, SetLock
<1>11. ASSUME NEW p \in Procs, ReclaimRead(p) PROVE (TypeOK /\ TombFull)'
  BY <1>11 DEF ReclaimRead
<1>12. ASSUME NEW p \in Procs, ReclaimJudge(p) PROVE (TypeOK /\ TombFull)'
  <2>1. suspected' \in BOOLEAN
    BY <1>12, Zenon DEF ReclaimJudge
  <2>2. pc' \in [Procs -> PCs] /\ TombFull'
    BY <1>12 DEF ReclaimJudge
  <2> QED
    BY <1>12, <2>1, <2>2 DEF ReclaimJudge
<1>13. ASSUME NEW p \in Procs, TakeAsideRename(p) PROVE (TypeOK /\ TombFull)'
  BY <1>13 DEF TakeAsideRename, SetLock
<1>14. ASSUME NEW p \in Procs, TakeAsideCheck(p) PROVE (TypeOK /\ TombFull)'
  BY <1>14 DEF TakeAsideCheck, LeaveTomb
<1>15. ASSUME NEW p \in Procs, TakeAsideRestore(p) PROVE (TypeOK /\ TombFull)'
  BY <1>15 DEF TakeAsideRestore, LeaveTomb, SetLock
<1>16. ASSUME NEW p \in Procs, Poll(p) PROVE (TypeOK /\ TombFull)'
  BY <1>16 DEF Poll
<1>17. ASSUME NEW p \in Procs, Crash(p) PROVE (TypeOK /\ TombFull)'
  BY <1>17 DEF Crash
<1>18. ASSUME NEW r \in Recs, Age(r) PROVE (TypeOK /\ TombFull)'
  BY <1>18 DEF Age
<1>19. CASE HostCrash
  BY <1>19 DEF HostCrash
<1>20. CASE ClearLock
  BY <1>20 DEF ClearLock, SetLock
<1>21. CASE ClearEvidence
  BY <1>21 DEF ClearEvidence
<1>22. CASE UNCHANGED vars
  BY <1>22 DEF vars
<1> QED
  BY <1>1, <1>2, <1>3, <1>4, <1>5, <1>6, <1>7, <1>8, <1>9, <1>10, <1>11, <1>12,
     <1>13, <1>14, <1>15, <1>16, <1>17, <1>18, <1>19, <1>20, <1>21, <1>22
     DEF Next, Step

-----------------------------------------------------------------------------
\* The invariant holds before the first Acquire.
LEMMA SoundInit == Init => Sound
  BY DEF Init, Sound, NoReclaimer, Held, Staged, Counter, Advancing, Occupies

\* With the invariant at most one caller is between its link and the end of
\* its release.
LEMMA OneOccupant ==
  ASSUME Held, Distinct, NEW p \in Procs, NEW q \in Procs, Occupies(p), Occupies(q)
  PROVE  p = q
  BY DEF Held, Distinct

\* Every step keeps the invariant: the link publishes only over a free name,
\* a release removes only its own record, the counter is advanced by the one
\* occupant, and a crash image of the counter covers every fence given out.
LEMMA SoundNext == IInv /\ [Next]_vars => Sound'
<1> SUFFICES ASSUME TypeOK, Sound, Distinct, [Next]_vars, ~suspected' PROVE
      (NoReclaimer /\ Held /\ Staged /\ Distinct /\ Counter /\ Advancing)'
  BY DEF IInv, Sound, Kept
<1> DEFINE Good == NoReclaimer /\ Held /\ Staged /\ Distinct /\ Counter /\ Advancing
<1>0. ~suspected /\ Good
  <2>1. ~suspected
    BY Zenon
      DEF Next, Step, vars, history, local, disk, Acquire, ClaimStage,
          ClaimLink, ClaimSync, FenceRead, FenceWrite, FenceCommit, Release,
          ReleaseCheck, ReleaseRemove, ReclaimRead, ReclaimJudge,
          TakeAsideRename, TakeAsideCheck, TakeAsideRestore, Poll, Crash, Age,
          HostCrash, ClearLock, ClearEvidence
  <2> QED
    BY <2>1 DEF Sound
<1> USE <1>0 DEF Occupies, Goto, local, disk, history
<1>1. ASSUME NEW p \in Procs, Acquire(p) PROVE Good'
  BY <1>1
    DEF Acquire, TypeOK, NoReclaimer, Held, Staged, Distinct, Counter, Advancing
<1>2. ASSUME NEW p \in Procs, ClaimStage(p) PROVE Good'
  <2>1. Distinct'
    BY <1>2 DEF ClaimStage, Unused, TypeOK, Distinct
  <2>2. Staged'
    BY <1>2, FileLockAssumption
       DEF FileLockAssumption, ClaimStage, Unused, TypeOK, Staged
  <2>3. Held'
    BY <1>2 DEF ClaimStage, TypeOK, Held
  <2>4. (NoReclaimer /\ Counter /\ Advancing)'
    BY <1>2 DEF ClaimStage, TypeOK, NoReclaimer, Counter, Advancing
  <2> QED
    BY <2>1, <2>2, <2>3, <2>4
<1>3. ASSUME NEW p \in Procs, ClaimLink(p) PROVE Good'
  BY <1>3
    DEF ClaimLink, SetLock, TypeOK, NoReclaimer, Held, Staged, Distinct,
        Counter, Advancing
<1>4. ASSUME NEW p \in Procs, ClaimSync(p) PROVE Good'
  BY <1>4
    DEF ClaimSync, FsyncDir, TypeOK, NoReclaimer, Held, Staged, Distinct,
        Counter, Advancing
<1>5. ASSUME NEW p \in Procs, FenceRead(p) PROVE Good'
  BY <1>5
    DEF FenceRead, TypeOK, NoReclaimer, Held, Staged, Distinct, Counter,
        Advancing
<1>6. ASSUME NEW p \in Procs, FenceWrite(p) PROVE Good'
  <2>1. ASSUME NEW q \in Procs, Occupies(q) PROVE q = p
    BY <1>6, <2>1, OneOccupant DEF FenceWrite
  <2>2. Counter'
    <3>1. CASE fence' = seen[p] + 1 /\ fenceDisk' = fenceDisk \cup {seen[p] + 1}
      <4>1. seen[p] = fence /\ fence \in Nat /\ top \in Nat /\ fence >= top
        BY <1>6 DEF FenceWrite, TypeOK, Counter, Advancing
      <4>2. top' = top
        BY <1>6 DEF FenceWrite
      <4>3. seen[p] + 1 >= top
        BY <4>1
      <4> QED
        BY <3>1, <4>2, <4>3 DEF Counter
    <3>2. CASE UNCHANGED <<fence, fenceDisk>>
      BY <1>6, <3>2 DEF FenceWrite, Counter
    <3> QED
      BY <1>6, <3>1, <3>2 DEF FenceWrite
  <2>3. Advancing'
    BY <1>6, <2>1 DEF FenceWrite, TypeOK, Counter, Advancing
  <2>4. (NoReclaimer /\ Held /\ Staged /\ Distinct)'
    BY <1>6 DEF FenceWrite, TypeOK, NoReclaimer, Held, Staged, Distinct
  <2> QED
    BY <2>2, <2>3, <2>4
<1>7. ASSUME NEW p \in Procs, FenceCommit(p) PROVE Good'
  <2>1. ASSUME NEW q \in Procs, Occupies(q) PROVE q = p
    BY <1>7, <2>1, OneOccupant DEF FenceCommit
  <2>2. Counter'
    <3>1. CASE FsyncDir /\ top' = Higher(top, seen[p] + 1)
      <4>1. top' = fence /\ fence \in Nat
        BY <1>7, <3>1 DEF FenceCommit, Higher, TypeOK, Advancing
      <4>2. fence' = fence /\ fenceDisk' = {fence}
        BY <1>7, <3>1 DEF FenceCommit, FsyncDir
      <4> QED
        BY <4>1, <4>2 DEF Counter
    <3>2. CASE UNCHANGED <<lockDisk, fenceDisk, top>>
      BY <1>7, <3>2 DEF FenceCommit, Counter
    <3> QED
      BY <1>7, <3>1, <3>2 DEF FenceCommit
  <2>3. Advancing'
    BY <1>7, <2>1 DEF FenceCommit, TypeOK, Advancing
  <2>4. (NoReclaimer /\ Held /\ Staged /\ Distinct)'
    BY <1>7 DEF FenceCommit, TypeOK, NoReclaimer, Held, Staged, Distinct
  <2> QED
    BY <2>2, <2>3, <2>4
<1>8. ASSUME NEW p \in Procs, Release(p) PROVE Good'
  BY <1>8
    DEF Release, TypeOK, NoReclaimer, Held, Staged, Distinct, Counter, Advancing
<1>9. ASSUME NEW p \in Procs, ReleaseCheck(p) PROVE Good'
  BY <1>9
    DEF ReleaseCheck, TypeOK, NoReclaimer, Held, Staged, Distinct, Counter,
        Advancing
<1>10. ASSUME NEW p \in Procs, ReleaseRemove(p) PROVE Good'
  BY <1>10
    DEF ReleaseRemove, SetLock, TypeOK, NoReclaimer, Held, Staged, Distinct,
        Counter, Advancing
<1>11. ASSUME NEW p \in Procs, ReclaimRead(p) PROVE Good'
  BY <1>11
    DEF ReclaimRead, TypeOK, NoReclaimer, Held, Staged, Distinct, Counter,
        Advancing
<1>12. ASSUME NEW p \in Procs, ReclaimJudge(p) PROVE Good'
  BY <1>12
    DEF ReclaimJudge, TypeOK, NoReclaimer, Held, Staged, Distinct, Counter,
        Advancing
<1>13. ASSUME NEW p \in Procs, TakeAsideRename(p) PROVE Good'
  BY <1>13
    DEF TakeAsideRename, TypeOK, NoReclaimer, Held, Staged, Distinct, Counter,
        Advancing
<1>14. ASSUME NEW p \in Procs, TakeAsideCheck(p) PROVE Good'
  BY <1>14
    DEF TakeAsideCheck, TypeOK, NoReclaimer, Held, Staged, Distinct, Counter,
        Advancing
<1>15. ASSUME NEW p \in Procs, TakeAsideRestore(p) PROVE Good'
  BY <1>15
    DEF TakeAsideRestore, TypeOK, NoReclaimer, Held, Staged, Distinct, Counter,
        Advancing
<1>16. ASSUME NEW p \in Procs, Poll(p) PROVE Good'
  BY <1>16 DEF Poll, TypeOK, NoReclaimer, Held, Staged, Distinct, Counter, Advancing
<1>17. ASSUME NEW p \in Procs, Crash(p) PROVE Good'
  BY <1>17
    DEF Crash, TypeOK, NoReclaimer, Held, Staged, Distinct, Counter, Advancing
<1>18. ASSUME NEW r \in Recs, Age(r) PROVE Good'
  BY <1>18 DEF Age, NoReclaimer, Held, Staged, Distinct, Counter, Advancing
<1>19. CASE HostCrash
  BY <1>19
    DEF HostCrash, TypeOK, NoReclaimer, Held, Staged, Distinct, Counter,
        Advancing
<1>20. CASE ClearLock
  BY <1>20
    DEF ClearLock, SetLock, NoReclaimer, Held, Staged, Distinct, Counter,
        Advancing
<1>21. CASE ClearEvidence
  BY <1>21
    DEF ClearEvidence, NoReclaimer, Held, Staged, Distinct, Counter, Advancing
<1>22. CASE UNCHANGED vars
  BY <1>22 DEF vars, NoReclaimer, Held, Staged, Distinct, Counter, Advancing
<1> QED
  BY <1>1, <1>2, <1>3, <1>4, <1>5, <1>6, <1>7, <1>8, <1>9, <1>10, <1>11, <1>12,
     <1>13, <1>14, <1>15, <1>16, <1>17, <1>18, <1>19, <1>20, <1>21, <1>22
     DEF Next, Step

-----------------------------------------------------------------------------
\* Before the first Acquire nobody has a record.
LEMMA KeptInit == Init => Kept
  BY DEF Init, Kept, Distinct, Owning, TombEmpty, Pursued, Occupies

\* Every step keeps every occupant's record accounted for: a record identity
\* is reused only when nobody refers to it, a release removes its own record
\* or notes a foreign one, and a reclaim deletes only a record it judged.
LEMMA KeptNext == TypeOK /\ TombFull /\ Kept /\ [Next]_vars => Kept'
<1> SUFFICES ASSUME TypeOK, TombFull, Kept, [Next]_vars PROVE Kept'
  OBVIOUS
<1> USE DEF Goto, local, disk, history
<1>1. ASSUME NEW p \in Procs, Acquire(p) PROVE Kept'
  <2>1. (Distinct /\ Owning)'
    BY <1>1, FileLockAssumption
      DEF FileLockAssumption, Acquire, TypeOK, Kept, Distinct, Owning, Occupies
  <2>2. (TombEmpty /\ Pursued)'
    BY <1>1 DEF Acquire, TypeOK, Kept, TombEmpty, Pursued
  <2>3. ASSUME NEW q \in Procs, Occupies(q)' PROVE Accounted(q)'
    BY <1>1, <2>3
      DEF Acquire, TypeOK, TombFull, Kept, Distinct, Owning, TombEmpty, Pursued,
          Accounted, Occupies
  <2> QED
    BY <2>1, <2>2, <2>3 DEF Kept
<1>2. ASSUME NEW p \in Procs, ClaimStage(p) PROVE Kept'
  <2>1. (Distinct /\ Owning)'
    BY <1>2, FileLockAssumption
      DEF FileLockAssumption, ClaimStage, Unused, TypeOK, Kept, Distinct,
          Owning, Occupies
  <2>2. (TombEmpty /\ Pursued)'
    BY <1>2 DEF ClaimStage, Unused, TypeOK, Kept, TombEmpty, Pursued
  <2>3. ASSUME NEW q \in Procs, Occupies(q)' PROVE Accounted(q)'
    BY <1>2, <2>3
      DEF ClaimStage, Unused, TypeOK, TombFull, Kept, Distinct, Owning,
          TombEmpty, Pursued, Accounted, Occupies
  <2> QED
    BY <2>1, <2>2, <2>3 DEF Kept
<1>3. ASSUME NEW p \in Procs, ClaimLink(p) PROVE Kept'
  <2>1. (Distinct /\ Owning)'
    BY <1>3, FileLockAssumption
      DEF FileLockAssumption, ClaimLink, SetLock, TypeOK, Kept, Distinct,
          Owning, Occupies
  <2>2. (TombEmpty /\ Pursued)'
    BY <1>3 DEF ClaimLink, SetLock, TypeOK, Kept, TombEmpty, Pursued
  <2>3. ASSUME NEW q \in Procs, Occupies(q)' PROVE Accounted(q)'
    BY <1>3, <2>3
      DEF ClaimLink, SetLock, TypeOK, TombFull, Kept, Distinct, Owning,
          TombEmpty, Pursued, Accounted, Occupies
  <2> QED
    BY <2>1, <2>2, <2>3 DEF Kept
<1>4. ASSUME NEW p \in Procs, ClaimSync(p) PROVE Kept'
  <2>1. (Distinct /\ Owning)'
    BY <1>4, FileLockAssumption
      DEF FileLockAssumption, ClaimSync, FsyncDir, TypeOK, Kept, Distinct,
          Owning, Occupies
  <2>2. (TombEmpty /\ Pursued)'
    BY <1>4 DEF ClaimSync, FsyncDir, TypeOK, Kept, TombEmpty, Pursued
  <2>3. ASSUME NEW q \in Procs, Occupies(q)' PROVE Accounted(q)'
    BY <1>4, <2>3
      DEF ClaimSync, FsyncDir, TypeOK, TombFull, Kept, Distinct, Owning,
          TombEmpty, Pursued, Accounted, Occupies
  <2> QED
    BY <2>1, <2>2, <2>3 DEF Kept
<1>5. ASSUME NEW p \in Procs, FenceRead(p) PROVE Kept'
  <2>1. (Distinct /\ Owning)'
    BY <1>5, FileLockAssumption
      DEF FileLockAssumption, FenceRead, TypeOK, Kept, Distinct, Owning,
          Occupies
  <2>2. (TombEmpty /\ Pursued)'
    BY <1>5 DEF FenceRead, TypeOK, Kept, TombEmpty, Pursued
  <2>3. ASSUME NEW q \in Procs, Occupies(q)' PROVE Accounted(q)'
    BY <1>5, <2>3
      DEF FenceRead, TypeOK, TombFull, Kept, Distinct, Owning, TombEmpty,
          Pursued, Accounted, Occupies
  <2> QED
    BY <2>1, <2>2, <2>3 DEF Kept
<1>6. ASSUME NEW p \in Procs, FenceWrite(p) PROVE Kept'
  <2>1. (Distinct /\ Owning)'
    BY <1>6, FileLockAssumption
      DEF FileLockAssumption, FenceWrite, TypeOK, Kept, Distinct, Owning,
          Occupies
  <2>2. (TombEmpty /\ Pursued)'
    BY <1>6 DEF FenceWrite, TypeOK, Kept, TombEmpty, Pursued
  <2>3. ASSUME NEW q \in Procs, Occupies(q)' PROVE Accounted(q)'
    BY <1>6, <2>3
      DEF FenceWrite, TypeOK, TombFull, Kept, Distinct, Owning, TombEmpty,
          Pursued, Accounted, Occupies
  <2> QED
    BY <2>1, <2>2, <2>3 DEF Kept
<1>7. ASSUME NEW p \in Procs, FenceCommit(p) PROVE Kept'
  <2>1. (Distinct /\ Owning)'
    BY <1>7, FileLockAssumption
      DEF FileLockAssumption, FenceCommit, FsyncDir, TypeOK, Kept, Distinct,
          Owning, Occupies
  <2>2. (TombEmpty /\ Pursued)'
    BY <1>7 DEF FenceCommit, FsyncDir, TypeOK, Kept, TombEmpty, Pursued
  <2>3. ASSUME NEW q \in Procs, Occupies(q)' PROVE Accounted(q)'
    BY <1>7, <2>3
      DEF FenceCommit, FsyncDir, TypeOK, TombFull, Kept, Distinct, Owning,
          TombEmpty, Pursued, Accounted, Occupies
  <2> QED
    BY <2>1, <2>2, <2>3 DEF Kept
<1>8. ASSUME NEW p \in Procs, Release(p) PROVE Kept'
  <2>1. (Distinct /\ Owning)'
    BY <1>8, FileLockAssumption
      DEF FileLockAssumption, Release, TypeOK, Kept, Distinct, Owning, Occupies
  <2>2. (TombEmpty /\ Pursued)'
    BY <1>8 DEF Release, TypeOK, Kept, TombEmpty, Pursued
  <2>3. ASSUME NEW q \in Procs, Occupies(q)' PROVE Accounted(q)'
    BY <1>8, <2>3
      DEF Release, TypeOK, TombFull, Kept, Distinct, Owning, TombEmpty, Pursued,
          Accounted, Occupies
  <2> QED
    BY <2>1, <2>2, <2>3 DEF Kept
<1>9. ASSUME NEW p \in Procs, ReleaseCheck(p) PROVE Kept'
  <2>1. (Distinct /\ Owning)'
    BY <1>9, FileLockAssumption
      DEF FileLockAssumption, ReleaseCheck, TypeOK, Kept, Distinct, Owning,
          Occupies
  <2>2. (TombEmpty /\ Pursued)'
    BY <1>9 DEF ReleaseCheck, TypeOK, Kept, TombEmpty, Pursued
  <2>3. ASSUME NEW q \in Procs, Occupies(q)' PROVE Accounted(q)'
    BY <1>9, <2>3
      DEF ReleaseCheck, TypeOK, TombFull, Kept, Distinct, Owning, TombEmpty,
          Pursued, Accounted, Occupies
  <2> QED
    BY <2>1, <2>2, <2>3 DEF Kept
<1>10. ASSUME NEW p \in Procs, ReleaseRemove(p) PROVE Kept'
  <2>1. (Distinct /\ Owning)'
    BY <1>10, FileLockAssumption
      DEF FileLockAssumption, ReleaseRemove, SetLock, TypeOK, Kept, Distinct,
          Owning, Occupies
  <2>2. (TombEmpty /\ Pursued)'
    BY <1>10 DEF ReleaseRemove, SetLock, TypeOK, Kept, TombEmpty, Pursued
  <2>3. ASSUME NEW q \in Procs, Occupies(q)' PROVE Accounted(q)'
    BY <1>10, <2>3
      DEF ReleaseRemove, SetLock, TypeOK, TombFull, Kept, Distinct, Owning,
          TombEmpty, Pursued, Accounted, Occupies
  <2> QED
    BY <2>1, <2>2, <2>3 DEF Kept
<1>11. ASSUME NEW p \in Procs, ReclaimRead(p) PROVE Kept'
  <2>1. (Distinct /\ Owning)'
    BY <1>11, FileLockAssumption
      DEF FileLockAssumption, ReclaimRead, TypeOK, Kept, Distinct, Owning,
          Occupies
  <2>2. (TombEmpty /\ Pursued)'
    BY <1>11 DEF ReclaimRead, TypeOK, Kept, TombEmpty, Pursued
  <2>3. ASSUME NEW q \in Procs, Occupies(q)' PROVE Accounted(q)'
    BY <1>11, <2>3
      DEF ReclaimRead, TypeOK, TombFull, Kept, Distinct, Owning, TombEmpty,
          Pursued, Accounted, Occupies
  <2> QED
    BY <2>1, <2>2, <2>3 DEF Kept
<1>12. ASSUME NEW p \in Procs, ReclaimJudge(p) PROVE Kept'
  <2>1. (Distinct /\ Owning)'
    BY <1>12, FileLockAssumption
      DEF FileLockAssumption, ReclaimJudge, TypeOK, Kept, Distinct, Owning,
          Occupies
  <2>2. (TombEmpty /\ Pursued)'
    BY <1>12 DEF ReclaimJudge, TypeOK, Kept, TombEmpty, Pursued
  <2>3. ASSUME NEW q \in Procs, Occupies(q)' PROVE Accounted(q)'
    BY <1>12, <2>3
      DEF ReclaimJudge, TypeOK, TombFull, Kept, Distinct, Owning, TombEmpty,
          Pursued, Accounted, Occupies
  <2> QED
    BY <2>1, <2>2, <2>3 DEF Kept
<1>13. ASSUME NEW p \in Procs, TakeAsideRename(p) PROVE Kept'
  <2>1. (Distinct /\ Owning)'
    BY <1>13, FileLockAssumption
      DEF FileLockAssumption, TakeAsideRename, SetLock, TypeOK, Kept, Distinct,
          Owning, Occupies
  <2>2. (TombEmpty /\ Pursued)'
    BY <1>13 DEF TakeAsideRename, SetLock, TypeOK, Kept, TombEmpty, Pursued
  <2>3. ASSUME NEW q \in Procs, Occupies(q)' PROVE Accounted(q)'
    BY <1>13, <2>3
      DEF TakeAsideRename, SetLock, TypeOK, TombFull, Kept, Distinct, Owning,
          TombEmpty, Pursued, Accounted, Occupies
  <2> QED
    BY <2>1, <2>2, <2>3 DEF Kept
<1>14. ASSUME NEW p \in Procs, TakeAsideCheck(p) PROVE Kept'
  <2>1. (Distinct /\ Owning)'
    BY <1>14, FileLockAssumption
      DEF FileLockAssumption, TakeAsideCheck, LeaveTomb, TypeOK, Kept, Distinct,
          Owning, Occupies
  <2>2. (TombEmpty /\ Pursued)'
    BY <1>14 DEF TakeAsideCheck, LeaveTomb, TypeOK, Kept, TombEmpty, Pursued
  <2>3. ASSUME NEW q \in Procs, Occupies(q)' PROVE Accounted(q)'
    BY <1>14, <2>3
      DEF TakeAsideCheck, LeaveTomb, TypeOK, TombFull, Kept, Distinct, Owning,
          TombEmpty, Pursued, Accounted, Occupies
  <2> QED
    BY <2>1, <2>2, <2>3 DEF Kept
<1>15. ASSUME NEW p \in Procs, TakeAsideRestore(p) PROVE Kept'
  <2>1. (Distinct /\ Owning)'
    BY <1>15, FileLockAssumption
      DEF FileLockAssumption, TakeAsideRestore, LeaveTomb, SetLock, TypeOK,
          Kept, Distinct, Owning, Occupies
  <2>2. (TombEmpty /\ Pursued)'
    BY <1>15
      DEF TakeAsideRestore, LeaveTomb, SetLock, TypeOK, Kept, TombEmpty, Pursued
  <2>3. ASSUME NEW q \in Procs, Occupies(q)' PROVE Accounted(q)'
    BY <1>15, <2>3
      DEF TakeAsideRestore, LeaveTomb, SetLock, TypeOK, TombFull, Kept,
          Distinct, Owning, TombEmpty, Pursued, Accounted, Occupies
  <2> QED
    BY <2>1, <2>2, <2>3 DEF Kept
<1>16. ASSUME NEW p \in Procs, Poll(p) PROVE Kept'
  <2>1. (Distinct /\ Owning)'
    BY <1>16, FileLockAssumption
      DEF FileLockAssumption, Poll, TypeOK, Kept, Distinct, Owning, Occupies
  <2>2. (TombEmpty /\ Pursued)'
    BY <1>16 DEF Poll, TypeOK, Kept, TombEmpty, Pursued
  <2>3. ASSUME NEW q \in Procs, Occupies(q)' PROVE Accounted(q)'
    BY <1>16, <2>3
      DEF Poll, TypeOK, TombFull, Kept, Distinct, Owning, TombEmpty, Pursued,
          Accounted, Occupies
  <2> QED
    BY <2>1, <2>2, <2>3 DEF Kept
<1>17. ASSUME NEW p \in Procs, Crash(p) PROVE Kept'
  <2>1. (Distinct /\ Owning)'
    BY <1>17, FileLockAssumption
      DEF FileLockAssumption, Crash, TypeOK, Kept, Distinct, Owning, Occupies
  <2>2. (TombEmpty /\ Pursued)'
    BY <1>17 DEF Crash, TypeOK, Kept, TombEmpty, Pursued
  <2>3. ASSUME NEW q \in Procs, Occupies(q)' PROVE Accounted(q)'
    BY <1>17, <2>3
      DEF Crash, TypeOK, TombFull, Kept, Distinct, Owning, TombEmpty, Pursued,
          Accounted, Occupies
  <2> QED
    BY <2>1, <2>2, <2>3 DEF Kept
<1>18. ASSUME NEW r \in Recs, Age(r) PROVE Kept'
  BY <1>18 DEF Age, Kept, Distinct, Owning, TombEmpty, Pursued, Accounted, Occupies
<1>19. CASE HostCrash
  BY <1>19 DEF HostCrash, Kept, Distinct, Owning, TombEmpty, Pursued, Occupies
<1>20. CASE ClearLock
  BY <1>20
    DEF ClearLock, SetLock, Kept, Distinct, Owning, TombEmpty, Pursued,
        Accounted, Occupies
<1>21. CASE ClearEvidence
  BY <1>21
    DEF ClearEvidence, Kept, Distinct, Owning, TombEmpty, Pursued, Accounted,
        Occupies
<1>22. CASE UNCHANGED vars
  BY <1>22 DEF vars, Kept, Distinct, Owning, TombEmpty, Pursued, Accounted, Occupies
<1> QED
  BY <1>1, <1>2, <1>3, <1>4, <1>5, <1>6, <1>7, <1>8, <1>9, <1>10, <1>11, <1>12,
     <1>13, <1>14, <1>15, <1>16, <1>17, <1>18, <1>19, <1>20, <1>21, <1>22
     DEF Next, Step

\* The file lock's inductive invariant holds in every reachable state.
THEOREM Invariance == Spec => []IInv
<1>1. Init => IInv
  BY TypeInit, SoundInit, KeptInit DEF IInv
<1>2. IInv /\ [Next]_vars => IInv'
  BY TypeNext, SoundNext, KeptNext DEF IInv
<1> QED
  BY <1>1, <1>2, PTL DEF Spec

-----------------------------------------------------------------------------
\* Store.Acquire's locals and the files of a subject keep their types.
THEOREM TypeCorrect == Spec => []TypeOK
  BY Invariance, PTL DEF IInv

\* One caller at a time inside a subject's window, for any number of callers,
\* crashes and failing system calls, until a record is judged abandoned.
THEOREM Exclusion == Spec => []MutualExclusion
<1>1. IInv => MutualExclusion
  BY OneOccupant DEF IInv, Kept, Sound, MutualExclusion, Inside, Occupies
<1> QED
  BY Invariance, <1>1, PTL

\* No crash of the host brings the counter back below a fence that Acquire
\* has returned.
THEOREM Durability == Spec => []FenceDurable
<1>1. IInv => FenceDurable
  BY DEF IInv, Sound, Counter, FenceDurable
<1> QED
  BY Invariance, <1>1, PTL

\* The record of a caller that is inside is never lost without a trace, with
\* reclaim, crashes and failing system calls: it is overdue, or at its name, or
\* in a set-aside file, or an overdue holder's release removed it.
THEOREM NothingIsLost == Spec => []NoSilentLoss
<1>1. IInv => NoSilentLoss
  BY DEF IInv, Kept, Accounted, NoSilentLoss, Inside, Occupies
<1> QED
  BY Invariance, <1>1, PTL

\* Only the commit of the counter lets a caller in.
LEMMA EnterIsCommit ==
  ASSUME TypeOK, [Next]_vars, NEW p \in Procs, pc[p] # "inside", pc'[p] = "inside"
  PROVE  FenceCommit(p) /\ FsyncDir /\ top' = Higher(top, seen[p] + 1)
<1> USE DEF TypeOK, Goto, local, disk, history
<1>1. CASE UNCHANGED vars
  BY <1>1 DEF vars
<1>2. CASE HostCrash
  BY <1>2 DEF HostCrash
<1>3. CASE ClearLock \/ ClearEvidence
  BY <1>3 DEF ClearLock, ClearEvidence
<1>4. ASSUME NEW r \in Recs, Age(r) PROVE FALSE
  BY <1>4 DEF Age
<1>5. ASSUME NEW q \in Procs, Acquire(q) \/ Step(q) \/ Release(q) \/ Crash(q)
      PROVE  FenceCommit(p) /\ FsyncDir /\ top' = Higher(top, seen[p] + 1)
  <2>1. CASE FenceCommit(q)
    BY <2>1 DEF FenceCommit
  <2>2. CASE ~FenceCommit(q)
    <3>1. \E l \in PCs \ {"inside"} : pc' = [pc EXCEPT ![q] = l]
      BY <1>5, <2>2 DEF Step, Acquire, ClaimStage, ClaimLink, ClaimSync, FenceRead,
         FenceWrite, Release, ReleaseCheck, ReleaseRemove, ReclaimRead, ReclaimJudge,
         TakeAsideRename, TakeAsideCheck, TakeAsideRestore, LeaveTomb, Poll, Crash, PCs
    <3> QED
      BY <3>1
  <2> QED
    BY <2>1, <2>2
<1> QED
  BY <1>1, <1>2, <1>3, <1>4, <1>5 DEF Next

\* Every caller that enters is handed a fence above all fences before it.
THEOREM FenceMonotone == Spec => FenceRises
<1>1. ASSUME IInv, [Next]_vars, ~suspected, NEW p \in Procs,
             pc[p] # "inside", pc'[p] = "inside"
      PROVE  seen'[p] + 1 > top
  <2>1. FenceCommit(p)
    BY <1>1, EnterIsCommit DEF IInv
  <2>2. fence = seen[p] + 1 /\ top < fence /\ seen' = seen
    BY <1>1, <2>1 DEF FenceCommit, IInv, Sound, Advancing
  <2> QED
    BY <2>2, <1>1 DEF IInv, TypeOK
<1>2. IInv /\ [Next]_vars =>
        [\A p \in Procs : ~suspected /\ pc[p] # "inside" /\ pc'[p] = "inside"
                            => seen'[p] + 1 > top]_vars
  BY <1>1
<1> QED
  BY Invariance, <1>2, PTL DEF Spec, FenceRises

-----------------------------------------------------------------------------
\* With StaleAfter at zero no record is ever judged abandoned (reclaim returns
\* before it reads anything).
LEMMA NeverSuspected == ASSUME ~Reclaim PROVE Spec => []~suspected
<1> DEFINE Quiet == ~suspected /\ \A p \in Procs : pc[p] # "judge"
<1>1. Init => Quiet
  BY DEF Init
<1>2. TypeOK /\ Quiet /\ [Next]_vars => Quiet'
  <2> SUFFICES ASSUME TypeOK, Quiet, [Next]_vars PROVE Quiet'
    OBVIOUS
  <2>1. suspected' = suspected
    BY Zenon
      DEF Next, Step, vars, history, local, disk, Acquire, ClaimStage,
          ClaimLink, ClaimSync, FenceRead, FenceWrite, FenceCommit, Release,
          ReleaseCheck, ReleaseRemove, ReclaimRead, ReclaimJudge,
          TakeAsideRename, TakeAsideCheck, TakeAsideRestore, Poll, Crash, Age,
          HostCrash, ClearLock, ClearEvidence
  <2>2. ASSUME NEW q \in Procs, Acquire(q) \/ Step(q) \/ Release(q) \/ Crash(q)
        PROVE  \E l \in PCs \ {"judge"} : pc' = [pc EXCEPT ![q] = l]
    BY <2>2
      DEF Step, Acquire, ClaimStage, ClaimLink, ClaimSync, FenceRead,
          FenceWrite, FenceCommit, Release, ReleaseCheck, ReleaseRemove,
          ReclaimRead, ReclaimJudge, TakeAsideRename, TakeAsideCheck,
          TakeAsideRestore, LeaveTomb, Poll, Crash, PCs, Goto
  <2>3. \A p \in Procs : pc'[p] # "judge"
    BY <2>2 DEF Next, TypeOK, vars, local, Age, HostCrash, ClearLock, ClearEvidence
  <2> QED
    BY <2>1, <2>3
<1> QED
  BY <1>1, <1>2, TypeCorrect, PTL DEF Spec

\* The highest fence moves only when a caller enters.
LEMMA TopMovesOnEntry ==
  ASSUME TypeOK, [Next]_vars, top' # top
  PROVE  \E p \in Procs : pc[p] # "inside" /\ pc'[p] = "inside"
<1>1. \E p \in Procs : FenceCommit(p)
  BY DEF Next, Step, vars, history, local, disk, Acquire, ClaimStage, ClaimLink,
     ClaimSync, FenceRead, FenceWrite, Release, ReleaseCheck,
     ReleaseRemove, ReclaimRead, ReclaimJudge, TakeAsideRename, TakeAsideCheck,
     TakeAsideRestore, Poll, Crash, Age, HostCrash, ClearLock, ClearEvidence
<1> QED
  BY <1>1 DEF FenceCommit, Goto, TypeOK

\* Occupant names the caller inside, if there is exactly one.
LEMMA OccupantInside ==
  ASSUME NEW p \in Procs, Inside(p), \A q \in Procs : Inside(q) => q = p
  PROVE  Occupant = p
  BY Zenon DEF Occupant

\* Without reclaim, a step of the store is a step of the abstract window or
\* changes nothing a caller can see.
LEMMA WindowStep ==
  ASSUME IInv, ~suspected, IInv', ~suspected', [Next]_vars
  PROVE  [Contract!Next]_<<Occupant, top>>
<1>1. \A p, q \in Procs : Inside(p) /\ Inside(q) => p = q
  BY OneOccupant DEF IInv, Kept, Sound, Inside, Occupies
<1>2. \A p, q \in Procs : pc'[p] = "inside" /\ pc'[q] = "inside" => p = q
  BY DEF IInv, Kept, Sound, Held, Distinct, Occupies
<1>3. ASSUME NEW p \in Procs, Inside(p) PROVE Occupant = p
  BY <1>1, <1>3, OccupantInside
<1>4. ASSUME NEW p \in Procs, pc'[p] = "inside" PROVE Occupant' = p
  BY <1>2, <1>4, Zenon DEF Occupant, Inside
<1>5. CASE \E p \in Procs : pc[p] # "inside" /\ pc'[p] = "inside"
  <2>1. PICK p \in Procs : pc[p] # "inside" /\ pc'[p] = "inside"
    BY <1>5
  <2>2. FenceCommit(p) /\ top' = Higher(top, seen[p] + 1)
    BY <2>1, EnterIsCommit DEF IInv
  <2>3. \A q \in Procs : ~Inside(q)
    BY <2>1, <2>2, OneOccupant DEF FenceCommit, IInv, Kept, Sound, Occupies, Inside
  <2>4. Occupant = None
    BY <2>3 DEF Occupant
  <2>5. top' \in Nat /\ top' > top
    BY <2>2 DEF FenceCommit, IInv, Sound, Advancing, TypeOK, Higher
  <2> QED
    BY <2>1, <1>4, <2>4, <2>5 DEF Contract!Next, Contract!Enter
<1>6. CASE ~\E p \in Procs : pc[p] # "inside" /\ pc'[p] = "inside"
  <2>1. top' = top
    BY <1>6, TopMovesOnEntry DEF IInv
  <2>2. CASE \E p \in Procs : Inside(p) /\ pc'[p] # "inside"
    <3>1. PICK p \in Procs : Inside(p) /\ pc'[p] # "inside"
      BY <2>2
    <3>2. \A q \in Procs : pc'[q] # "inside"
      BY <1>1, <1>6, <3>1 DEF Inside
    <3>3. Occupant' = None
      BY <3>2 DEF Occupant, Inside
    <3>4. Occupant = p
      BY <1>3, <3>1
    <3> QED
      BY <2>1, <3>3, <3>4 DEF Contract!Next, Contract!Leave
  <2>3. CASE \A p \in Procs : Inside(p) => pc'[p] = "inside"
    <3>1. CASE \E p \in Procs : Inside(p)
      BY <2>3, <3>1, <1>3, <1>4, <2>1
    <3>2. CASE ~\E p \in Procs : Inside(p)
      BY <1>6, <3>2, <2>1 DEF Occupant, Inside
    <3> QED
      BY <3>1, <3>2
  <2> QED
    BY <2>2, <2>3
<1> QED
  BY <1>5, <1>6

\* The file store without reclaim implements the Waiter contract of
\* coordination.go: what its callers see is the abstract window, whatever
\* crashes and failing system calls happen.
THEOREM Refinement == ASSUME ~Reclaim PROVE Spec => Refines
<1>1. Init => Contract!Init
  BY DEF Init, Contract!Init, Occupant, Inside
<1>2. IInv /\ ~suspected /\ IInv' /\ ~suspected' /\ [Next]_vars
        => [Contract!Next]_<<Occupant, top>>
  BY WindowStep
<1>3. Spec => []IInv /\ []~suspected
  BY Invariance, NeverSuspected
<1> QED
  BY <1>1, <1>2, <1>3, PTL DEF Spec, Refines, Contract!Spec, Contract!wvars
=============================================================================
