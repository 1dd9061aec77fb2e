------------------------------ MODULE FileLock ------------------------------
(***************************************************************************)
(* platform/coordination/filelock: Store.Acquire over one subject of one   *)
(* directory.  The directory holds the holder record <subject>.lock, the   *)
(* counter <subject>.fence and the set-aside files                         *)
(* <subject>.lock.reclaimed.*; every system call on a shared name is one   *)
(* step, so callers interleave between any two of them.  Processes and the *)
(* host may crash, and a system call may fail where Faults holds.          *)
(*                                                                         *)
(* A record stands for file identity and bytes together (type record in    *)
(* the code), so two records are equal exactly when record.same says so.   *)
(* Time is abstracted to the one thing the code asks of it: whether a      *)
(* record is older than Options.StaleAfter (the set aged).                 *)
(***************************************************************************)
EXTENDS Naturals, FiniteSets, TLC

CONSTANTS
  Procs,        \* the callers of Acquire, each a process of its own
  Recs,         \* identities of holder records; one is reused only when
                \* nothing refers to it any more
  None,         \* no record
  Reclaim,      \* Options.StaleAfter > 0
  Faults,       \* a system call may fail
  MaxCrashes,   \* bound: process crashes
  MaxHostCrashes, \* bound: crashes of the host
  MaxFence      \* bound: no Acquire starts once the counter is this high

ASSUME FileLockAssumption ==
  /\ None \notin Recs
  /\ None \notin Procs
  /\ Reclaim \in BOOLEAN
  /\ Faults \in BOOLEAN
  /\ MaxCrashes \in Nat
  /\ MaxHostCrashes \in Nat
  /\ MaxFence \in Nat

VARIABLES
  pc,         \* where each caller stands in Acquire or in its release
  rec,        \* the record the caller staged or published (claim's mine)
  judged,     \* the record a reclaimer read and found too old
  tomb,       \* the record under the caller's own set-aside name
  seen,       \* the counter as advanceFence read it
  lock,       \* the record at <subject>.lock
  lockDisk,   \* what a host crash may leave at <subject>.lock
  fence,      \* the counter at <subject>.fence (0: no file yet)
  fenceDisk,  \* what a host crash may leave there
  evidence,   \* records left under .reclaimed names by a finished reclaim
  aged,       \* records older than StaleAfter
  top,        \* history: the highest fence handed out
  suspected,  \* history: some record was judged abandoned
  foreign,    \* history: records removed by another occupancy's release
  crashes, hostCrashes

local == <<pc, rec, judged, tomb, seen>>
disk == <<lock, lockDisk, fence, fenceDisk, evidence>>
history == <<top, suspected, foreign>>
vars == <<local, disk, aged, history, crashes, hostCrashes>>

PCs == {"idle", "stage", "link", "sync", "read", "write", "commit", "inside",
        "check", "remove", "exists", "judge", "judged", "aside", "restore",
        "poll"}

\* The caller published a record and has not finished its release.
Occupies(p) == pc[p] \in {"sync", "read", "write", "commit", "inside",
                          "check", "remove"}

Inside(p) == pc[p] = "inside"

Waiting(p) == pc[p] \in {"stage", "link", "exists", "judge", "judged", "aside",
                         "restore", "poll"}

Init == /\ pc = [p \in Procs |-> "idle"]
        /\ rec = [p \in Procs |-> None]
        /\ judged = [p \in Procs |-> None]
        /\ tomb = [p \in Procs |-> None]
        /\ seen = [p \in Procs |-> 0]
        /\ lock = None /\ lockDisk = {None}
        /\ fence = 0 /\ fenceDisk = {0}
        /\ evidence = {} /\ aged = {}
        /\ top = 0 /\ suspected = FALSE /\ foreign = {}
        /\ crashes = 0 /\ hostCrashes = 0

Goto(p, l) == pc' = [pc EXCEPT ![p] = l]

\* The name <subject>.lock now refers to r; until the directory is fsynced
\* a host crash may bring back any earlier state of the name.
SetLock(r) == lock' = r /\ lockDisk' = lockDisk \cup {r}

\* Mutation of FsyncDir: the directory is not fsynced.
NoFsyncDir == UNCHANGED <<lockDisk, fenceDisk>>

\* fsyncDir: every directory entry is on disk.
FsyncDir == lockDisk' = {lock} /\ fenceDisk' = {fence}

\* No name, process or crash image refers to the record any more.
Unused(r) == /\ r \notin lockDisk \cup evidence
             /\ r # lock
             /\ \A q \in Procs : r # rec[q] /\ r # judged[q] /\ r # tomb[q]

-----------------------------------------------------------------------------
\* Acquire: the subject is valid and the directory exists.
Acquire(p) ==
  /\ pc[p] = "idle"
  /\ fence < MaxFence
  /\ Goto(p, "stage")
  /\ UNCHANGED <<rec, judged, tomb, seen, disk, aged, history, crashes,
                 hostCrashes>>

\* claim, up to the link: compose the record, write and fsync the staging
\* file, take its identity.  A record starts to age here.
ClaimStage(p) ==
  /\ pc[p] = "stage"
  /\ \/ \E r \in Recs :
          /\ Unused(r)
          /\ rec' = [rec EXCEPT ![p] = r]
          /\ aged' = aged \ {r}
          /\ foreign' = foreign \ {r}
          /\ Goto(p, "link")
     \/ /\ Faults
        /\ Goto(p, "idle")
        /\ UNCHANGED <<rec, aged, foreign>>
  /\ UNCHANGED <<judged, tomb, seen, disk, top, suspected, crashes,
                 hostCrashes>>

\* Mutation of ClaimLink: os.Rename, which replaces an existing target.
ClaimRename(p) ==
  /\ pc[p] = "link"
  /\ SetLock(rec[p])
  /\ Goto(p, "sync")
  /\ UNCHANGED <<rec, judged, tomb, seen, fence, fenceDisk, evidence, aged,
                 history, crashes, hostCrashes>>

\* claim's os.Link: publishes the staged record, refuses an existing target.
ClaimLink(p) ==
  /\ pc[p] = "link"
  /\ \/ /\ lock = None
        /\ SetLock(rec[p])
        /\ Goto(p, "sync")
        /\ UNCHANGED rec
     \/ /\ lock # None
        /\ rec' = [rec EXCEPT ![p] = None]
        /\ Goto(p, "exists")
        /\ UNCHANGED <<lock, lockDisk>>
     \/ /\ Faults
        /\ rec' = [rec EXCEPT ![p] = None]
        /\ Goto(p, "idle")
        /\ UNCHANGED <<lock, lockDisk>>
  /\ UNCHANGED <<judged, tomb, seen, fence, fenceDisk, evidence, aged, history,
                 crashes, hostCrashes>>

\* claim's fsyncDir: a claim that cannot be made durable is undone.
ClaimSync(p) ==
  /\ pc[p] = "sync"
  /\ \/ /\ FsyncDir
        /\ Goto(p, "read")
     \/ /\ Faults
        /\ Goto(p, "check")
        /\ UNCHANGED <<lockDisk, fenceDisk>>
  /\ UNCHANGED <<rec, judged, tomb, seen, lock, fence, evidence, aged, history,
                 crashes, hostCrashes>>

\* Mutation of FenceRead: the counter on disk is not consulted.
FenceForgotten(p) ==
  /\ pc[p] = "read"
  /\ seen' = [seen EXCEPT ![p] = 0]
  /\ Goto(p, "write")
  /\ UNCHANGED <<rec, judged, tomb, disk, aged, history, crashes, hostCrashes>>

\* advanceFence: read the counter.
FenceRead(p) ==
  /\ pc[p] = "read"
  /\ \/ /\ seen' = [seen EXCEPT ![p] = fence]
        /\ Goto(p, "write")
     \/ /\ Faults
        /\ Goto(p, "check")
        /\ UNCHANGED seen
  /\ UNCHANGED <<rec, judged, tomb, disk, aged, history, crashes, hostCrashes>>

\* Mutation of FenceWrite: the counter is written back as it was.
FenceKept(p) ==
  /\ pc[p] = "write"
  /\ fence' = seen[p] /\ fenceDisk' = fenceDisk \cup {seen[p]}
  /\ Goto(p, "commit")
  /\ UNCHANGED <<rec, judged, tomb, seen, lock, lockDisk, evidence, aged,
                 history, crashes, hostCrashes>>

\* advanceFence: writeAtomic renames the incremented counter into place.
FenceWrite(p) ==
  /\ pc[p] = "write"
  /\ \/ /\ fence' = seen[p] + 1
        /\ fenceDisk' = fenceDisk \cup {seen[p] + 1}
        /\ Goto(p, "commit")
     \/ /\ Faults
        /\ Goto(p, "check")
        /\ UNCHANGED <<fence, fenceDisk>>
  /\ UNCHANGED <<rec, judged, tomb, seen, lock, lockDisk, evidence, aged,
                 history, crashes, hostCrashes>>

Higher(a, b) == IF a > b THEN a ELSE b

\* writeAtomic's fsyncDir, then Acquire returns the release and the fence.
FenceCommit(p) ==
  /\ pc[p] = "commit"
  /\ \/ /\ FsyncDir
        /\ top' = Higher(top, seen[p] + 1)
        /\ Goto(p, "inside")
     \/ /\ Faults
        /\ Goto(p, "check")
        /\ UNCHANGED <<lockDisk, fenceDisk, top>>
  /\ UNCHANGED <<rec, judged, tomb, seen, lock, fence, evidence, aged, suspected,
                 foreign, crashes, hostCrashes>>

-----------------------------------------------------------------------------
\* The caller calls its release.
Release(p) ==
  /\ pc[p] = "inside"
  /\ Goto(p, "check")
  /\ UNCHANGED <<rec, judged, tomb, seen, disk, aged, history, crashes,
                 hostCrashes>>

\* releaseOwn: a record that is not this occupancy's, or cannot be looked
\* at, is left alone.
ReleaseCheck(p) ==
  /\ pc[p] = "check"
  /\ \/ /\ lock = rec[p]
        /\ Goto(p, "remove")
        /\ UNCHANGED rec
     \/ /\ lock # rec[p] \/ Faults
        /\ rec' = [rec EXCEPT ![p] = None]
        /\ Goto(p, "idle")
  /\ UNCHANGED <<judged, tomb, seen, disk, aged, history, crashes,
                 hostCrashes>>

\* releaseOwn's os.Remove: removes whatever the name refers to by now.
ReleaseRemove(p) ==
  /\ pc[p] = "remove"
  /\ \/ /\ SetLock(None)
        /\ foreign' = IF lock \in {None, rec[p]} THEN foreign
                                                 ELSE foreign \cup {lock}
     \/ /\ Faults
        /\ UNCHANGED <<lock, lockDisk, foreign>>
  /\ rec' = [rec EXCEPT ![p] = None]
  /\ Goto(p, "idle")
  /\ UNCHANGED <<judged, tomb, seen, fence, fenceDisk, evidence, aged, top,
                 suspected, crashes, hostCrashes>>

-----------------------------------------------------------------------------
\* Mutation of ReclaimRead: nobody looks at the record in the way.
ReclaimNever(p) ==
  /\ pc[p] = "exists"
  /\ Goto(p, "poll")
  /\ UNCHANGED <<rec, judged, tomb, seen, disk, aged, history, crashes,
                 hostCrashes>>

\* reclaim, readHolder: read the record in the way, if reclaim is on and there
\* still is one to read.
ReclaimRead(p) ==
  /\ pc[p] = "exists"
  /\ \/ /\ Reclaim /\ lock # None
        /\ judged' = [judged EXCEPT ![p] = lock]
        /\ Goto(p, "judge")
     \/ /\ ~Reclaim \/ lock = None \/ Faults
        /\ Goto(p, "poll")
        /\ UNCHANGED judged
  /\ UNCHANGED <<rec, tomb, seen, disk, aged, history, crashes, hostCrashes>>

\* reclaim, Holder.Age: only a record older than StaleAfter is pursued.
ReclaimJudge(p) ==
  /\ pc[p] = "judge"
  /\ IF judged[p] \in aged
       THEN /\ suspected' = TRUE
            /\ Goto(p, "judged")
            /\ UNCHANGED judged
       ELSE /\ judged' = [judged EXCEPT ![p] = None]
            /\ Goto(p, "poll")
            /\ UNCHANGED suspected
  /\ UNCHANGED <<rec, tomb, seen, disk, aged, top, foreign, crashes,
                 hostCrashes>>

\* takeAside: reserve the set-aside name and rename the record onto it.
\* Without a record there is nothing to do; a failure ends the wait with
\* ErrStaleLock.
TakeAsideRename(p) ==
  /\ pc[p] = "judged"
  /\ \/ /\ lock # None
        /\ tomb' = [tomb EXCEPT ![p] = lock]
        /\ SetLock(None)
        /\ Goto(p, "aside")
        /\ UNCHANGED judged
     \/ /\ \/ lock = None /\ Goto(p, "poll")
           \/ Faults /\ Goto(p, "idle")
        /\ judged' = [judged EXCEPT ![p] = None]
        /\ UNCHANGED <<tomb, lock, lockDisk>>
  /\ UNCHANGED <<rec, seen, fence, fenceDisk, evidence, aged, history, crashes,
                 hostCrashes>>

\* The reclaim is over; a set-aside file that stays becomes evidence.
LeaveTomb(p, keep, l) ==
  /\ evidence' = IF keep THEN evidence \cup {tomb[p]} ELSE evidence
  /\ tomb' = [tomb EXCEPT ![p] = None]
  /\ judged' = [judged EXCEPT ![p] = None]
  /\ Goto(p, l)

\* Mutation of TakeAsideCheck: what moved is taken for what was judged.
TakeAsideUnchecked(p) ==
  /\ pc[p] = "aside"
  /\ LeaveTomb(p, FALSE, "poll")
  /\ UNCHANGED <<rec, seen, lock, lockDisk, fence, fenceDisk, aged, history,
                 crashes, hostCrashes>>

\* takeAside: look at what actually moved.  The judged record is removed; a
\* failing os.Stat ends the wait with the record still set aside.
TakeAsideCheck(p) ==
  /\ pc[p] = "aside"
  /\ \/ /\ tomb[p] = judged[p]
        /\ \/ LeaveTomb(p, FALSE, "poll")
           \/ Faults /\ LeaveTomb(p, TRUE, "poll")
     \/ /\ tomb[p] # judged[p] \/ Faults
        /\ Goto(p, "restore")
        /\ UNCHANGED <<evidence, tomb, judged>>
     \/ /\ Faults
        /\ LeaveTomb(p, TRUE, "idle")
  /\ UNCHANGED <<rec, seen, lock, lockDisk, fence, fenceDisk, aged, history,
                 crashes, hostCrashes>>

\* takeAside: put somebody else's record back.  The link refuses an existing
\* target; then the error reports two callers inside and the moved record
\* stays as evidence.
TakeAsideRestore(p) ==
  /\ pc[p] = "restore"
  /\ \/ /\ lock = None
        /\ SetLock(tomb[p])
        /\ \/ LeaveTomb(p, FALSE, "poll")
           \/ Faults /\ LeaveTomb(p, TRUE, "poll")
     \/ /\ lock # None \/ Faults
        /\ LeaveTomb(p, TRUE, "idle")
        /\ UNCHANGED <<lock, lockDisk>>
  /\ UNCHANGED <<rec, seen, fence, fenceDisk, aged, history, crashes,
                 hostCrashes>>

\* Acquire's select: the jittered poll elapses and the loop tries again, or
\* ctx is done and the caller gives up.
Poll(p) ==
  /\ pc[p] = "poll"
  /\ Goto(p, "stage") \/ Goto(p, "idle")
  /\ UNCHANGED <<rec, judged, tomb, seen, disk, aged, history, crashes,
                 hostCrashes>>

-----------------------------------------------------------------------------
\* Time passes: a record somebody may still look at gets older than
\* StaleAfter (nobody asks when reclaim is off).
Age(r) ==
  /\ Reclaim
  /\ r \notin aged
  /\ r = lock \/ \E p \in Procs : r = rec[p] \/ r = judged[p]
  /\ aged' = aged \cup {r}
  /\ UNCHANGED <<local, disk, history, crashes, hostCrashes>>

\* A process is killed anywhere and comes back as a new caller; the names
\* it made stay.
Crash(p) ==
  /\ crashes < MaxCrashes
  /\ pc[p] # "idle"
  /\ crashes' = crashes + 1
  /\ rec' = [rec EXCEPT ![p] = None]
  /\ judged' = [judged EXCEPT ![p] = None]
  /\ evidence' = IF tomb[p] = None THEN evidence ELSE evidence \cup {tomb[p]}
  /\ tomb' = [tomb EXCEPT ![p] = None]
  /\ Goto(p, "idle")
  /\ UNCHANGED <<seen, lock, lockDisk, fence, fenceDisk, aged, history,
                 hostCrashes>>

\* The host dies: every process is gone, and each name comes back as one of
\* the states it had since the directory was last fsynced.
HostCrash ==
  /\ hostCrashes < MaxHostCrashes
  /\ hostCrashes' = hostCrashes + 1
  /\ pc' = [p \in Procs |-> "idle"]
  /\ rec' = [p \in Procs |-> None]
  /\ judged' = [p \in Procs |-> None]
  /\ tomb' = [p \in Procs |-> None]
  /\ lock' \in lockDisk /\ lockDisk' = {lock'}
  /\ fence' \in fenceDisk /\ fenceDisk' = {fence'}
  /\ evidence' = (evidence \cup {tomb[p] : p \in Procs}) \ {None}
  /\ UNCHANGED <<seen, aged, history, crashes>>

\* With reclaim off a human clears the window of a holder that is provably
\* gone: the .lock file is removed, the counter is left alone.
ClearLock ==
  /\ ~Reclaim
  /\ lock # None
  /\ \A p \in Procs : rec[p] # lock
  /\ SetLock(None)
  /\ UNCHANGED <<local, fence, fenceDisk, evidence, aged, history, crashes,
                 hostCrashes>>

\* The operator notes the persistent .reclaimed files, checks the work of the
\* callers that were overlapped once they are done, and removes the files.
ClearEvidence ==
  /\ evidence # {}
  /\ \A p \in Procs : rec[p] \notin evidence
  /\ evidence' = {}
  /\ UNCHANGED <<local, lock, lockDisk, fence, fenceDisk, aged, history, crashes,
                 hostCrashes>>

\* One step of a caller, other than starting and ending its occupancy.
Step(p) == \/ ClaimStage(p) \/ ClaimLink(p) \/ ClaimSync(p)
           \/ FenceRead(p) \/ FenceWrite(p) \/ FenceCommit(p)
           \/ ReleaseCheck(p) \/ ReleaseRemove(p)
           \/ ReclaimRead(p) \/ ReclaimJudge(p) \/ TakeAsideRename(p)
           \/ TakeAsideCheck(p) \/ TakeAsideRestore(p) \/ Poll(p)

Next == \/ \E p \in Procs : Acquire(p) \/ Step(p) \/ Release(p) \/ Crash(p)
        \/ \E r \in Recs : Age(r)
        \/ HostCrash \/ ClearLock \/ ClearEvidence

Spec == Init /\ [][Next]_vars

\* A scheduled process takes its next step, an occupant finishes its work
\* and time passes; nothing forces a caller to start or a crash to happen.
FairSpec == /\ Spec
            /\ \A p \in Procs : WF_vars(Step(p)) /\ WF_vars(Release(p))
            /\ \A r \in Recs : WF_vars(Age(r))
-----------------------------------------------------------------------------
(* What the package is to guarantee. *)

\* For TLC: callers and record identities are interchangeable.
Symmetry == Permutations(Procs) \cup Permutations(Recs)

\* Every variable has the type the code gives it (Store.Acquire's locals and
\* the files of one subject).
TypeOK ==
  /\ pc \in [Procs -> PCs]
  /\ rec \in [Procs -> Recs \cup {None}]
  /\ judged \in [Procs -> Recs \cup {None}]
  /\ tomb \in [Procs -> Recs \cup {None}]
  /\ seen \in [Procs -> Nat]
  /\ lock \in Recs \cup {None}
  /\ lockDisk \in SUBSET (Recs \cup {None})
  /\ fence \in Nat
  /\ fenceDisk \in SUBSET Nat
  /\ evidence \in SUBSET Recs
  /\ aged \in SUBSET Recs
  /\ top \in Nat
  /\ suspected \in BOOLEAN
  /\ foreign \in SUBSET Recs
  /\ crashes \in Nat
  /\ hostCrashes \in Nat

\* Exactly one caller is inside a subject's window (doc.go, The contract) as
\* long as no record has been judged abandoned: always with reclaim off, and
\* with reclaim on until a holder outlives StaleAfter or dies.
MutualExclusion ==
  ~suspected => \A p, q \in Procs : Inside(p) /\ Inside(q) => p = q

\* The fence rises (Acquire: two occupancies never share a value and a later
\* one always carries a higher one): a caller that enters is handed a fence
\* above every fence handed out before, crashes included.
FenceRises ==
  [][\A p \in Procs :
       ~suspected /\ pc[p] # "inside" /\ pc'[p] = "inside" => seen'[p] + 1 > top]_vars

\* A fence that was handed out survives a crash of the host: whatever the
\* counter file may come back as, it is not below it (writeAtomic fsyncs the
\* directory before Acquire returns).
FenceDurable == ~suspected => \A f \in fenceDisk : f >= top

\* A failed acquisition is inside nothing and a reclaim takes aside only the
\* record it judged: the record of a caller that is inside and not overdue is
\* at its name or set aside in one piece, unless the read-then-remove of a
\* reclaimed holder's release took it.
NoSilentLoss ==
  \A p \in Procs : Inside(p) =>
    \/ rec[p] \in aged \cup foreign \cup evidence
    \/ rec[p] = lock
    \/ \E q \in Procs : rec[p] = tomb[q]

\* Somebody who waits does not wait in vain: a caller gets inside, or every
\* waiter gives up, whatever a crashed holder left behind.
WaitersProgress ==
  (\E p \in Procs : Waiting(p))
     ~> ((\E p \in Procs : Inside(p)) \/ ~(\E p \in Procs : Waiting(p)))

\* The Waiter contract: with reclaim off, what callers see of the store is
\* the abstract window.
Occupant == IF \E p \in Procs : Inside(p) THEN CHOOSE p \in Procs : Inside(p)
                                          ELSE None

Contract == INSTANCE Window WITH Nobody <- None, occupant <- Occupant,
                                 issued <- top

Refines == Contract!Spec
-----------------------------------------------------------------------------
\* doc.go: the fence is never repeated, reclaim or not.
FenceNeverRepeats ==
  [][\A p \in Procs : pc[p] # "inside" /\ pc'[p] = "inside" => seen'[p] + 1 > top]_vars
-----------------------------------------------------------------------------
(* The inductive invariant behind the safety of the file lock: what holds  *)
(* as long as no record has been judged abandoned.                         *)

\* Between the rename and the end of a reclaim there is a record set aside.
TombFull == \A p \in Procs : pc[p] \in {"aside", "restore"} => tomb[p] # None

\* Nobody is taking a record aside.
NoReclaimer == \A p \in Procs : pc[p] \notin {"judged", "aside", "restore"}

\* From the link to the end of its release the record at the name is the
\* caller's own.
Held == \A p \in Procs : Occupies(p) => rec[p] # None /\ lock = rec[p]

\* A staged record is nobody else's and not published yet.
Staged == \A p \in Procs : pc[p] = "link" => rec[p] # None /\ rec[p] # lock

\* Two callers never have the same record.
Distinct == \A p, q \in Procs : rec[p] = rec[q] /\ rec[p] # None => p = q

\* Every state the counter may come back in covers all the fences handed out.
Counter == fence \in fenceDisk /\ \A f \in fenceDisk : f >= top

\* advanceFence works on the counter as it is on disk.
Advancing ==
  \A p \in Procs : /\ pc[p] = "write" => seen[p] = fence
                   /\ pc[p] = "commit" => fence = seen[p] + 1 /\ top < fence

\* Before the first judgement all of it holds.
Sound == ~suspected => NoReclaimer /\ Held /\ Staged /\ Counter /\ Advancing
-----------------------------------------------------------------------------
(* What holds with reclaim as well: nobody's record gets lost.             *)

\* A caller with a record staged or published has one.
Owning == \A p \in Procs : Occupies(p) \/ pc[p] = "link" => rec[p] # None

\* Only between the rename and the end of a reclaim.
TombEmpty == \A p \in Procs : pc[p] \notin {"aside", "restore"} => tomb[p] = None

\* A reclaim pursues a record older than StaleAfter, whatever it finds at the
\* name by the time it renames.
Pursued ==
  \A p \in Procs : pc[p] \in {"judged", "aside", "restore"} => judged[p] \in aged

\* The record of an occupant is overdue, taken by another release, kept as
\* evidence, at its name, or set aside.
Accounted(p) ==
  \/ rec[p] \in aged \cup foreign \cup evidence
  \/ rec[p] = lock
  \/ \E q \in Procs : rec[p] = tomb[q]

Kept == /\ Distinct /\ Owning /\ TombEmpty /\ Pursued
        /\ \A p \in Procs : Occupies(p) => Accounted(p)

\* What every step of every caller, and every crash, preserves: it implies
\* MutualExclusion, FenceDurable and NoSilentLoss (doc.go, The contract),
\* which are not inductive by themselves.
IInv == TypeOK /\ TombFull /\ Sound /\ Kept
=============================================================================
