---------------------------- MODULE RuntimeProofs ----------------------------
(***************************************************************************)
(* What MCRuntime checks on a small instance, for every number of tasks,   *)
(* items, keys, getters, processes, runs and workflow steps.  For each     *)
(* component: an inductive invariant, that its constructor establishes it  *)
(* (Init), that every operation keeps it (Next), that it says what the run *)
(* asks for (Safe), and that a step of another component leaves it alone   *)
(* (Stays).                                                                *)
(***************************************************************************)
EXTENDS MCRuntime, Sequences, TLAPS, FiniteSetTheorems, SequenceTheorems

\* The empty sequence, as a function and as a member of every Seq(S).
LEMMA EmptyDomain == DOMAIN <<>> = {} /\ \A S : <<>> \in Seq(S)
  OBVIOUS

\* What is left of a sequence is shifted by one.
LEMMA TailFacts ==
  ASSUME NEW S, NEW s \in Seq(S), s # <<>>
  PROVE  /\ Tail(s) \in Seq(S)
         /\ \A n \in DOMAIN Tail(s) : /\ Tail(s)[n] = s[n + 1]
                                     /\ n + 1 \in DOMAIN s /\ n \in Nat \ {0}
         /\ Head(s) = s[1] /\ 1 \in DOMAIN s
  BY HeadTailProperties
-----------------------------------------------------------------------------
\* Cache: what every step keeps.  Get goes on to evict only when what it read
\* had expired, which the clock never takes back: that is why an eviction drops
\* a live entry only where another caller has replaced it (staleGet).
CacheInv ==
  /\ Cache!TypeOK
  /\ sweeper # "off"
  /\ get \in [Getters -> {Cache!Idle} \cup [pc : {"read", "evict"}, key : Keys, exp : Nat]]
  /\ cacheClosing = "returned" => sweeper = "exited"
  /\ lost \subseteq {"staleGet"}
  /\ \A g \in Getters : get[g] # Cache!Idle /\ get[g].pc = "evict" =>
                        Cache!ExpiredAt(get[g].exp, now)

\* New leaves the cache in such a state.
LEMMA CacheInit == Cache!Init => CacheInv
<1> SUFFICES ASSUME Cache!Init PROVE CacheInv
  OBVIOUS
<1>1. cancelled \in BOOLEAN
  BY Zenon DEF Cache!Init
<1> QED
  BY <1>1, EmptyDomain, RuntimeAssumption
    DEF RuntimeAssumption, Cache!Init, CacheInv, Cache!TypeOK, Cache!Idle

\* Set, Get, Delete, Clear, Close, the sweep and the clock keep it.
LEMMA CacheNext == CacheInv /\ Cache!Next => CacheInv'
<1> SUFFICES ASSUME CacheInv, Cache!Next PROVE CacheInv'
  OBVIOUS
<1> USE RuntimeAssumption DEF RuntimeAssumption, CacheInv, Cache!TypeOK, Cache!Idle
<1>1. ASSUME NEW k \in Keys, NEW d \in 0..MaxTTL, Cache!Set(k, d) PROVE CacheInv'
  BY <1>1 DEF Cache!Set, Cache!ExpiredAt
<1>2. ASSUME NEW g \in Getters, NEW k \in Keys, Cache!GetRead(g, k) PROVE CacheInv'
  BY <1>2 DEF Cache!GetRead, Cache!ExpiredAt
<1>3. ASSUME NEW g \in Getters, Cache!GetJudge(g) PROVE CacheInv'
  BY <1>3 DEF Cache!GetJudge, Cache!ExpiredAt
<1>4. ASSUME NEW g \in Getters, Cache!GetEvict(g) PROVE CacheInv'
  BY <1>4 DEF Cache!GetEvict, Cache!Drop, Cache!Live, Cache!Without, Cache!ExpiredAt
<1>5. ASSUME Cache!DeleteExpired PROVE CacheInv'
  BY <1>5
    DEF Cache!DeleteExpired, Cache!Drop, Cache!Live, Cache!Without,
        Cache!ExpiredAt
<1>6. ASSUME Cache!Tick PROVE CacheInv'
  BY <1>6 DEF Cache!Tick, Cache!ExpiredAt
<1>7. ASSUME NEW k \in Keys, Cache!Delete(k) PROVE CacheInv'
  BY <1>7 DEF Cache!Delete, Cache!Without, Cache!ExpiredAt
<1>10. CASE Cache!WorkerExit
  BY <1>10 DEF Cache!WorkerExit, Cache!ExpiredAt
<1>11. CASE Cache!CloseReturn
  BY <1>11 DEF Cache!CloseReturn, Cache!ExpiredAt
<1>8. CASE Cache!Clear
  BY <1>8, EmptyDomain DEF Cache!Clear, Cache!ExpiredAt
<1>9. CASE Cache!Close
  <2>1. cancelled' \in BOOLEAN
    BY <1>9, Zenon DEF Cache!Close
  <2> QED
    BY <1>9, <2>1 DEF Cache!Close, Cache!ExpiredAt
<1> QED
  BY <1>1, <1>2, <1>3, <1>4, <1>5, <1>6, <1>7, <1>8, <1>9, <1>10, <1>11
    DEF Cache!Next, Cache!GetStep, Cache!WorkerTick

\* It is what the run asks of the cache.
LEMMA CacheSafe == CacheInv => CacheSound
  BY DEF CacheInv, CacheSound, Cache!Sound, Cache!CloseLeavesNothing,
         Cache!LiveLossNeedsRace

\* A step that is not the cache's keeps it.
LEMMA CacheStays == CacheInv /\ UNCHANGED ofCache => CacheInv'
  BY DEF ofCache, CacheInv, Cache!TypeOK, Cache!Idle, Cache!ExpiredAt

\* Cache: for every set of keys and of concurrent Gets, Close leaves no worker
\* behind and only the eviction race in Get drops a live entry.
THEOREM CacheIsSound == FairSpec => []CacheSound
<1>1. Init => CacheInv
  BY CacheInit DEF Init
<1>2. CacheInv /\ [Next]_vars => CacheInv'
  BY CacheNext, CacheStays DEF Next, vars
<1>3. CacheInv => CacheSound
  BY CacheSafe
<1> QED
  BY <1>1, <1>2, <1>3, PTL DEF FairSpec
-----------------------------------------------------------------------------
\* The tasks that own a slot of r.sem.
Holders == {t \in Tasks : Runner!HoldsSlot(t)}

\* Runner: what every step keeps.  A caller is in the channel's queue once and
\* sleeps there, so the release that wakes it hands its slot to somebody who
\* owned none; and a task that was refused has no goroutine.
RunnerInv ==
  /\ Runner!TypeOK
  /\ Slots > 0 => sem = Cardinality(Holders)
  /\ Runner!SleepOnlyWhenFull
  /\ \A n \in DOMAIN parked : submit[parked[n]] = "parked"
  /\ \A m, n \in DOMAIN parked : parked[m] = parked[n] => m = n
  /\ \A t \in Tasks :
       /\ submit[t] # "returned" => worker[t] = "none"
       /\ submit[t] \in {"select", "parked"} => Slots > 0
       /\ t \in ran => worker[t] \in {"fn", "defer", "gone"}
       /\ t \in refused => /\ closed
                           /\ submit[t] \in {"idle", "check", "fail", "returned"}
                           /\ worker[t] = "none"

\* They can be counted.
LEMMA HoldersFinite == IsFiniteSet(Holders) /\ Cardinality(Holders) \in Nat
  BY RuntimeAssumption, FS_Subset, FS_CardinalityType DEF RuntimeAssumption, Holders

\* NewRunner leaves the runner in such a state.
LEMMA RunnerInit == Runner!Init => RunnerInv
<1> SUFFICES ASSUME Runner!Init PROVE RunnerInv
  OBVIOUS
<1>1. Holders = {}
  BY DEF Holders, Runner!HoldsSlot, Runner!Init
<1>2. closed = FALSE /\ closed \in BOOLEAN
  BY Zenon DEF Runner!Init
<1> QED
  BY <1>1, <1>2, FS_EmptySet, EmptyDomain, RuntimeAssumption
  DEF RuntimeAssumption, Runner!Init, RunnerInv, Runner!TypeOK,
      Runner!SleepOnlyWhenFull

\* Submit, execute, Close, the janitor and a cancelled base context keep it.
LEMMA RunnerNext == RunnerInv /\ Runner!Next => RunnerInv'
<1> SUFFICES ASSUME RunnerInv, Runner!Next PROVE RunnerInv'
  OBVIOUS
<1>0. /\ IsFiniteSet(Holders) /\ Cardinality(Holders) \in Nat
      /\ \A t : Cardinality(Holders \cup {t}) = IF t \in Holders THEN Cardinality(Holders)
                                               ELSE Cardinality(Holders) + 1
      /\ \A t : Cardinality(Holders \ {t}) = IF t \in Holders THEN Cardinality(Holders) - 1
                                             ELSE Cardinality(Holders)
      /\ \A t : IsFiniteSet(Holders \ {t})
  BY HoldersFinite, FS_AddElement, FS_RemoveElement
<1> USE RuntimeAssumption
    DEF RuntimeAssumption, RunnerInv, Runner!TypeOK, Runner!SleepOnlyWhenFull
<1>1. ASSUME NEW t \in Tasks, Runner!Submit(t) PROVE RunnerInv'
  <2>1. Holders' = Holders
    BY <1>1 DEF Runner!Submit, Holders, Runner!HoldsSlot
  <2> QED BY <1>1, <2>1 DEF Runner!Submit
<1>2. ASSUME NEW t \in Tasks, Runner!SubmitCheck(t) PROVE RunnerInv'
  <2>1. CASE submit'[t] # "go"
    <3>1. Holders' = Holders
      BY <1>2, <2>1 DEF Runner!SubmitCheck, Holders, Runner!HoldsSlot
    <3> QED BY <1>2, <3>1 DEF Runner!SubmitCheck
  <2>2. CASE submit'[t] = "go"
    BY <1>2, <2>2 DEF Runner!SubmitCheck
  <2> QED BY <2>1, <2>2
<1>3. ASSUME NEW t \in Tasks, Runner!SubmitSelect(t) PROVE RunnerInv'
  <2>1. CASE sem < Slots /\ sem' = sem + 1
    <3>1. Holders' = Holders \cup {t} /\ t \notin Holders
      BY <1>3, <2>1 DEF Runner!SubmitSelect, Holders, Runner!HoldsSlot
    <3> QED BY <1>3, <2>1, <3>1, <1>0 DEF Runner!SubmitSelect
  <2>2. CASE closed /\ submit' = [submit EXCEPT ![t] = "fail"] /\ UNCHANGED <<sem, parked>>
    <3>1. Holders' = Holders
      BY <1>3, <2>2 DEF Runner!SubmitSelect, Holders, Runner!HoldsSlot
    <3> QED BY <1>3, <2>2, <3>1, <1>0 DEF Runner!SubmitSelect
  <2>3. CASE /\ sem = Slots /\ ~closed /\ submit' = [submit EXCEPT ![t] = "parked"]
             /\ parked' = Append(parked, t) /\ UNCHANGED sem
    <3>1. Holders' = Holders
      BY <1>3, <2>3 DEF Runner!SubmitSelect, Holders, Runner!HoldsSlot
    <3> QED BY <1>3, <2>3, <3>1, <1>0 DEF Runner!SubmitSelect
  <2> QED BY <1>3, <2>1, <2>2, <2>3 DEF Runner!SubmitSelect
<1>4. ASSUME NEW t \in Tasks, Runner!SubmitGo(t) PROVE RunnerInv'
  <2>1. Holders' = Holders
    BY <1>4 DEF Runner!SubmitGo, Holders, Runner!HoldsSlot
  <2> QED BY <1>4, <2>1 DEF Runner!SubmitGo
<1>5. ASSUME NEW t \in Tasks, Runner!SubmitFail(t) PROVE RunnerInv'
  <2>1. Holders' = Holders
    BY <1>5 DEF Runner!SubmitFail, Holders, Runner!HoldsSlot
  <2> QED BY <1>5, <2>1 DEF Runner!SubmitFail
<1>6. ASSUME NEW t \in Tasks, Runner!ExecStart(t) PROVE RunnerInv'
  <2>1. Holders' = Holders
    BY <1>6 DEF Runner!ExecStart, Holders, Runner!HoldsSlot
  <2> QED BY <1>6, <2>1 DEF Runner!ExecStart
<1>7. ASSUME NEW t \in Tasks, Runner!ExecFinish(t) PROVE RunnerInv'
  <2>1. Holders' = Holders
    BY <1>7 DEF Runner!ExecFinish, Holders, Runner!HoldsSlot
  <2> QED BY <1>7, <2>1 DEF Runner!ExecFinish
<1>8. ASSUME NEW t \in Tasks, Runner!ExecRelease(t) PROVE RunnerInv'
  <2>0. t \in Holders
    BY <1>8 DEF Runner!ExecRelease, Holders, Runner!HoldsSlot
  <2>1. CASE parked # <<>>
    <3> DEFINE h == Head(parked)
    <3>0. h \in Tasks /\ submit[h] = "parked" /\ worker[h] = "none" /\ h # t
      BY <1>8, <2>1 DEF Runner!ExecRelease
    <3>1. Holders' = (Holders \ {t}) \cup {h} /\ h \notin Holders
      BY <1>8, <2>1, <3>0 DEF Runner!ExecRelease, Holders, Runner!HoldsSlot
    <3>2. Cardinality(Holders') = Cardinality(Holders)
      <4>1. Cardinality((Holders \ {t}) \cup {h}) = Cardinality(Holders \ {t}) + 1
        BY <3>0, <3>1, <1>0, FS_AddElement
      <4> QED BY <4>1, <3>1, <2>0, <1>0
    <3>3. /\ parked \in Seq(Tasks) /\ parked' = Tail(parked)
          /\ submit' = [submit EXCEPT ![h] = "go"] /\ UNCHANGED sem
      BY <1>8, <2>1 DEF Runner!ExecRelease
    <3>4. /\ parked' \in Seq(Tasks)
          /\ \A n \in DOMAIN parked' : parked'[n] = parked[n + 1] /\ n + 1 \in DOMAIN parked /\ n \in Nat \ {0}
          /\ h = parked[1] /\ 1 \in DOMAIN parked
      BY <2>1, <3>3, TailFacts
    <3>5. \A n \in DOMAIN parked' : parked'[n] \in Tasks /\ parked'[n] # h /\ submit'[parked'[n]] = "parked"
      BY <3>0, <3>3, <3>4
    <3>6. \A m, n \in DOMAIN parked' : parked'[m] = parked'[n] => m = n
      BY <3>4
    <3> QED BY <1>8, <2>1, <3>0, <3>2, <3>3, <3>4, <3>5, <3>6 DEF Runner!ExecRelease
  <2>2. CASE parked = <<>>
    <3>1. Holders' = Holders \ {t}
      BY <1>8, <2>2 DEF Runner!ExecRelease, Holders, Runner!HoldsSlot
    <3>2. Cardinality(Holders) # 0
      BY <2>0, <1>0, FS_EmptySet
    <3> QED BY <1>8, <2>0, <2>2, <3>1, <3>2, <1>0 DEF Runner!ExecRelease
  <2> QED BY <2>1, <2>2
<1>9. ASSUME Runner!CancelBase \/ Runner!Close PROVE RunnerInv'
  <2>1. Holders' = Holders
    BY <1>9
      DEF Runner!CancelBase, Runner!Close, Runner!Cancel, Holders,
          Runner!HoldsSlot
  <2>2. closed' \in BOOLEAN /\ closed' = TRUE /\ parked' = <<>>
    BY <1>9, Zenon DEF Runner!CancelBase, Runner!Close, Runner!Cancel
  <2> QED
    BY <1>9, <2>1, <2>2, EmptyDomain
      DEF Runner!CancelBase, Runner!Close, Runner!Cancel
<1>10. ASSUME Runner!CloseReturn \/ Runner!Prune \/ Runner!JanitorStep PROVE RunnerInv'
  <2>1. Holders' = Holders
    BY <1>10
      DEF Runner!CloseReturn, Runner!Prune, Runner!JanitorStep, Holders,
          Runner!HoldsSlot
  <2> QED
    BY <1>10, <2>1
      DEF Runner!CloseReturn, Runner!Prune, Runner!JanitorStep, Runner!RemoveOld
<1> QED
  BY <1>1, <1>2, <1>3, <1>4, <1>5, <1>6, <1>7, <1>8, <1>9, <1>10
  DEF Runner!Next, Runner!SubmitStep, Runner!ExecStep

\* The runner counts as FiniteSets does.
LEMMA SameCount == ASSUME NEW S PROVE Runner!Cardinality(S) = Cardinality(S)
  BY DEF Runner!Cardinality, Cardinality, Runner!IsFiniteSet, IsFiniteSet

\* It is what the run asks of the runner.
LEMMA RunnerSafe == RunnerInv => RunnerSound
<1> SUFFICES ASSUME RunnerInv PROVE RunnerSound
  OBVIOUS
<1>1. Runner!Sound
  <2>1. Runner!SlotAccounting
    BY SameCount, Zenon DEF RunnerInv, Runner!SlotAccounting, Holders
  <2> QED
    BY <2>1 DEF RunnerInv, Runner!Sound
<1>2. Runner!RefusedNeverRuns
  BY DEF RunnerInv, Runner!TypeOK, Runner!RefusedNeverRuns
<1> QED
  BY <1>1, <1>2 DEF RunnerInv, RunnerSound

\* A step that is not the runner's keeps it.
LEMMA RunnerStays == RunnerInv /\ UNCHANGED ofRunner => RunnerInv'
<1> SUFFICES ASSUME RunnerInv, UNCHANGED ofRunner PROVE RunnerInv'
  OBVIOUS
<1>1. Holders' = Holders
  BY DEF ofRunner, Holders, Runner!HoldsSlot
<1> QED
  BY <1>1 DEF ofRunner, RunnerInv, Runner!TypeOK, Runner!SleepOnlyWhenFull

\* Runner: for every number of tasks and slots, r.sem counts the tasks let in,
\* Submit sleeps only on a full and open runner, and what was refused never runs.
THEOREM RunnerIsSound == FairSpec => []RunnerSound
<1>1. Init => RunnerInv
  BY RunnerInit DEF Init
<1>2. RunnerInv /\ [Next]_vars => RunnerInv'
  BY RunnerNext, RunnerStays DEF Next, vars
<1>3. RunnerInv => RunnerSound
  BY RunnerSafe
<1> QED
  BY <1>1, <1>2, <1>3, PTL DEF FairSpec
-----------------------------------------------------------------------------
\* Locker: what every step keeps.  A run takes its file away once, by its own
\* release or by its signal goroutine, whichever comes first (removeOnce);
\* until then the file is its own, and afterwards it never is again.
LockInv ==
  /\ Lock!TypeOK
  /\ Lock!KeepsOwnFile
  /\ \A r \in Lock!Runs :
       /\ handler[r] # "none" => pc[r] \in {"held", "stopped", "released"}
       /\ pc[r] = "released" => r \in removed
       /\ r \in removed => handler[r] \in {"removed", "raising", "exited"} \/ pc[r] = "released"
       /\ handler[r] \in {"removed", "raising"} => r \in removed
       /\ pc[r] = "held" /\ r \notin registered => r \in removed
       /\ file[Lock!Subject(r)] = r => pc[r] \in {"created", "held", "stopped"} /\ r \notin removed
       /\ fate[Lock!Proc(r)] = "interrupted" /\ file[Lock!Subject(r)] = r
            => pc[r] \in {"created", "stopped"}

\* No run has started.
LEMMA LockInit == Lock!Init => LockInv
  BY RuntimeAssumption
  DEF RuntimeAssumption, Lock!Init, LockInv, Lock!TypeOK, Lock!KeepsOwnFile,
      Lock!Runs, Lock!Subject, Lock!Proc

\* Lock, its release, the signal goroutine, signals and kills keep it.
LEMMA LockNext == LockInv /\ Lock!Next => LockInv'
<1> SUFFICES ASSUME LockInv, Lock!Next PROVE LockInv'
  OBVIOUS
<1> USE RuntimeAssumption
    DEF RuntimeAssumption, LockInv, Lock!TypeOK, Lock!KeepsOwnFile, Lock!Runs,
        Lock!Subject, Lock!Proc, Lock!Up
<1>1. ASSUME NEW r \in Lock!Runs, Lock!Create(r) PROVE LockInv'
  BY <1>1 DEF Lock!Create, Lock!MayStart, Lock!Started
<1>2. ASSUME NEW r \in Lock!Runs, Lock!Notify(r) PROVE LockInv'
  BY <1>2 DEF Lock!Notify
<1>3. ASSUME NEW r \in Lock!Runs, Lock!ReleaseStop(r) PROVE LockInv'
  BY <1>3 DEF Lock!ReleaseStop
<1>4. ASSUME NEW r \in Lock!Runs, Lock!ReleaseRemove(r) PROVE LockInv'
  BY <1>4 DEF Lock!ReleaseRemove, Lock!Remove
<1>5. ASSUME NEW r \in Lock!Runs, Lock!HandlerReceive(r) PROVE LockInv'
  BY <1>5 DEF Lock!HandlerReceive
<1>6. ASSUME NEW r \in Lock!Runs, Lock!HandlerRemove(r) PROVE LockInv'
  <2>1. Lock!TypeOK'
    BY <1>6 DEF Lock!HandlerRemove, Lock!Remove
  <2>2. r \notin removed => file[r[2]] = r \/ pc[r] = "released"
    BY <1>6 DEF Lock!HandlerRemove, Lock!Remove
  <2>3. Lock!KeepsOwnFile'
    BY <1>6, <2>2 DEF Lock!HandlerRemove, Lock!Remove
  <2>4. \A q \in Lock!Runs : file'[q[2]] = q => file[q[2]] = q /\ q # r
    BY <1>6, <2>2 DEF Lock!HandlerRemove, Lock!Remove
  <2> QED BY <1>6, <2>1, <2>3, <2>4 DEF Lock!HandlerRemove, Lock!Remove
<1>7. ASSUME NEW r \in Lock!Runs, Lock!HandlerStop(r) PROVE LockInv'
  <2>1. CASE onSignal
    BY <1>7, <2>1 DEF Lock!HandlerStop
  <2>2. CASE ~onSignal
    BY <1>7, <2>2 DEF Lock!HandlerStop
  <2> QED
    BY <2>1, <2>2
<1>8. ASSUME NEW r \in Lock!Runs, Lock!HandlerRaise(r) PROVE LockInv'
  BY <1>8 DEF Lock!HandlerRaise, Lock!Deliver
<1>9. ASSUME NEW p \in Procs, Lock!Signal(p) PROVE LockInv'
  BY <1>9 DEF Lock!Signal, Lock!Deliver
<1>10. ASSUME NEW p \in Procs, Lock!Kill(p) PROVE LockInv'
  BY <1>10 DEF Lock!Kill
<1> QED
  BY <1>1, <1>2, <1>3, <1>4, <1>5, <1>6, <1>7, <1>8, <1>9, <1>10
    DEF Lock!Next, Lock!HandlerStep

\* It is what the run asks of the lock.
LEMMA LockSafe == LockInv => LockSound
  BY DEF LockInv, LockSound, Lock!Sound, Lock!StrayOnlyAtTheEdges

\* A step that is not the lock's keeps it.
LEMMA LockStays == LockInv /\ UNCHANGED ofLock => LockInv'
  BY DEF ofLock, LockInv, Lock!TypeOK, Lock!KeepsOwnFile, Lock!Runs, Lock!Subject,
         Lock!Proc

\* Locker: for every number of processes, subjects, runs and signals, a run finds
\* its file in place until it gives it up, and an interrupt strands a lock only
\* at the two edges.
THEOREM LockIsSound == FairSpec => []LockSound
<1>1. Init => LockInv
  BY LockInit DEF Init
<1>2. LockInv /\ [Next]_vars => LockInv'
  BY LockNext, LockStays DEF Next, vars
<1>3. LockInv => LockSound
  BY LockSafe
<1> QED
  BY <1>1, <1>2, <1>3, PTL DEF FairSpec
-----------------------------------------------------------------------------
\* The types of the results and of the calls of the hooks.
Statuses == {"success", "skipped", "failed", "not_run"}
Hooks == [on : {"start", "done", "skip", "stepStart", "stepDone", "stepFail"},
          step : 0..Len(steps)]

\* What is known of step n when its result is in.
StepDone(n) ==
  /\ results[n] = "success" => steps[n].run = "ok" /\ Flow!StartThen(n, "stepDone")
  /\ results[n] = "skipped" => Flow!Once(n, "skip")
  /\ results[n] = "skipped" <=> steps[n].skip = "yes"

\* While the loop runs: the steps behind it are settled, the steps before it
\* have not been heard of.
SettledTo(k) == \A n \in 1..k : results[n] \in {"success", "skipped"} /\ StepDone(n)
Settled == SettledTo(Len(results))

\* At the end: what comes behind step k, the last that completed.
StoppedAfter(k) ==
  \A n \in (k + 1)..Len(steps) :
    \/ results[n] = "not_run" /\ Flow!HooksOf(n) = {}
    \/ n = k + 1 /\ results[n] = "failed" /\ Flow!StartThen(n, "stepFail")

\* No hook was called yet for the steps before the loop.
Unheard == \A n \in 1..Len(steps) : n > Flow!i \/ (n = Flow!i /\ at # "run")
                                      => Flow!HooksOf(n) = {}

\* The error says why the run stopped behind step k.
ErrTells(k) ==
  /\ k = Len(steps) => err = "nil"
  /\ k < Len(steps) /\ results[k + 1] = "failed" => err = "step"
  /\ k < Len(steps) /\ results[k + 1] # "failed" => err = "context"

\* What a finished run owes.
Ended == Flow!ResultIsWhole /\ Flow!HooksTellTheResult /\ Flow!PlanHolds

\* Workflow: what every step keeps. While the loop runs, the steps behind it
\* are settled and the steps before it unheard of; the context's end is noticed
\* before the next step.
FlowInv ==
  /\ Flow!TypeOK
  /\ at \in {"top", "skip", "run"} => err = "nil" /\ Settled /\ Unheard
  /\ at \in {"skip", "run"} => Len(results) < Len(steps)
  /\ at = "run" => steps[Flow!i].skip = "no" /\ Flow!Once(Flow!i, "stepStart")
  /\ overrun = 0 \/ (overrun = 1 /\ stopped /\ at # "skip")
  /\ at = "done" => Ended

\* Numbers below a bound.
LEMMA Below ==
  \A a, b \in Nat : /\ a <= b => a = b \/ a < b
                    /\ a < b => a + 1 \in 1..b /\ ~(a + 1 <= a) /\ a # b
  OBVIOUS

\* A run that stops fills the rest of the result with not_run.
LEMMA NotRunFacts ==
  ASSUME Flow!TypeOK, NEW rs \in Seq(Statuses), Len(rs) <= Len(steps)
  PROVE  /\ Flow!NotRun(rs) \in Seq(Statuses)
         /\ Len(Flow!NotRun(rs)) = Len(steps)
         /\ \A n \in 1..Len(steps) : Flow!NotRun(rs)[n] = IF n <= Len(rs) THEN rs[n] ELSE "not_run"
<1> DEFINE tail == [n \in 1..(Len(steps) - Len(rs)) |-> "not_run"]
<1>1. Len(steps) - Len(rs) \in Nat
  BY DEF Flow!TypeOK
<1>2. tail \in Seq(Statuses) /\ Len(tail) = Len(steps) - Len(rs)
  BY <1>1 DEF Statuses
<1>3. \A n \in 1..Len(tail) : tail[n] = "not_run"
  BY <1>2
<1>4. Flow!NotRun(rs) = rs \o tail
  BY DEF Flow!NotRun
<1> HIDE DEF tail
<1> QED
  BY <1>1, <1>2, <1>3, <1>4, ConcatProperties

\* One more call of a hook.
LEMMA AnotherHook ==
  ASSUME Flow!TypeOK, NEW h \in Hooks, hooks' = Append(hooks, h)
  PROVE  /\ hooks' \in Seq(Hooks)
         /\ Len(hooks) \in Nat /\ DOMAIN hooks' = 1..(Len(hooks) + 1)
         /\ DOMAIN hooks = 1..Len(hooks)
         /\ \A m \in DOMAIN hooks : m \in DOMAIN hooks' /\ hooks'[m] = hooks[m] /\ m < Len(hooks) + 1
         /\ hooks'[Len(hooks) + 1] = h
         /\ \A n : Flow!HooksOf(n)' = IF h.step = n THEN Flow!HooksOf(n) \cup {Len(hooks) + 1}
                                                    ELSE Flow!HooksOf(n)
<1>1. hooks \in Seq(Hooks)
  BY DEF Flow!TypeOK, Hooks
<1>2. /\ hooks' \in Seq(Hooks)
      /\ Len(hooks) \in Nat /\ DOMAIN hooks' = 1..(Len(hooks) + 1)
      /\ DOMAIN hooks = 1..Len(hooks)
      /\ \A m \in DOMAIN hooks : m \in DOMAIN hooks' /\ hooks'[m] = hooks[m] /\ m < Len(hooks) + 1
      /\ hooks'[Len(hooks) + 1] = h
  BY <1>1, AppendProperties
<1> QED
  BY <1>2 DEF Flow!HooksOf

\* A run begins in such a state.
LEMMA FlowInit == Flow!Init => FlowInv
<1> SUFFICES ASSUME Flow!Init PROVE FlowInv
  OBVIOUS
<1>1. stopped \in BOOLEAN
  BY Zenon DEF Flow!Init
<1>2. steps \in Seq(Flow!Kinds)
  BY RuntimeAssumption DEF RuntimeAssumption, Flow!Init
<1>3. hooks \in Seq(Hooks) /\ \A n \in 1..Len(steps) : Flow!HooksOf(n) = {}
  BY <1>2 DEF Flow!Init, Hooks, Flow!HooksOf
<1> QED
  BY <1>1, <1>2, <1>3
    DEF Flow!Init, FlowInv, Flow!TypeOK, Hooks, Settled, SettledTo, Unheard

\* A hook that is called for another step leaves what is known of step n.
LEMMA HookKept ==
  ASSUME Flow!TypeOK, NEW h \in Hooks, hooks' = Append(hooks, h), NEW n, h.step # n, NEW x
  PROVE  /\ Flow!HooksOf(n)' = Flow!HooksOf(n)
         /\ Flow!Once(n, x) => Flow!Once(n, x)'
         /\ Flow!StartThen(n, x) => Flow!StartThen(n, x)'
  BY AnotherHook DEF Flow!Once, Flow!StartThen

\* A hook that is called for step n is its only one, or the second.
LEMMA HookAdded ==
  ASSUME Flow!TypeOK, NEW n \in 1..Len(steps), NEW x,
         [on |-> x, step |-> n] \in Hooks, hooks' = Append(hooks, [on |-> x, step |-> n])
  PROVE  /\ Flow!HooksOf(n) = {} => Flow!Once(n, x)'
         /\ Flow!Once(n, "stepStart") => Flow!StartThen(n, x)'
<1>1. /\ DOMAIN hooks' = 1..(Len(hooks) + 1) /\ Len(hooks) \in Nat
      /\ \A m \in DOMAIN hooks : m \in DOMAIN hooks' /\ hooks'[m] = hooks[m] /\ m < Len(hooks) + 1
      /\ hooks'[Len(hooks) + 1] = [on |-> x, step |-> n]
      /\ Flow!HooksOf(n)' = Flow!HooksOf(n) \cup {Len(hooks) + 1}
  BY AnotherHook
<1>2. ASSUME Flow!HooksOf(n) = {} PROVE Flow!Once(n, x)'
  BY <1>1, <1>2 DEF Flow!Once
<1>3. ASSUME Flow!Once(n, "stepStart") PROVE Flow!StartThen(n, x)'
  <2>1. PICK m \in DOMAIN hooks : Flow!HooksOf(n) = {m} /\ hooks[m].on = "stepStart"
    BY <1>3 DEF Flow!Once
  <2>2. Flow!HooksOf(n)' = {m, Len(hooks) + 1}
    BY <1>1, <2>1
  <2> QED
    BY <1>1, <2>1, <2>2 DEF Flow!StartThen
<1> QED
  BY <1>2, <1>3

\* One more call of a hook, for step k.
LEMMA NextHook ==
  ASSUME Flow!TypeOK, NEW k \in 1..Len(steps), NEW x \in {"skip", "stepStart", "stepDone"},
         hooks' = Append(hooks, [on |-> x, step |-> k])
  PROVE  /\ hooks' \in Seq(Hooks)
         /\ Flow!HooksOf(k) = {} => Flow!Once(k, x)'
         /\ Flow!Once(k, "stepStart") => Flow!StartThen(k, x)'
         /\ \A n : n # k => /\ Flow!HooksOf(n)' = Flow!HooksOf(n)
                            /\ Flow!Once(n, "skip") => Flow!Once(n, "skip")'
                            /\ Flow!StartThen(n, "stepDone") => Flow!StartThen(n, "stepDone")'
<1> DEFINE h == [on |-> x, step |-> k]
<1>1. h \in Hooks /\ hooks' = Append(hooks, h) /\ h.step = k
  BY DEF Hooks, Flow!TypeOK
<1>2. /\ hooks' \in Seq(Hooks)
      /\ Flow!HooksOf(k) = {} => Flow!Once(k, x)'
      /\ Flow!Once(k, "stepStart") => Flow!StartThen(k, x)'
  BY <1>1, AnotherHook, HookAdded
<1> HIDE DEF h
<1>3. ASSUME NEW n, n # k
      PROVE  /\ Flow!HooksOf(n)' = Flow!HooksOf(n)
             /\ Flow!Once(n, "skip") => Flow!Once(n, "skip")'
             /\ Flow!StartThen(n, "stepDone") => Flow!StartThen(n, "stepDone")'
  BY <1>1, <1>3, HookKept
<1> QED
  BY <1>2, <1>3

\* The last call of a hook: OnWorkflowDone.
LEMMA DoneHook ==
  ASSUME Flow!TypeOK, NEW n \in 1..Len(steps), NEW x, Flow!WorkflowDone(hooks)
  PROVE  /\ hooks' \in Seq(Hooks)
         /\ Flow!HooksOf(n)' = Flow!HooksOf(n)
         /\ Flow!Once(n, x) => Flow!Once(n, x)'
         /\ Flow!StartThen(n, x) => Flow!StartThen(n, x)'
<1>1. [on |-> "done", step |-> 0] \in Hooks /\ n # 0
  BY DEF Hooks, Flow!TypeOK
<1>2. hooks' = Append(hooks, [on |-> "done", step |-> 0])
  BY DEF Flow!WorkflowDone
<1> QED
  BY <1>1, <1>2, HookKept, AnotherHook

\* Nothing is said about steps, results and hooks that do not change.
LEMMA SameStory ==
  ASSUME UNCHANGED <<steps, results, hooks>>
  PROVE  /\ Flow!i' = Flow!i
         /\ Settled' = Settled
         /\ \A n : Flow!HooksOf(n)' = Flow!HooksOf(n)
         /\ \A n, x : Flow!Once(n, x)' = Flow!Once(n, x)
<1>1. \A n : Flow!HooksOf(n)' = Flow!HooksOf(n)
  BY DEF Flow!HooksOf
<1>2. \A n, x : /\ Flow!Once(n, x)' = Flow!Once(n, x)
                /\ Flow!StartThen(n, x)' = Flow!StartThen(n, x)
  BY <1>1 DEF Flow!Once, Flow!StartThen
<1>3. \A n : StepDone(n)' = StepDone(n)
  BY <1>2 DEF StepDone
<1> QED
  BY <1>1, <1>2, <1>3 DEF Flow!i, Settled, SettledTo

\* A workflow that ends with some steps completed, and then, perhaps, with a
\* failure and with steps that did not run.
LEMMA EndIsWhole ==
  ASSUME Flow!TypeOK, Flow!TypeOK', at' = "done", steps' = steps, NEW k \in Nat, k <= Len(steps),
         Len(results') = Len(steps),
         SettledTo(k)', StoppedAfter(k)',
         ErrTells(k)'
  PROVE  Ended'
<1>1. /\ DOMAIN results' = 1..Len(steps) /\ DOMAIN steps' = 1..Len(steps)
      /\ Len(steps) \in Nat
  BY DEF Flow!TypeOK
<1>0. k \in Nat /\ k <= Len(steps) /\ (k = Len(steps) \/ k < Len(steps))
  BY <1>1, Below
<1>2. \A n \in 1..Len(steps) : \/ n \in 1..k
                               \/ n \in (k + 1)..Len(steps) /\ n \notin 1..k
  BY <1>1
<1>3. \A n \in 1..k : n \in 1..Len(steps) /\ results'[n] \in {"success", "skipped"} /\ StepDone(n)'
  BY <1>1 DEF SettledTo
<1>4. \A n \in (k + 1)..Len(steps) :
        \/ results'[n] = "not_run" /\ Flow!HooksOf(n)' = {}
        \/ n = k + 1 /\ results'[n] = "failed" /\ Flow!StartThen(n, "stepFail")'
  BY DEF StoppedAfter
<1>5. Flow!Completed' = 1..k
  BY <1>1, <1>2, <1>3, <1>4 DEF Flow!Completed
<1>6. Flow!ResultIsWhole'
  <2>1. ASSUME NEW n \in 1..Len(steps)
        PROVE  /\ n \in 1..k => 1..n \subseteq 1..k
               /\ results'[n] = "failed" => \A m \in 1..(n - 1) : m \in 1..k
               /\ results'[n] = "success" => steps[n].run = "ok"
    BY <1>1, <1>2, <1>3, <1>4 DEF StepDone
  <2>2. (err' = "nil") <=> (1..k = 1..Len(steps))
    <3>1. CASE k = Len(steps)
      BY <1>1, <3>1 DEF ErrTells
    <3>2. CASE k < Len(steps)
      <4>1. Len(steps) \notin 1..k /\ Len(steps) \in 1..Len(steps)
        BY <1>1, <3>2
      <4> QED
        BY <3>2, <4>1 DEF ErrTells
    <3> QED
      BY <1>0, <3>1, <3>2, Zenon
  <2>3. (err' = "step") <=> (\E n \in 1..Len(steps) : results'[n] = "failed")
    <3>1. CASE k = Len(steps)
      BY <1>1, <1>3, <3>1 DEF ErrTells
    <3>2. CASE k < Len(steps)
      <4>1. k + 1 \in 1..Len(steps)
        BY <1>1, <3>2
      <4>2. \A n \in 1..Len(steps) : results'[n] = "failed" => n = k + 1
        BY <1>2, <1>3, <1>4
      <4> QED
        BY <3>2, <4>1, <4>2 DEF ErrTells
    <3> QED
      BY <1>0, <3>1, <3>2, Zenon
  <2> QED
    BY <1>1, <1>5, <2>1, <2>2, <2>3 DEF Flow!ResultIsWhole
<1>7. Flow!HooksTellTheResult'
  BY <1>1, <1>2, <1>3, <1>4 DEF Flow!HooksTellTheResult, StepDone
<1>8. Flow!PlanHolds'
  BY <1>1, <1>3, <1>5 DEF Flow!PlanHolds, Flow!DryRun, StepDone
<1> QED
  BY <1>6, <1>7, <1>8 DEF Ended

\* The last two calls of a workflow that fails at step n.
LEMMA FailHooks ==
  ASSUME Flow!TypeOK, NEW n \in 1..Len(steps), Flow!Once(n, "stepStart"),
         Flow!WorkflowDone(Append(hooks, [on |-> "stepFail", step |-> n]))
  PROVE  /\ hooks' \in Seq(Hooks)
         /\ Flow!StartThen(n, "stepFail")'
         /\ \A m \in 1..Len(steps) : m # n =>
              /\ Flow!HooksOf(m)' = Flow!HooksOf(m)
              /\ Flow!Once(m, "skip") => Flow!Once(m, "skip")'
              /\ Flow!StartThen(m, "stepDone") => Flow!StartThen(m, "stepDone")'
<1> DEFINE L == Len(hooks)
           fail == [on |-> "stepFail", step |-> n]
           done == [on |-> "done", step |-> 0]
<1>1. hooks \in Seq(Hooks) /\ fail \in Hooks /\ done \in Hooks /\ L \in Nat
  BY DEF Flow!TypeOK, Hooks
<1>2. hooks' = Append(Append(hooks, fail), done)
  BY DEF Flow!WorkflowDone
<1>3. /\ Append(hooks, fail) \in Seq(Hooks) /\ Len(Append(hooks, fail)) = L + 1
      /\ \A m \in 1..L : Append(hooks, fail)[m] = hooks[m]
      /\ Append(hooks, fail)[L + 1] = fail
  BY <1>1, AppendProperties
<1>4. /\ hooks' \in Seq(Hooks) /\ DOMAIN hooks' = 1..(L + 2) /\ DOMAIN hooks = 1..L
      /\ \A m \in 1..L : hooks'[m] = hooks[m]
      /\ hooks'[L + 1] = fail /\ hooks'[L + 2] = done
  BY <1>1, <1>2, <1>3, AppendProperties
<1>5. \A m \in 1..Len(steps) :
        Flow!HooksOf(m)' = IF m = n THEN Flow!HooksOf(m) \cup {L + 1} ELSE Flow!HooksOf(m)
  BY <1>1, <1>4 DEF Flow!HooksOf
<1>7. /\ \A m \in DOMAIN hooks : m \in DOMAIN hooks' /\ hooks'[m] = hooks[m] /\ m < L + 1
      /\ L + 1 \in DOMAIN hooks' /\ hooks'[L + 1].on = "stepFail"
  BY <1>1, <1>4
<1>6. Flow!StartThen(n, "stepFail")'
  <2>1. PICK m \in DOMAIN hooks : Flow!HooksOf(n) = {m} /\ hooks[m].on = "stepStart"
    BY DEF Flow!Once
  <2>2. Flow!HooksOf(n)' = {m, L + 1}
    BY <1>5, <2>1
  <2> QED
    BY <1>7, <2>1, <2>2 DEF Flow!StartThen
<1> HIDE DEF L, fail, done
<1> QED
  BY <1>4, <1>5, <1>6, <1>7 DEF Flow!Once, Flow!StartThen

\* The top of the loop, Skip, Run and a done context keep it.
LEMMA FlowNext == FlowInv /\ Flow!Next => FlowInv'
<1> SUFFICES ASSUME FlowInv, Flow!Next PROVE FlowInv'
  OBVIOUS
<1>0. /\ steps \in Seq(Flow!Kinds) /\ results \in Seq(Statuses) /\ hooks \in Seq(Hooks)
      /\ Len(steps) \in Nat /\ Len(results) \in Nat /\ DOMAIN steps = 1..Len(steps)
      /\ DOMAIN results = 1..Len(results) /\ Len(results) <= Len(steps)
      /\ Flow!TypeOK /\ overrun \in Nat
  BY DEF FlowInv, Flow!TypeOK, Statuses, Hooks
<1>1. CASE Flow!Top
  <2>1. CASE at' = "skip"
    <3>1. /\ UNCHANGED <<steps, results, hooks, err, stopped, overrun>>
          /\ ~stopped /\ at = "top" /\ Flow!i <= Len(steps)
      BY <1>1, <2>1 DEF Flow!Top
    <3>2. Flow!TypeOK'
      BY <1>0, <2>1, <3>1 DEF Flow!TypeOK
    <3> QED
      BY <1>0, <2>1, <3>1, <3>2, SameStory DEF FlowInv, Unheard, Flow!i
  <2>2. CASE Flow!i > Len(steps)
    <3>1. Len(results) = Len(steps)
      <4>1. Len(results) + 1 > Len(steps)
        BY <2>2 DEF Flow!i
      <4>2. Len(results) \in Nat /\ Len(steps) \in Nat /\ Len(results) <= Len(steps)
        BY <1>0
      <4> QED
        BY <4>1, <4>2
    <3>2. /\ UNCHANGED <<steps, results, err, stopped, overrun>> /\ at = "top"
          /\ at' = "done" /\ Flow!WorkflowDone(hooks)
      BY <1>0, <1>1, <2>2 DEF Flow!Top, Flow!i
    <3>3. /\ \A n \in 1..Len(steps) : /\ Flow!HooksOf(n)' = Flow!HooksOf(n)
                                      /\ Flow!Once(n, "skip") => Flow!Once(n, "skip")'
                                      /\ Flow!StartThen(n, "stepDone") => Flow!StartThen(n, "stepDone")'
          /\ hooks' \in Seq(Hooks)
      <4>1. hooks' \in Seq(Hooks)
        BY <1>0, <3>2, AnotherHook DEF Flow!WorkflowDone, Hooks
      <4> QED
        BY <1>0, <3>2, <4>1, DoneHook
    <3>4. Flow!TypeOK'
      BY <1>0, <3>2, <3>3 DEF Flow!TypeOK, Hooks
    <3>5. Ended'
      <4>1. SettledTo(Len(steps))'
        BY <3>1, <3>2, <3>3 DEF FlowInv, Settled, SettledTo, StepDone
      <4>2. StoppedAfter(Len(steps))'
        BY <1>0, <3>2 DEF StoppedAfter
      <4>3. ErrTells(Len(steps))'
        BY <1>0, <3>2 DEF FlowInv, ErrTells
      <4> QED
        BY <1>0, <3>1, <3>2, <3>4, <4>1, <4>2, <4>3, EndIsWhole
    <3> QED
      BY <1>0, <3>2, <3>4, <3>5 DEF FlowInv
  <2>3. CASE Flow!i <= Len(steps) /\ stopped
    <3> PICK k : k = Len(results)
      OBVIOUS
    <3>1. /\ UNCHANGED <<steps, stopped, overrun>> /\ at = "top" /\ at' = "done"
          /\ results' = Flow!NotRun(results) /\ err' = "context"
          /\ Flow!WorkflowDone(hooks)
      BY <1>0, <1>1, <2>3 DEF Flow!Top, Flow!i
    <3>2. /\ \A n \in 1..Len(steps) : /\ Flow!HooksOf(n)' = Flow!HooksOf(n)
                                      /\ Flow!Once(n, "skip") => Flow!Once(n, "skip")'
                                      /\ Flow!StartThen(n, "stepDone") => Flow!StartThen(n, "stepDone")'
          /\ hooks' \in Seq(Hooks)
      <4>1. hooks' \in Seq(Hooks)
        BY <1>0, <3>1, AnotherHook DEF Flow!WorkflowDone, Hooks
      <4> QED
        BY <1>0, <3>1, <4>1, DoneHook
    <3>3. /\ results' \in Seq(Statuses) /\ Len(results') = Len(steps)
          /\ \A n \in 1..Len(steps) : results'[n] = IF n <= k THEN results[n] ELSE "not_run"
      BY <1>0, <3>1, NotRunFacts
    <3>4. Flow!TypeOK'
      BY <1>0, <3>1, <3>2, <3>3 DEF Flow!TypeOK, Hooks, Statuses
    <3>5. k \in Nat /\ k <= Len(steps) /\ k < Len(steps) /\ \A n \in 1..k : n \in 1..Len(steps) /\ n <= k
      BY <1>0, <2>3 DEF Flow!i
    <3>6. SettledTo(k)'
      BY <3>1, <3>2, <3>3, <3>5 DEF FlowInv, Settled, SettledTo, StepDone
    <3>7. StoppedAfter(k)'
      <4>1. \A n \in (k + 1)..Len(steps) : n \in 1..Len(steps) /\ ~(n <= k) /\ (n > Flow!i \/ n = Flow!i)
        BY <1>0, <3>5 DEF Flow!i
      <4> QED
        BY <3>1, <3>2, <3>3, <4>1 DEF FlowInv, StoppedAfter, Unheard
    <3>8. ErrTells(k)'
      <4>1. k + 1 \in 1..Len(steps) /\ ~(k + 1 <= k) /\ k # Len(steps)
        BY <1>0, <3>5, Below
      <4> QED
        BY <3>1, <3>3, <4>1 DEF ErrTells
    <3> QED
      BY <1>0, <3>1, <3>3, <3>4, <3>5, <3>6, <3>7, <3>8, EndIsWhole DEF FlowInv
  <2> QED
    BY <1>1, <2>1, <2>2, <2>3 DEF Flow!Top
<1>2. CASE Flow!Skip
  <2> PICK k : k = Flow!i
    OBVIOUS
  <2>0. /\ k \in 1..Len(steps) /\ k = Len(results) + 1 /\ at = "skip"
        /\ UNCHANGED <<steps, err, stopped>>
        /\ err = "nil" /\ Settled /\ Unheard /\ Flow!HooksOf(k) = {} /\ overrun = 0
    BY <1>0, <1>2 DEF Flow!Skip, FlowInv, Flow!i, Unheard
  <2>1. CASE steps[k].skip = "panic"
    <3>1. at' = "panicked" /\ UNCHANGED <<results, hooks, overrun>>
      BY <1>2, <2>1 DEF Flow!Skip
    <3>2. Flow!TypeOK'
      BY <1>0, <2>0, <3>1 DEF Flow!TypeOK
    <3> QED
      BY <2>0, <3>1, <3>2 DEF FlowInv
  <2>2. CASE steps[k].skip = "yes"
    <3>1. /\ hooks' = Append(hooks, [on |-> "skip", step |-> k])
          /\ results' = Append(results, "skipped")
          /\ at' = "top" /\ UNCHANGED overrun
      BY <1>2, <2>2 DEF Flow!Skip
    <3>3. /\ results' \in Seq(Statuses) /\ Len(results') = k /\ Flow!i' = k + 1
          /\ results'[k] = "skipped"
          /\ \A n \in 1..k : n = k \/ (n \in 1..Len(results) /\ n # k /\ results'[n] = results[n])
      BY <1>0, <2>0, <3>1, AppendProperties DEF Statuses, Flow!i
    <3>4. /\ hooks' \in Seq(Hooks) /\ Flow!Once(k, "skip")'
          /\ \A n : n # k => /\ Flow!HooksOf(n)' = Flow!HooksOf(n)
                             /\ Flow!Once(n, "skip") => Flow!Once(n, "skip")'
                             /\ Flow!StartThen(n, "stepDone") => Flow!StartThen(n, "stepDone")'
      BY <1>0, <2>0, <3>1, NextHook
    <3>5. Flow!TypeOK'
      BY <1>0, <2>0, <3>1, <3>3, <3>4 DEF Flow!TypeOK, Hooks, Statuses
    <3>6. Settled'
      BY <2>0, <2>2, <3>3, <3>4 DEF Settled, SettledTo, StepDone
    <3>7. Unheard'
      <4>1. \A n \in 1..Len(steps) : n > k + 1 \/ n = k + 1 => n > k /\ n # k
        BY <1>0, <2>0
      <4> QED
        BY <2>0, <3>3, <3>4, <4>1 DEF Unheard
    <3> QED
      BY <2>0, <3>1, <3>5, <3>6, <3>7 DEF FlowInv
  <2>3. CASE steps[k].skip = "no"
    <3>1. /\ hooks' = Append(hooks, [on |-> "stepStart", step |-> k])
          /\ UNCHANGED results
          /\ at' = "run" /\ overrun' = IF stopped THEN overrun + 1 ELSE overrun
      BY <1>2, <2>3 DEF Flow!Skip
    <3>3. Flow!i' = k
      BY <3>1 DEF Flow!i
    <3>4. /\ hooks' \in Seq(Hooks) /\ Flow!Once(k, "stepStart")'
          /\ \A n : n # k => /\ Flow!HooksOf(n)' = Flow!HooksOf(n)
                             /\ Flow!Once(n, "skip") => Flow!Once(n, "skip")'
                             /\ Flow!StartThen(n, "stepDone") => Flow!StartThen(n, "stepDone")'
      BY <1>0, <2>0, <3>1, NextHook
    <3>5. Flow!TypeOK'
      BY <1>0, <2>0, <3>1, <3>4 DEF Flow!TypeOK, Hooks
    <3>6. Settled'
      <4>1. \A n \in 1..Len(results) : n # k
        BY <1>0, <2>0
      <4> QED
        BY <2>0, <3>1, <3>4, <4>1 DEF Settled, SettledTo, StepDone
    <3>7. Unheard'
      BY <1>0, <2>0, <3>1, <3>3, <3>4 DEF Unheard
    <3>8. overrun' = 0 \/ (overrun' = 1 /\ stopped')
      BY <2>0, <3>1
    <3>9. Len(results') < Len(steps')
      BY <1>0, <2>0, <3>1
    <3> QED
      BY <2>0, <2>3, <3>1, <3>3, <3>4, <3>5, <3>6, <3>7, <3>8, <3>9 DEF FlowInv
  <2> QED
    BY <1>2, <2>1, <2>2, <2>3 DEF Flow!Skip
<1>3. CASE Flow!RunStep
  <2> PICK k : k = Flow!i
    OBVIOUS
  <2>0. /\ k \in 1..Len(steps) /\ k = Len(results) + 1 /\ at = "run"
        /\ UNCHANGED <<steps, stopped, overrun>>
        /\ err = "nil" /\ Settled /\ Unheard /\ steps[k].skip = "no"
        /\ Flow!Once(k, "stepStart")
    BY <1>0, <1>3 DEF Flow!RunStep, FlowInv, Flow!i
  <2>1. CASE Flow!Succeeds(steps[k])
    <3>1. /\ hooks' = Append(hooks, [on |-> "stepDone", step |-> k])
          /\ results' = Append(results, "success")
          /\ at' = "top" /\ UNCHANGED err /\ steps[k].run = "ok"
      BY <1>3, <2>1 DEF Flow!RunStep, Flow!Succeeds
    <3>3. /\ results' \in Seq(Statuses) /\ Len(results') = k /\ Flow!i' = k + 1
          /\ results'[k] = "success"
          /\ \A n \in 1..k : n = k \/ (n \in 1..Len(results) /\ n # k /\ results'[n] = results[n])
      BY <1>0, <2>0, <3>1, AppendProperties DEF Statuses, Flow!i
    <3>4. /\ hooks' \in Seq(Hooks) /\ Flow!StartThen(k, "stepDone")'
          /\ \A n : n # k => /\ Flow!HooksOf(n)' = Flow!HooksOf(n)
                             /\ Flow!Once(n, "skip") => Flow!Once(n, "skip")'
                             /\ Flow!StartThen(n, "stepDone") => Flow!StartThen(n, "stepDone")'
      BY <1>0, <2>0, <3>1, NextHook
    <3>5. Flow!TypeOK'
      BY <1>0, <2>0, <3>1, <3>3, <3>4 DEF Flow!TypeOK, Hooks, Statuses
    <3>6. Settled'
      BY <2>0, <3>1, <3>3, <3>4 DEF Settled, SettledTo, StepDone
    <3>7. Unheard'
      <4>1. \A n \in 1..Len(steps) : n > k + 1 \/ n = k + 1 => n > k /\ n # k
        BY <1>0, <2>0
      <4> QED
        BY <2>0, <3>3, <3>4, <4>1 DEF Unheard
    <3> QED
      BY <2>0, <3>1, <3>5, <3>6, <3>7 DEF FlowInv
  <2>2. CASE ~Flow!Succeeds(steps[k])
    <3> PICK l : l = Len(results)
      OBVIOUS
    <3>1. /\ results' = Flow!NotRun(Append(results, "failed")) /\ err' = "step"
          /\ at' = "done"
          /\ Flow!WorkflowDone(Append(hooks, [on |-> "stepFail", step |-> k]))
      BY <1>3, <2>2 DEF Flow!RunStep, Flow!Fail
    <3>2. /\ hooks' \in Seq(Hooks) /\ Flow!StartThen(k, "stepFail")'
          /\ \A m \in 1..Len(steps) : m # k =>
              /\ Flow!HooksOf(m)' = Flow!HooksOf(m)
              /\ Flow!Once(m, "skip") => Flow!Once(m, "skip")'
              /\ Flow!StartThen(m, "stepDone") => Flow!StartThen(m, "stepDone")'
      BY <1>0, <2>0, <3>1, FailHooks
    <3>3. /\ Append(results, "failed") \in Seq(Statuses)
          /\ Len(Append(results, "failed")) = k
          /\ \A n \in 1..Len(results) : Append(results, "failed")[n] = results[n]
          /\ Append(results, "failed")[k] = "failed"
      BY <1>0, <2>0, AppendProperties DEF Statuses
    <3>4. /\ results' \in Seq(Statuses) /\ Len(results') = Len(steps)
          /\ \A n \in 1..Len(steps) : results'[n] = IF n <= k THEN Append(results, "failed")[n] ELSE "not_run"
      <4>1. Len(Append(results, "failed")) <= Len(steps)
        BY <1>0, <2>0, <3>3
      <4> QED
        BY <1>0, <3>1, <3>3, <4>1, NotRunFacts
    <3>5. Flow!TypeOK'
      BY <1>0, <2>0, <3>1, <3>2, <3>4 DEF Flow!TypeOK, Hooks, Statuses
    <3>6. /\ l \in Nat /\ l <= Len(steps) /\ l < Len(steps) /\ k = l + 1
          /\ results'[k] = "failed"
          /\ \A n \in 1..l : n \in 1..Len(steps) /\ n # k /\ results'[n] = results[n]
      BY <1>0, <2>0, <3>3, <3>4
    <3>7. SettledTo(l)'
      <4>1. \A n \in 1..l : results'[n] \in {"success", "skipped"} /\ StepDone(n)'
        BY <2>0, <3>2, <3>6 DEF Settled, SettledTo, StepDone
      <4> QED
        BY <4>1 DEF SettledTo
    <3>8. StoppedAfter(l)'
      <4>1. \A n \in k..Len(steps) : n = k \/ (n \in 1..Len(steps) /\ n > k /\ ~(n <= k) /\ n # k)
        BY <1>0, <2>0
      <4>2. \A n \in k..Len(steps) : \/ results'[n] = "not_run" /\ Flow!HooksOf(n)' = {}
                                     \/ n = k /\ results'[n] = "failed"
        BY <2>0, <3>2, <3>4, <3>6, <4>1 DEF Unheard
      <4> QED
        BY <2>0, <3>2, <4>2 DEF StoppedAfter
    <3>9. ErrTells(l)'
      BY <2>0, <3>1, <3>6 DEF ErrTells
    <3> QED
      BY <1>0, <2>0, <3>1, <3>4, <3>5, <3>6, <3>7, <3>8, <3>9, EndIsWhole
        DEF FlowInv
  <2> QED
    BY <2>1, <2>2
<1>4. CASE Flow!Cancel
  <2>1. stopped' \in BOOLEAN /\ stopped' /\ at # "done"
    BY <1>4, Zenon DEF Flow!Cancel
  <2>2. UNCHANGED <<steps, results, hooks, err, at, overrun>>
    BY <1>4 DEF Flow!Cancel
  <2>3. Flow!TypeOK'
    BY <1>0, <2>1, <2>2 DEF Flow!TypeOK
  <2> QED
    BY <1>0, <2>1, <2>2, <2>3, SameStory DEF FlowInv, Unheard
<1> QED
  BY <1>1, <1>2, <1>3, <1>4 DEF Flow!Next

\* It is what the run asks of a workflow.
LEMMA FlowSafe == FlowInv => FlowSound
<1> SUFFICES ASSUME FlowInv PROVE FlowSound
  OBVIOUS
<1>1. Flow!ResultIsWhole /\ Flow!HooksTellTheResult /\ Flow!PlanHolds
  <2>1. CASE at = "done"
    BY <2>1 DEF FlowInv, Ended
  <2>2. CASE at # "done"
    BY <2>2 DEF Flow!ResultIsWhole, Flow!HooksTellTheResult, Flow!PlanHolds
  <2> QED
    BY <2>1, <2>2
<1>2. Flow!CancelStops
  BY DEF FlowInv, Flow!CancelStops
<1> QED
  BY <1>1, <1>2 DEF FlowInv, FlowSound, Flow!Sound

\* A step that is not the workflow's keeps it.
LEMMA FlowStays == FlowInv /\ UNCHANGED ofFlow => FlowInv'
<1> SUFFICES ASSUME FlowInv, UNCHANGED ofFlow PROVE FlowInv'
  OBVIOUS
<1>1. /\ UNCHANGED <<steps, at, results, err, hooks, stopped, overrun>>
      /\ Flow!i' = Flow!i /\ Flow!Kinds' = Flow!Kinds
      /\ Flow!Completed' = Flow!Completed /\ Flow!DryRun' = Flow!DryRun
      /\ \A n : Flow!HooksOf(n)' = Flow!HooksOf(n)
  BY DEF ofFlow, Flow!i, Flow!Kinds, Flow!Completed, Flow!DryRun, Flow!HooksOf
<1>2. \A n, h : /\ Flow!Once(n, h)' <=> Flow!Once(n, h)
                /\ Flow!StartThen(n, h)' <=> Flow!StartThen(n, h)
  BY <1>1 DEF Flow!Once, Flow!StartThen
<1>3. Flow!TypeOK'
  BY <1>1 DEF FlowInv, Flow!TypeOK
<1>4. (Settled => Settled') /\ (Unheard => Unheard')
  BY <1>1, <1>2 DEF Settled, SettledTo, StepDone, Unheard
<1>5. Flow!ResultIsWhole => Flow!ResultIsWhole'
  BY <1>1 DEF Flow!ResultIsWhole
<1>6. Flow!HooksTellTheResult => Flow!HooksTellTheResult'
  BY <1>1, <1>2 DEF Flow!HooksTellTheResult
<1>7. Flow!PlanHolds => Flow!PlanHolds'
  BY <1>1 DEF Flow!PlanHolds
<1> QED
  BY <1>1, <1>2, <1>3, <1>4, <1>5, <1>6, <1>7 DEF FlowInv, Ended

\* RunWithResult: for every workflow, a finished run accounts for every step, its
\* hooks and DryRun tell the same, and a done context lets one step start at most.
THEOREM FlowIsSound == FairSpec => []FlowSound
<1>1. Init => FlowInv
  BY FlowInit DEF Init
<1>2. FlowInv /\ [Next]_vars => FlowInv'
  BY FlowNext, FlowStays DEF Next, vars
<1>3. FlowInv => FlowSound
  BY FlowSafe
<1> QED
  BY <1>1, <1>2, <1>3, PTL DEF FairSpec
-----------------------------------------------------------------------------
\* Item i is in the sequence s.
In(i, s) == \E n \in 1..Len(s) : s[n] = i

\* q is a place, and item i is in it.
InBuffer(q, i) == \E n \in 1..Len(buffer) : q = <<"buffer", n>> /\ buffer[n] = i
InFlight(q, i) == \E c \in Buffer!Callers : q = <<"flight", c>> /\ In(i, batch[c])
InDelivered(q, i) == \E n \in 1..Len(delivered) : q = <<"delivered", n>> /\ In(i, delivered[n])
InHanded(q, i) == \E b \in handed : q = <<"handed", b>> /\ In(i, b)
Holds(q, i) == InBuffer(q, i) \/ InFlight(q, i) \/ InDelivered(q, i) \/ InHanded(q, i)

\* Item i is in one place, or in none.
OnePlace(i) == /\ \E q : Holds(q, i)
               /\ \A p, q : Holds(p, i) /\ Holds(q, i) => p = q

\* Item i is nowhere.
NoPlace(i) == \A q : ~Holds(q, i)

\* The limit and the order, for the buffer and for any batch.
Fits(b) == Len(b) <= BatchLimit /\ \E k \in 0..Len(added) : Buffer!Piece(b, k)

\* Nobody holds more than the limit, and everybody holds a piece of what was
\* added, in that order; the buffer holds its end.
Ordered ==
  /\ Len(buffer) < BatchLimit
  /\ Len(buffer) <= Len(added) /\ Buffer!Piece(buffer, Len(added) - Len(buffer))
  /\ \A c \in Buffer!Callers : Fits(batch[c])
  /\ \A n \in 1..Len(delivered) : Fits(delivered[n])
  /\ \A b \in handed : Fits(b)

\* An item is in one place from the moment it is added.
Kept ==
  \A i \in Items : /\ In(i, added) => OnePlace(i)
                   /\ ~In(i, added) => NoPlace(i)

\* An item was added when its Add has begun, and not before.
Fresh == \A i \in Items : call[i] = "idle" <=> ~In(i, added)

\* BatchBuffer: what every step keeps.
BufferInv == Buffer!TypeOK /\ Ordered /\ Kept /\ Fresh

\* The places that the model counts are these.
LEMMA PlacesAre ==
  ASSUME Buffer!TypeOK PROVE \A i, p : p \in Buffer!Places(i) <=> Holds(p, i)
  <1> TAKE i, p
  <1>1. p \in Buffer!Places(i) <=>
          \/ \E n \in DOMAIN buffer : p = <<"buffer", n>> /\ buffer[n] = i
          \/ \E c \in Buffer!Callers : p = <<"flight", c>> /\ In(i, batch[c])
          \/ \E n \in DOMAIN delivered : p = <<"delivered", n>> /\ In(i, delivered[n])
          \/ \E b \in handed : p = <<"handed", b>> /\ In(i, b)
    BY DEF Buffer!Places, In, Buffer!Contains
  <1>2. DOMAIN buffer = 1..Len(buffer) /\ DOMAIN delivered = 1..Len(delivered)
    BY DEF Buffer!TypeOK
  <1> QED BY <1>1, <1>2 DEF Holds, InBuffer, InFlight, InDelivered, InHanded

\* It is what the run asks of the buffer.
LEMMA BufferSafe == BufferInv => BufferSound
<1> SUFFICES ASSUME BufferInv PROVE BufferSound
  OBVIOUS
<1>1. Buffer!Conservation
  <2> SUFFICES ASSUME NEW i \in Items
      PROVE IF In(i, added) THEN \E p \in Buffer!Places(i) : Buffer!Places(i) = {p}
                            ELSE Buffer!Places(i) = {}
    BY DEF Buffer!Conservation, In, Buffer!Contains
  <2>1. CASE In(i, added)
    BY <2>1, PlacesAre DEF BufferInv, Kept, OnePlace
  <2>2. CASE ~In(i, added)
    BY <2>2, PlacesAre DEF BufferInv, Kept, NoPlace
  <2> QED BY <2>1, <2>2
<1>2. Buffer!Segments
  <2>0. PICK k : k = Len(added) - Len(buffer)
    OBVIOUS
  <2>1. k \in 0..Len(added) /\ Len(buffer) <= BatchLimit /\ Buffer!Piece(buffer, k)
    BY <2>0, RuntimeAssumption
      DEF BufferInv, Ordered, Buffer!TypeOK, RuntimeAssumption
  <2>2. Fits(buffer)
    BY <2>1 DEF Fits
  <2>3. ASSUME NEW b \in Buffer!Lots PROVE Fits(b)
    <3>1. CASE b \in Buffer!ToSet(delivered)
      <4>1. PICK n \in 1..Len(delivered) : b = delivered[n]
        BY <3>1 DEF Buffer!ToSet, BufferInv, Buffer!TypeOK
      <4> QED BY <4>1 DEF BufferInv, Ordered
    <3>2. CASE b \notin Buffer!ToSet(delivered)
      BY <2>2, <2>3, <3>2 DEF BufferInv, Ordered, Buffer!Lots
    <3> QED BY <3>1, <3>2
  <2> QED
    BY <2>3 DEF BufferInv, Ordered, Buffer!Segments, Fits
<1> QED
  BY <1>1, <1>2 DEF BufferInv, BufferSound, Buffer!Sound

\* A step that is not the buffer's keeps it.
LEMMA BufferStays == BufferInv /\ UNCHANGED ofBuffer => BufferInv'
  BY DEF ofBuffer, BufferInv, Buffer!TypeOK, Ordered, Kept, Fresh, OnePlace,
         NoPlace, Holds, InBuffer, InFlight, InDelivered, InHanded, Fits,
         Buffer!Piece, In, Buffer!Callers

\* A piece stays a piece as more is added.
LEMMA Grows ==
  ASSUME added \in Seq(Items), NEW i \in Items, added' = Append(added, i)
  PROVE  /\ \A b \in Seq(Items) : Fits(b) => Fits(b)'
         /\ \A j \in Items : In(j, added)' <=> (In(j, added) \/ j = i)
<1>1. /\ added' \in Seq(Items) /\ Len(added') = Len(added) + 1 /\ Len(added) \in Nat
      /\ added'[Len(added) + 1] = i /\ \A n \in 1..Len(added) : added'[n] = added[n]
  BY AppendProperties
<1>2. ASSUME NEW b \in Seq(Items), Fits(b) PROVE Fits(b)'
  <2>1. PICK k \in 0..Len(added) : Buffer!Piece(b, k)
    BY <1>2 DEF Fits
  <2>2. Len(b) \in Nat /\ DOMAIN b = 1..Len(b)
    BY LenProperties
  <2>3. Buffer!Piece(b, k)'
    BY <1>1, <2>1, <2>2 DEF Buffer!Piece
  <2> QED BY <1>1, <1>2, <2>3 DEF Fits
<1>3. ASSUME NEW j \in Items PROVE In(j, added)' <=> (In(j, added) \/ j = i)
  BY <1>1 DEF In
<1> QED BY <1>2, <1>3

\* An empty buffer is in such a state.
LEMMA BufferInit == Buffer!Init => BufferInv
<1> SUFFICES ASSUME Buffer!Init PROVE BufferInv
  OBVIOUS
<1>1. \A i : ~In(i, <<>>)
  BY DEF In
<1>2. Fits(<<>>)
  BY RuntimeAssumption DEF RuntimeAssumption, Buffer!Init, Fits, Buffer!Piece
<1>3. Buffer!TypeOK
  BY DEF Buffer!Init, Buffer!TypeOK
<1>4. Ordered
  BY <1>2, RuntimeAssumption
    DEF RuntimeAssumption, Buffer!Init, Ordered, Buffer!Piece
<1>5. Kept
  BY <1>1
    DEF Buffer!Init, Kept, NoPlace, Holds, InBuffer, InFlight, InDelivered,
        InHanded
<1>6. Fresh
  BY <1>1 DEF Buffer!Init, Fresh, Buffer!Callers
<1> QED BY <1>3, <1>4, <1>5, <1>6 DEF BufferInv

\* The kinds of places are told apart by their tags.
LEMMA Kinds ==
  \A q, i : /\ InBuffer(q, i) => ~InFlight(q, i) /\ ~InDelivered(q, i) /\ ~InHanded(q, i)
            /\ InFlight(q, i) => ~InDelivered(q, i) /\ ~InHanded(q, i)
            /\ InDelivered(q, i) => ~InHanded(q, i)
  BY DEF InBuffer, InFlight, InDelivered, InHanded

\* What is swapped out of the buffer is in flight with one caller.
LEMMA SwapOut ==
  ASSUME BufferInv, NEW c \in Buffer!Callers, NEW s \in Seq(Items), call[c] = "idle",
         buffer' = <<>>, batch' = [batch EXCEPT ![c] = s],
         UNCHANGED <<delivered, handed>>
  PROVE  \A j \in Items :
           /\ In(j, s) /\ (\A q : Holds(q, j) => InBuffer(q, j)) => OnePlace(j)'
           /\ ~In(j, s) /\ ~In(j, buffer) /\ OnePlace(j) => OnePlace(j)'
           /\ ~In(j, s) /\ NoPlace(j) => NoPlace(j)'
<1> SUFFICES ASSUME NEW j \in Items
    PROVE  /\ In(j, s) /\ (\A q : Holds(q, j) => InBuffer(q, j)) => OnePlace(j)'
           /\ ~In(j, s) /\ ~In(j, buffer) /\ OnePlace(j) => OnePlace(j)'
           /\ ~In(j, s) /\ NoPlace(j) => NoPlace(j)'
  OBVIOUS
<1>1. batch[c] = <<>> /\ ~In(j, <<>>)
  BY DEF BufferInv, Buffer!TypeOK, In
<1>2. \A q : ~InBuffer(q, j)'
  BY DEF InBuffer
<1>3. \A q : InFlight(q, j)' <=> InFlight(q, j) \/ (q = <<"flight", c>> /\ In(j, s))
  BY <1>1 DEF InFlight, BufferInv, Buffer!TypeOK, Buffer!Callers, In
<1>4. \A q : InDelivered(q, j)' = InDelivered(q, j) /\ InHanded(q, j)' = InHanded(q, j)
  BY DEF InDelivered, InHanded, In
<1>5. ASSUME In(j, s), \A q : Holds(q, j) => InBuffer(q, j) PROVE OnePlace(j)'
  <2>1. \A q : ~InFlight(q, j) /\ ~InDelivered(q, j) /\ ~InHanded(q, j)
    BY <1>5, Kinds DEF Holds
  <2>2. \A q : Holds(q, j)' <=> q = <<"flight", c>>
    BY <1>2, <1>3, <1>4, <1>5, <2>1 DEF Holds
  <2>3. Holds(<<"flight", c>>, j)'
    BY <2>2
  <2> QED BY <2>2, <2>3 DEF OnePlace
<1>6. ASSUME ~In(j, s), ~In(j, buffer) PROVE \A q : Holds(q, j)' <=> Holds(q, j)
  <2>1. \A q : ~InBuffer(q, j)
    BY <1>6 DEF InBuffer, In
  <2> QED BY <1>2, <1>3, <1>4, <1>6, <2>1 DEF Holds
<1>7. ASSUME ~In(j, s), NoPlace(j) PROVE NoPlace(j)'
  BY <1>2, <1>3, <1>4, <1>7 DEF Holds, NoPlace
<1>8. ASSUME ~In(j, s), ~In(j, buffer), OnePlace(j) PROVE OnePlace(j)'
  <2>1. \A q : Holds(q, j)' <=> Holds(q, j)
    BY <1>6, <1>8
  <2> QED BY <1>8, <2>1 DEF OnePlace
<1> QED BY <1>5, <1>7, <1>8

\* An item in the buffer is nowhere else.
LEMMA OnlyInBuffer ==
  ASSUME BufferInv, NEW j \in Items, In(j, buffer)
  PROVE  \A q : Holds(q, j) => InBuffer(q, j)
<1>1. PICK n \in 1..Len(buffer) : buffer[n] = j
  BY DEF In
<1>2. InBuffer(<<"buffer", n>>, j)
  BY <1>1 DEF InBuffer
<1>3. OnePlace(j)
  BY <1>2 DEF BufferInv, Kept, Holds, NoPlace
<1> QED BY <1>2, <1>3 DEF OnePlace, Holds

\* What is in the buffer was added.
LEMMA BufferWasAdded ==
  ASSUME BufferInv, NEW j \in Items, In(j, buffer) PROVE In(j, added)
<1>1. PICK n \in 1..Len(buffer) : buffer[n] = j
  BY DEF In
<1>2. InBuffer(<<"buffer", n>>, j)
  BY <1>1 DEF InBuffer
<1> QED BY <1>2 DEF BufferInv, Kept, NoPlace, Holds

\* What a longer sequence holds.
LEMMA InAppend ==
  ASSUME NEW s \in Seq(Items), NEW i \in Items
  PROVE  \A j : In(j, Append(s, i)) <=> In(j, s) \/ j = i
<1> DEFINE z == Append(s, i)
<1>1. /\ z \in Seq(Items) /\ Len(z) = Len(s) + 1 /\ z[Len(s) + 1] = i /\ Len(s) \in Nat
      /\ \A n \in 1..Len(s) : z[n] = s[n]
  BY AppendProperties
<1> HIDE DEF z
<1>2. ASSUME NEW j, In(j, z) PROVE In(j, s) \/ j = i
  <2>1. PICK n \in 1..Len(z) : z[n] = j
    BY <1>2 DEF In
  <2> QED BY <1>1, <2>1 DEF In
<1>3. ASSUME NEW j, In(j, s) PROVE In(j, z)
  <2>1. PICK n \in 1..Len(s) : s[n] = j
    BY <1>3 DEF In
  <2>2. n \in 1..Len(z) /\ z[n] = j
    BY <1>1, <2>1
  <2> QED BY <2>2 DEF In
<1>4. In(i, z)
  <2>1. Len(s) + 1 \in 1..Len(z)
    BY <1>1
  <2> QED BY <1>1, <2>1 DEF In
<1> QED BY <1>2, <1>3, <1>4 DEF z

\* A place in the buffer is a place in what was added.
LEMMA Index ==
  ASSUME NEW a \in Nat, NEW l \in Nat, NEW n \in 1..(l + 1), NEW k \in 0..a,
         k = a - l, n # l + 1
  PROVE  n \in 1..l /\ k + n \in 1..a
  OBVIOUS

\* Add makes the buffer and what was added one longer.
LEMMA Longer ==
  ASSUME NEW a \in Nat, NEW l \in Nat, NEW m \in Nat, NEW k \in 0..a, k = a - l
  PROVE  /\ ~(l + 1 >= m) => l + 1 < m
         /\ l + 1 <= a + 1 /\ k = (a + 1) - (l + 1)
  OBVIOUS

\* Add keeps it, also when it takes the full buffer along.
LEMMA BufferAdd == ASSUME BufferInv, NEW i \in Items, Buffer!Add(i) PROVE BufferInv'
<1> USE DEF Buffer!Callers
<1>1. /\ buffer \in Seq(Items) /\ added \in Seq(Items) /\ delivered \in Seq(Seq(Items))
      /\ batch \in [Buffer!Callers -> Seq(Items)] /\ handed \in SUBSET Seq(Items)
      /\ Len(buffer) \in Nat /\ Len(added) \in Nat
  BY DEF BufferInv, Buffer!TypeOK
<1>2. /\ call[i] = "idle" /\ added' = Append(added, i)
      /\ UNCHANGED <<delivered, handed>>
  BY DEF Buffer!Add
<1>3. /\ \A b \in Seq(Items) : Fits(b) => Fits(b)'
      /\ \A j \in Items : In(j, added)' <=> (In(j, added) \/ j = i)
  BY <1>1, <1>2, Grows
<1>4. PICK s : s = Append(buffer, i)
  OBVIOUS
<1>5. /\ s \in Seq(Items) /\ Len(s) = Len(buffer) + 1 /\ s[Len(buffer) + 1] = i
      /\ \A n \in 1..Len(buffer) : s[n] = buffer[n]
  BY <1>1, <1>4, AppendProperties
<1>6. ASSUME NEW j PROVE In(j, s) <=> In(j, buffer) \/ j = i
  BY <1>1, <1>4, InAppend
<1>7. /\ added' \in Seq(Items) /\ Len(added') = Len(added) + 1
      /\ added'[Len(added) + 1] = i /\ \A n \in 1..Len(added) : added'[n] = added[n]
  BY <1>1, <1>2, AppendProperties
<1>8. PICK k : k = Len(added) - Len(buffer)
  OBVIOUS
<1>9. Buffer!Piece(buffer, k) /\ k \in 0..Len(added) /\ Len(buffer) < BatchLimit
  BY <1>1, <1>8 DEF BufferInv, Ordered
<1>10. Buffer!Piece(s, k)'
  <2>1. DOMAIN s = 1..Len(s) /\ DOMAIN buffer = 1..Len(buffer)
    BY <1>1, <1>5, LenProperties
  <2>2. ASSUME NEW n \in 1..Len(s) PROVE s[n] = added'[k + n]
    <3>1. CASE n = Len(s)
      BY <1>1, <1>5, <1>7, <1>8, <3>1
    <3>2. CASE n # Len(s)
      <4>1. n \in 1..Len(buffer) /\ k + n \in 1..Len(added)
        BY <1>1, <1>5, <1>8, <1>9, <3>2, Index
      <4> QED BY <1>5, <1>7, <1>9, <2>1, <4>1 DEF Buffer!Piece
    <3> QED BY <3>1, <3>2
  <2>3. k + Len(s) <= Len(added')
    BY <1>1, <1>5, <1>7, <1>8
  <2> QED BY <2>1, <2>2, <2>3 DEF Buffer!Piece
<1>11. NoPlace(i) /\ ~In(i, added)
  BY <1>2 DEF BufferInv, Kept, Fresh
<1>12. ~In(i, buffer)
  BY <1>11 DEF NoPlace, Holds, InBuffer, In
<1>13. Fresh'
  <2>1. \A j \in Items : call'[j] = IF j = i THEN call'[i] ELSE call[j]
    BY DEF Buffer!Add, BufferInv, Buffer!TypeOK
  <2>2. call'[i] # "idle"
    BY DEF Buffer!Add, BufferInv, Buffer!TypeOK
  <2> QED BY <1>3, <2>1, <2>2 DEF Fresh, BufferInv
<1>14. \A n \in 1..Len(delivered') : Fits(delivered[n])'
  <2> SUFFICES ASSUME NEW n \in 1..Len(delivered') PROVE Fits(delivered[n])'
    OBVIOUS
  <2>1. PICK b : b = delivered[n]
    OBVIOUS
  <2>2. b \in Seq(Items) /\ delivered'[n] = b /\ Fits(b)
    BY <1>1, <1>2, <2>1 DEF BufferInv, Ordered
  <2> QED BY <1>3, <2>2
<1>15. \A b \in handed' : Fits(b)'
  BY <1>1, <1>2, <1>3 DEF BufferInv, Ordered
<1>20. CASE Len(buffer) + 1 >= BatchLimit
  <2>1. /\ batch' = [batch EXCEPT ![i] = s] /\ buffer' = <<>>
        /\ call' = [call EXCEPT ![i] = "flushing"]
    BY <1>4, <1>20 DEF Buffer!Add
  <2>2. Fits(s)'
    <3>1. k \in 0..Len(added') /\ Len(s) <= BatchLimit
      BY <1>1, <1>5, <1>7, <1>9, RuntimeAssumption DEF RuntimeAssumption
    <3> QED BY <1>10, <3>1 DEF Fits
  <2>3. Buffer!TypeOK'
    <3>1. s # <<>>
      BY <1>1, <1>5
    <3> QED BY <1>1, <1>2, <1>5, <1>7, <2>1, <3>1 DEF BufferInv, Buffer!TypeOK
  <2>4. Ordered'
    <3>1. Len(buffer') = 0 /\ Len(buffer') < BatchLimit /\ Len(buffer') <= Len(added')
      BY <1>1, <1>7, <2>1, RuntimeAssumption DEF RuntimeAssumption
    <3>2. Buffer!Piece(buffer, Len(added) - Len(buffer))'
      BY <1>1, <1>7, <2>1, <3>1 DEF Buffer!Piece
    <3>3. ASSUME NEW c \in Buffer!Callers PROVE Fits(batch[c])'
      <4>1. CASE c = i
        BY <1>1, <2>1, <2>2, <4>1
      <4>2. CASE c # i
        <5>1. PICK b : b = batch[c]
          OBVIOUS
        <5>2. b \in Seq(Items) /\ batch'[c] = b /\ Fits(b)
          BY <1>1, <2>1, <4>2, <5>1 DEF BufferInv, Ordered
        <5> QED BY <1>3, <5>2
      <4> QED BY <4>1, <4>2
    <3> QED BY <1>14, <1>15, <3>1, <3>2, <3>3 DEF Ordered
  <2>5. Kept'
    <3> SUFFICES ASSUME NEW j \in Items
        PROVE  (In(j, added)' => OnePlace(j)') /\ (~In(j, added)' => NoPlace(j)')
      BY DEF Kept
    <3>0. /\ In(j, s) /\ (\A q : Holds(q, j) => InBuffer(q, j)) => OnePlace(j)'
          /\ ~In(j, s) /\ ~In(j, buffer) /\ OnePlace(j) => OnePlace(j)'
          /\ ~In(j, s) /\ NoPlace(j) => NoPlace(j)'
      BY <1>2, <1>5, <2>1, SwapOut
    <3>1. CASE j = i
      BY <1>3, <1>6, <1>11, <3>0, <3>1 DEF NoPlace
    <3>2. CASE j # i /\ In(j, buffer)
      <4>1. \A q : Holds(q, j) => InBuffer(q, j)
        BY <3>2, OnlyInBuffer
      <4>2. In(j, added)
        BY <3>2, <4>1, BufferWasAdded
      <4> QED BY <1>3, <1>6, <3>0, <3>2, <4>1, <4>2
    <3>3. CASE j # i /\ ~In(j, buffer)
      BY <1>3, <1>6, <3>0, <3>3 DEF BufferInv, Kept
    <3> QED BY <3>1, <3>2, <3>3
  <2> QED BY <1>13, <2>3, <2>4, <2>5 DEF BufferInv
<1>30. CASE ~(Len(buffer) + 1 >= BatchLimit)
  <2>1. /\ buffer' = s /\ batch' = batch
        /\ call' = [call EXCEPT ![i] = "returned"]
    BY <1>4, <1>30 DEF Buffer!Add
  <2>3. Buffer!TypeOK'
    <3>1. batch[i] = <<>>
      BY <1>2 DEF BufferInv, Buffer!TypeOK
    <3> QED BY <1>1, <1>2, <1>5, <1>7, <2>1, <3>1 DEF BufferInv, Buffer!TypeOK
  <2>4. Ordered'
    <3>1. /\ Len(buffer') < BatchLimit /\ Len(buffer') <= Len(added')
          /\ k = Len(added') - Len(buffer')
      <4>1. BatchLimit \in Nat
        BY RuntimeAssumption DEF RuntimeAssumption
      <4> QED BY <1>1, <1>5, <1>7, <1>8, <1>9, <1>30, <2>1, <4>1, Longer
    <3>2. Buffer!Piece(buffer, Len(added) - Len(buffer))'
      BY <1>10, <2>1, <3>1 DEF Buffer!Piece
    <3>3. ASSUME NEW c \in Buffer!Callers PROVE Fits(batch[c])'
      <4>1. PICK b : b = batch[c]
        OBVIOUS
      <4>2. b \in Seq(Items) /\ batch'[c] = b /\ Fits(b)
        BY <1>1, <2>1, <4>1 DEF BufferInv, Ordered
      <4> QED BY <1>3, <4>2
    <3> QED BY <1>14, <1>15, <3>1, <3>2, <3>3 DEF Ordered
  <2>5. Kept'
    <3> SUFFICES ASSUME NEW j \in Items
        PROVE  (In(j, added)' => OnePlace(j)') /\ (~In(j, added)' => NoPlace(j)')
      BY DEF Kept
    <3>0. \A q : (InFlight(q, j) \/ InDelivered(q, j) \/ InHanded(q, j))'
             <=> InFlight(q, j) \/ InDelivered(q, j) \/ InHanded(q, j)
      BY <1>2, <2>1 DEF InFlight, InDelivered, InHanded, In
    <3>4. \A n \in 1..Len(s) : n = Len(s) \/ n \in 1..Len(buffer)
      BY <1>1, <1>5
    <3>1. CASE j = i
      <4>0. \A n \in 1..Len(buffer) : buffer[n] # i
        BY <1>12 DEF In
      <4>1. PICK p : p = <<"buffer", Len(s)>>
        OBVIOUS
      <4>2. \A n \in 1..Len(s) : s[n] = i <=> n = Len(s)
        BY <1>1, <1>5, <3>4, <4>0
      <4>3. \A q : InBuffer(q, j)' <=> q = p
        <5>1. Len(s) \in 1..Len(s)
          BY <1>1, <1>5
        <5> QED BY <2>1, <3>1, <4>1, <4>2, <5>1 DEF InBuffer
      <4>4. \A q : Holds(q, j)' <=> q = p
        BY <1>11, <3>0, <3>1, <4>3 DEF Holds, NoPlace
      <4>6. OnePlace(j)'
        BY <4>4 DEF OnePlace
      <4> QED BY <1>3, <3>1, <4>6
    <3>2. CASE j # i
      <4>1. \A q : InBuffer(q, j)' <=> InBuffer(q, j)
        <5>1. \A n : n \in 1..Len(s) /\ s[n] = j <=> n \in 1..Len(buffer) /\ buffer[n] = j
          BY <1>1, <1>5, <3>2, <3>4
        <5> QED BY <2>1, <5>1 DEF InBuffer
      <4>2. \A q : Holds(q, j)' <=> Holds(q, j)
        BY <3>0, <4>1 DEF Holds
      <4>3. (NoPlace(j) => NoPlace(j)') /\ (OnePlace(j) => OnePlace(j)')
        BY <4>2 DEF NoPlace, OnePlace
      <4> QED BY <1>3, <3>2, <4>3 DEF BufferInv, Kept
    <3> QED BY <3>1, <3>2
  <2> QED BY <1>13, <2>3, <2>4, <2>5 DEF BufferInv
<1> QED BY <1>20, <1>30

\* Flush, FlushAndWait and Close keep it.
LEMMA BufferFlush == ASSUME BufferInv, NEW f \in Flushers, Buffer!Flush(f) PROVE BufferInv'
<1> USE DEF Buffer!Callers
<1>1. /\ buffer \in Seq(Items) /\ added \in Seq(Items) /\ delivered \in Seq(Seq(Items))
      /\ batch \in [Buffer!Callers -> Seq(Items)]
  BY DEF BufferInv, Buffer!TypeOK
<1>2. /\ call[f] = "idle" /\ buffer # <<>> /\ batch' = [batch EXCEPT ![f] = buffer]
      /\ buffer' = <<>> /\ call' = [call EXCEPT ![f] = "flushing"]
      /\ UNCHANGED <<delivered, handed, added>>
  BY DEF Buffer!Flush
<1>3. Buffer!TypeOK'
  BY <1>1, <1>2 DEF BufferInv, Buffer!TypeOK
<1>4. Fresh'
  BY <1>2, RuntimeAssumption
    DEF BufferInv, Fresh, Buffer!TypeOK, RuntimeAssumption, In
<1>5. \A b : Fits(b)' <=> Fits(b)
  BY <1>2 DEF Fits, Buffer!Piece
<1>6. Ordered'
  <2>1. Len(buffer') = 0 /\ Len(added') \in Nat /\ BatchLimit \in Nat \ {0}
    BY <1>1, <1>2, RuntimeAssumption DEF RuntimeAssumption
  <2>2. Buffer!Piece(buffer, Len(added) - Len(buffer))'
    BY <1>2, <2>1 DEF Buffer!Piece
  <2>3. PICK k : k = Len(added) - Len(buffer)
    OBVIOUS
  <2>4. k \in 0..Len(added) /\ Len(buffer) <= BatchLimit /\ Buffer!Piece(buffer, k)
    BY <1>1, <2>1, <2>3 DEF BufferInv, Ordered
  <2>5. Fits(buffer)
    BY <2>4 DEF Fits
  <2>6. \A c \in Buffer!Callers : Fits(batch[c])'
    BY <1>1, <1>2, <1>5, <2>5 DEF BufferInv, Ordered
  <2>7. \A n \in 1..Len(delivered') : Fits(delivered[n])'
    BY <1>2, <1>5 DEF BufferInv, Ordered
  <2> QED BY <1>2, <1>5, <2>1, <2>2, <2>6, <2>7 DEF BufferInv, Ordered
<1>7. Kept'
  <2> SUFFICES ASSUME NEW j \in Items
      PROVE  (In(j, added)' => OnePlace(j)') /\ (~In(j, added)' => NoPlace(j)')
    BY DEF Kept
  <2>1. /\ In(j, buffer) /\ (\A q : Holds(q, j) => InBuffer(q, j)) => OnePlace(j)'
        /\ ~In(j, buffer) /\ OnePlace(j) => OnePlace(j)'
        /\ ~In(j, buffer) /\ NoPlace(j) => NoPlace(j)'
    BY <1>1, <1>2, SwapOut
  <2>2. In(j, added)' <=> In(j, added)
    BY <1>2 DEF In
  <2>3. CASE In(j, buffer)
    BY <2>1, <2>2, <2>3, OnlyInBuffer, BufferWasAdded
  <2>4. CASE ~In(j, buffer)
    BY <2>1, <2>2, <2>4 DEF BufferInv, Kept
  <2> QED BY <2>3, <2>4
<1> QED BY <1>3, <1>4, <1>6, <1>7 DEF BufferInv

\* An item in flight with c is nowhere else.
LEMMA OnlyInFlight ==
  ASSUME BufferInv, NEW j \in Items, NEW c \in Buffer!Callers, In(j, batch[c])
  PROVE  /\ \A q : Holds(q, j) <=> q = <<"flight", c>>
         /\ In(j, added)
<1>1. InFlight(<<"flight", c>>, j)
  BY DEF InFlight
<1>2. Holds(<<"flight", c>>, j)
  BY <1>1 DEF Holds
<1> QED BY <1>2 DEF OnePlace, NoPlace, BufferInv, Kept

\* A batch that is handed over or delivered moves to one new place.
LEMMA BufferReturns ==
  ASSUME BufferInv, NEW c \in Buffer!Callers, Buffer!FlushReturns(c) PROVE BufferInv'
<1>1. /\ buffer \in Seq(Items) /\ added \in Seq(Items) /\ delivered \in Seq(Seq(Items))
      /\ batch \in [Buffer!Callers -> Seq(Items)] /\ handed \in SUBSET Seq(Items)
      /\ Len(delivered) \in Nat
  BY DEF BufferInv, Buffer!TypeOK
<1>2. PICK s : s = batch[c]
  OBVIOUS
<1>3. /\ call[c] = "flushing" /\ batch' = [batch EXCEPT ![c] = <<>>]
      /\ call' = [call EXCEPT ![c] = IF c \in Flushers THEN "idle" ELSE "returned"]
      /\ UNCHANGED <<buffer, added>> /\ s \in Seq(Items) /\ Fits(s)
  BY <1>1, <1>2 DEF Buffer!FlushReturns, BufferInv, Ordered
<1>4. \/ delivered' = Append(delivered, s) /\ handed' = handed
      \/ handed' = handed \cup {s} /\ delivered' = delivered
  BY <1>2 DEF Buffer!FlushReturns
<1>a. delivered' \in Seq(Seq(Items))
  <2>1. Append(delivered, s) \in Seq(Seq(Items))
    BY <1>1, <1>3, AppendProperties
  <2> QED BY <1>1, <1>4, <2>1
<1>5. delivered' \in Seq(Seq(Items)) /\ handed' \in SUBSET Seq(Items)
  BY <1>1, <1>3, <1>4, <1>a
<1>6. Buffer!TypeOK'
  BY <1>1, <1>3, <1>5 DEF BufferInv, Buffer!TypeOK
<1>7. Fresh'
  <2>1. \A i \in Items : i \notin Flushers /\ i \in Buffer!Callers
    BY RuntimeAssumption DEF RuntimeAssumption, Buffer!Callers
  <2>2. \A i \in Items : In(i, added)' <=> In(i, added)
    BY <1>3 DEF In
  <2>3. \A i \in Items : call'[i] = "idle" <=> call[i] = "idle"
    BY <1>3, <2>1 DEF BufferInv, Buffer!TypeOK
  <2> QED BY <2>2, <2>3 DEF BufferInv, Fresh
<1>8. \A b : Fits(b)' <=> Fits(b)
  BY <1>3 DEF Fits, Buffer!Piece
<1>9. \A n \in 1..Len(delivered') : delivered'[n] = s \/ (n \in 1..Len(delivered) /\ delivered'[n] = delivered[n])
  <2>1. CASE delivered' = delivered
    BY <2>1
  <2>2. CASE delivered' = Append(delivered, s)
    <3>1. /\ Len(delivered') = Len(delivered) + 1 /\ delivered'[Len(delivered) + 1] = s
          /\ \A n \in 1..Len(delivered) : delivered'[n] = delivered[n]
      BY <1>1, <1>3, <2>2, AppendProperties
    <3>2. \A n \in 1..(Len(delivered) + 1) : n = Len(delivered) + 1 \/ n \in 1..Len(delivered)
      BY <1>1
    <3> QED BY <3>1, <3>2
  <2> QED BY <1>4, <2>1, <2>2
<1>10. Ordered'
  <2>1. \A n \in 1..Len(delivered') : Fits(delivered[n])'
    BY <1>3, <1>8, <1>9 DEF BufferInv, Ordered
  <2>2. \A b \in handed' : Fits(b)'
    BY <1>3, <1>4, <1>8 DEF BufferInv, Ordered
  <2>3. Fits(<<>>)
    <3>1. /\ 0 \in 0..Len(added) /\ Len(<<>>) = 0 /\ DOMAIN <<>> = {}
          /\ 0 + 0 <= Len(added) /\ 0 <= BatchLimit
      BY <1>1, RuntimeAssumption DEF RuntimeAssumption
    <3>2. Buffer!Piece(<<>>, 0)
      BY <3>1 DEF Buffer!Piece
    <3> QED BY <3>1, <3>2 DEF Fits
  <2>4. \A d \in Buffer!Callers : Fits(batch[d])'
    BY <1>1, <1>3, <1>8, <2>3 DEF BufferInv, Ordered
  <2>5. Buffer!Piece(buffer, Len(added) - Len(buffer))'
    BY <1>3 DEF BufferInv, Ordered, Buffer!Piece
  <2> QED BY <1>3, <2>1, <2>2, <2>4, <2>5 DEF BufferInv, Ordered
<1>11. Kept'
  <2> SUFFICES ASSUME NEW j \in Items
      PROVE  (In(j, added)' => OnePlace(j)') /\ (~In(j, added)' => NoPlace(j)')
    BY DEF Kept
  <2>1. In(j, added)' <=> In(j, added)
    BY <1>3 DEF In
  <2>2. \A q : InBuffer(q, j)' <=> InBuffer(q, j)
    BY <1>3 DEF InBuffer
  <2>3. \A q : InFlight(q, j)' <=> InFlight(q, j) /\ q # <<"flight", c>>
    <3>1. \A d \in Buffer!Callers : In(j, batch'[d]) <=> d # c /\ In(j, batch[d])
      BY <1>1, <1>3 DEF In
    <3> QED BY <3>1 DEF InFlight, Buffer!Callers
  <2>5. ASSUME ~In(j, s)
        PROVE  \A q : /\ InDelivered(q, j)' <=> InDelivered(q, j)
                      /\ InHanded(q, j)' <=> InHanded(q, j)
    <3>1. \A q : InHanded(q, j)' <=> InHanded(q, j)
      BY <1>4, <2>5 DEF InHanded
    <3>2. \A q : InDelivered(q, j)' <=> InDelivered(q, j)
      <4>1. CASE delivered' = delivered
        BY <4>1 DEF InDelivered
      <4>2. CASE delivered' = Append(delivered, s)
        <5>1. /\ Len(delivered') = Len(delivered) + 1
              /\ delivered'[Len(delivered) + 1] = s
              /\ \A n \in 1..Len(delivered) : delivered'[n] = delivered[n]
          BY <1>1, <1>3, <4>2, AppendProperties
        <5>2. \A n : n \in 1..Len(delivered') /\ In(j, delivered'[n])
                       <=> n \in 1..Len(delivered) /\ In(j, delivered[n])
          BY <1>1, <1>9, <2>5, <5>1
        <5> QED BY <5>2 DEF InDelivered
      <4> QED BY <1>4, <4>1, <4>2
    <3> QED BY <3>1, <3>2
  <2>6. CASE In(j, s)
    <3>1. /\ \A q : Holds(q, j) <=> q = <<"flight", c>>
          /\ In(j, added)
      BY <1>2, <2>6, OnlyInFlight
    <3>2. \A q : /\ ~InBuffer(q, j) /\ ~InDelivered(q, j) /\ ~InHanded(q, j)
                 /\ ~InFlight(q, j)'
      <4>1. InFlight(<<"flight", c>>, j)
        BY <1>2, <2>6 DEF InFlight
      <4> QED BY <2>3, <3>1, <4>1, Kinds DEF Holds
    <3>3. CASE delivered' = Append(delivered, s) /\ handed' = handed
      <4>1. /\ Len(delivered') = Len(delivered) + 1
            /\ delivered'[Len(delivered) + 1] = s
            /\ \A n \in 1..Len(delivered) : delivered'[n] = delivered[n]
        BY <1>1, <1>3, <3>3, AppendProperties
      <4>2. \A n \in 1..Len(delivered) : ~In(j, delivered[n])
        BY <3>2 DEF InDelivered
      <4>0. PICK m : m = Len(delivered) + 1
        OBVIOUS
      <4>c. \A n : n \in 1..Len(delivered') <=> n = m \/ n \in 1..Len(delivered)
        BY <1>1, <4>0, <4>1
      <4>3. \A n : n \in 1..Len(delivered') /\ In(j, delivered'[n]) <=> n = m
        BY <2>6, <4>0, <4>1, <4>2, <4>c
      <4>4. \A q : InDelivered(q, j)' <=> q = <<"delivered", m>>
        BY <4>3 DEF InDelivered
      <4>5. \A q : ~InHanded(q, j)'
        BY <3>2, <3>3 DEF InHanded
      <4>6. \A q : Holds(q, j)' <=> q = <<"delivered", m>>
        BY <2>2, <3>2, <4>4, <4>5 DEF Holds
      <4>7. Holds(<<"delivered", m>>, j)'
        BY <4>6
      <4> QED BY <2>1, <3>1, <4>6, <4>7 DEF OnePlace
    <3>4. CASE handed' = handed \cup {s} /\ delivered' = delivered
      <4>1. \A q : ~InDelivered(q, j)'
        BY <3>2, <3>4 DEF InDelivered
      <4>2. \A b \in handed : ~In(j, b)
        BY <3>2 DEF InHanded
      <4>3. \A q : InHanded(q, j)' <=> q = <<"handed", s>>
        BY <2>6, <3>4, <4>2 DEF InHanded
      <4>4. \A q : Holds(q, j)' <=> q = <<"handed", s>>
        BY <2>2, <3>2, <4>1, <4>3 DEF Holds
      <4>5. Holds(<<"handed", s>>, j)'
        BY <4>4
      <4> QED BY <2>1, <3>1, <4>4, <4>5 DEF OnePlace
    <3> QED BY <1>4, <3>3, <3>4
  <2>7. CASE ~In(j, s)
    <3>1. ~InFlight(<<"flight", c>>, j)
      BY <1>2, <2>7 DEF InFlight
    <3>2. \A q : Holds(q, j)' <=> Holds(q, j)
      BY <2>2, <2>3, <2>5, <2>7, <3>1 DEF Holds
    <3>3. (NoPlace(j) => NoPlace(j)') /\ (OnePlace(j) => OnePlace(j)')
      BY <3>2 DEF NoPlace, OnePlace
    <3> QED BY <2>1, <3>3 DEF BufferInv, Kept
  <2> QED BY <2>6, <2>7
<1> QED BY <1>6, <1>7, <1>10, <1>11 DEF BufferInv

\* All the steps keep it.
LEMMA BufferNext == BufferInv /\ Buffer!Next => BufferInv'
  BY BufferAdd, BufferFlush, BufferReturns DEF Buffer!Next

\* BatchBuffer: for every number of items, flushers and every limit, an item that
\* was added is in one place, and batches are contiguous pieces within the limit.
THEOREM BufferIsSound == FairSpec => []BufferSound
<1>1. Init => BufferInv
  BY BufferInit DEF Init
<1>2. BufferInv /\ [Next]_vars => BufferInv'
  BY BufferNext, BufferStays DEF Next, vars
<1>3. BufferInv => BufferSound
  BY BufferSafe
<1> QED
  BY <1>1, <1>2, <1>3, PTL DEF FairSpec
=============================================================================
