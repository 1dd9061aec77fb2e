------------------------------ MODULE MCRuntime ------------------------------
(***************************************************************************)
(* What a running program leans on, for TLC: Runner and BatchBuffer of     *)
(* platform/async, the Cache of platform/cache, the run lock with its      *)
(* signal goroutines (platform/runstate) and the workflow that executes    *)
(* inside it (platform/workflow).  They share nothing, so a behaviour      *)
(* exercises one of them and the run explores their state spaces side by   *)
(* side.                                                                   *)
(***************************************************************************)
EXTENDS Naturals, FiniteSets

CONSTANTS
  Tasks, Slots,                  \* Runner: Submit calls, concurrency limit
  Items, Flushers, BatchLimit,   \* BatchBuffer
  Keys, Getters,                 \* Cache
  MaxTTL, MaxTime,               \* Cache, bounds: durations and the clock
  Procs, Subjects, None,         \* RunLock
  MaxCalls, MaxRuns, MaxSignals, MaxKills,
  MaxSteps                       \* Workflow

ASSUME RuntimeAssumption ==
  /\ IsFiniteSet(Tasks) /\ Slots \in Nat
  /\ IsFiniteSet(Items) /\ IsFiniteSet(Flushers) /\ Items \cap Flushers = {}
  /\ BatchLimit \in Nat \ {0}
  /\ MaxTTL \in Nat /\ MaxTime \in Nat \ {0}
  /\ IsFiniteSet(Procs) /\ IsFiniteSet(Subjects)
  /\ None \notin Procs \X Subjects \X (1..MaxCalls)
  /\ MaxCalls \in Nat /\ MaxRuns \in Nat
  /\ MaxSignals \in Nat /\ MaxKills \in Nat
  /\ MaxSteps \in Nat

VARIABLES
  active,   \* the component this behaviour is about
  status, tasks, submit, worker, sem, parked, closed, janitor, closing, ran,
  refused,
  buffer, call, batch, delivered, handed, added,
  cached, now, get, sweeper, cancelled, cacheClosing, lost,
  onSignal, file, pc, handler, registered, pending, removed, fate, signals,
  kills,
  steps, at, results, err, hooks, stopped, overrun

ofRunner == <<status, tasks, submit, worker, sem, parked, closed, janitor,
              closing, ran, refused>>
ofBuffer == <<buffer, call, batch, delivered, handed, added>>
ofCache == <<cached, now, get, sweeper, cancelled, cacheClosing, lost>>
ofLock == <<onSignal, file, pc, handler, registered, pending, removed, fate,
            signals, kills>>
ofFlow == <<steps, at, results, err, hooks, stopped, overrun>>
vars == <<active, ofRunner, ofBuffer, ofCache, ofLock, ofFlow>>

Runner == INSTANCE AsyncRunner WITH Limit <- Slots, Janitor <- TRUE, Goexit <- TRUE
Buffer == INSTANCE BatchBuffer WITH Limit <- BatchLimit, items <- buffer
Cache == INSTANCE TTLCache WITH Worker <- TRUE, items <- cached, worker <- sweeper,
                                closing <- cacheClosing
Lock == INSTANCE RunLock
Flow == INSTANCE Workflow WITH pc <- at, cancelled <- stopped

\* The parts that this behaviour is not about stay in one initial state.
Init == /\ active \in {"runner", "buffer", "cache", "lock", "flow"}
        /\ Runner!Init /\ Buffer!Init /\ Cache!Init
        /\ Lock!Init /\ (active = "lock" \/ onSignal = FALSE)
        /\ Flow!Init /\ (active = "flow" \/ steps = <<>>)

Next == \/ /\ active = "runner" /\ Runner!Next
           /\ UNCHANGED <<active, ofBuffer, ofCache, ofLock, ofFlow>>
        \/ /\ active = "buffer" /\ Buffer!Next
           /\ UNCHANGED <<active, ofRunner, ofCache, ofLock, ofFlow>>
        \/ /\ active = "cache" /\ Cache!Next
           /\ UNCHANGED <<active, ofRunner, ofBuffer, ofLock, ofFlow>>
        \/ /\ active = "lock" /\ Lock!Next
           /\ UNCHANGED <<active, ofRunner, ofBuffer, ofCache, ofFlow>>
        \/ /\ active = "flow" /\ Flow!Next
           /\ UNCHANGED <<active, ofRunner, ofBuffer, ofCache, ofLock>>

\* Each component's Fairness, asked for only when it is the one that runs.
FairSpec ==
  /\ Init /\ [][Next]_vars
  /\ \A t \in Tasks : /\ WF_ofRunner(active = "runner" /\ Runner!SubmitStep(t))
                      /\ WF_ofRunner(active = "runner" /\ Runner!ExecStep(t))
  /\ WF_ofRunner(active = "runner" /\ Runner!CloseReturn)
  /\ SF_ofRunner(active = "runner" /\ Runner!JanitorStep /\ janitor' = "exited")
  /\ \A g \in Getters : WF_ofCache(active = "cache" /\ Cache!GetStep(g))
  /\ WF_ofCache(active = "cache" /\ Cache!WorkerTick)
  /\ WF_ofCache(active = "cache" /\ Cache!WorkerExit)
  /\ WF_ofCache(active = "cache" /\ Cache!CloseReturn)
  /\ \A r \in Lock!Runs : WF_ofLock(active = "lock" /\ Lock!HandlerStep(r))
-----------------------------------------------------------------------------
\* Runner: one slot of r.sem per task let in, Submit sleeps only on a full
\* and open runner, and a task refused by a closed runner never runs.
RunnerSound == /\ Runner!Sound
               /\ Runner!SleepOnlyWhenFull
               /\ Runner!RefusedNeverRuns
\* Runner: Submit and execute come to an end for every task, and Close
\* returns.
RunnerEnds == Runner!EveryTaskFinishes /\ Runner!CloseReturns

\* BatchBuffer: no item is lost or repeated, batches are contiguous pieces.
BufferSound == Buffer!Sound

\* Cache: Close waits for the cleanup worker, and no live entry is dropped
\* but by the eviction race in Get.
CacheSound == Cache!Sound /\ Cache!LiveLossNeedsRace
\* Cache: the worker removes what has expired.
ExpiredIsRemoved == Cache!ExpiredIsRemoved

\* Locker: a run that has not given its file up finds it in place, and an
\* interrupt strands a lock in two places only.
LockSound == Lock!Sound /\ Lock!StrayOnlyAtTheEdges
\* Locker, reraise: a caught signal ends the process.
SignalEndsProcess == Lock!SignalEndsProcess

\* Workflow.RunWithResult: a finished run accounts for every step, its hooks
\* tell the same, at most one step starts after the context is done, and
\* DryRun foretells what an uninterrupted run does.
FlowSound == Flow!Sound /\ Flow!PlanHolds
=============================================================================
