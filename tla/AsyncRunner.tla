----------------------------- MODULE AsyncRunner -----------------------------
(***************************************************************************)
(* platform/async: Runner, the in-memory task runner.  Submit is called    *)
(* concurrently, once per task; every accepted task runs in a goroutine of *)
(* its own; a janitor prunes finished tasks; Close and the base context    *)
(* cancel everything.  Critical sections under r.mu are single steps.      *)
(* The channel r.sem is modelled with Go's semantics: a select with no     *)
(* ready case parks its goroutine in both channels, and whichever becomes  *)
(* ready first is the case it wakes up with.                               *)
(***************************************************************************)
EXTENDS Naturals, Sequences, FiniteSets

CONSTANTS
  Tasks,    \* one per call of Submit
  Limit,    \* capacity of r.sem; 0 means no semaphore at all
  Janitor,  \* WithJanitor was given a positive interval
  Goexit    \* a task function may end its goroutine with runtime.Goexit

VARIABLES
  status,   \* Task.Status ("none": not submitted yet)
  tasks,    \* the keys of r.tasks
  submit,   \* where the Submit call of each task stands
  worker,   \* where the execute goroutine of each task stands
  sem,      \* number of values in r.sem
  parked,   \* Submit calls asleep in the select, oldest first
  closed,   \* r.ctx is cancelled
  janitor,  \* the janitor goroutine: "off", "loop" or "exited"
  closing,  \* the Close call: "none", "wait" or "returned"
  ran,      \* history: tasks whose function was called
  refused   \* history: tasks that were asleep in the select, or not yet
            \* submitted, when r.ctx was cancelled

vars == <<status, tasks, submit, worker, sem, parked, closed, janitor, closing,
          ran, refused>>

Finished(t) == status[t] \in {"done", "failed"}

Init == /\ status = [t \in Tasks |-> "none"]
        /\ tasks = {}
        /\ submit = [t \in Tasks |-> "idle"]
        /\ worker = [t \in Tasks |-> "none"]
        /\ sem = 0 /\ parked = <<>>
        /\ closed = FALSE
        /\ janitor = IF Janitor THEN "loop" ELSE "off"
        /\ closing = "none"
        /\ ran = {} /\ refused = {}

-----------------------------------------------------------------------------
\* Submit records the task as pending.
Submit(t) ==
  /\ submit[t] = "idle"
  /\ status' = [status EXCEPT ![t] = "pending"]
  /\ tasks' = tasks \cup {t}
  /\ submit' = [submit EXCEPT ![t] = "check"]
  /\ UNCHANGED <<worker, sem, parked, closed, janitor, closing, ran, refused>>

\* The priority check on r.ctx.Err().
SubmitCheck(t) ==
  /\ submit[t] = "check"
  /\ submit' = [submit EXCEPT ![t] =
                  IF closed THEN "fail" ELSE IF Limit = 0 THEN "go" ELSE "select"]
  /\ UNCHANGED <<status, tasks, worker, sem, parked, closed, janitor, closing,
                 ran, refused>>

\* The select on r.sem and r.ctx.Done(): a random ready case, or sleep.
SubmitSelect(t) ==
  /\ submit[t] = "select"
  /\ \/ /\ sem < Limit
        /\ sem' = sem + 1
        /\ submit' = [submit EXCEPT ![t] = "go"]
        /\ UNCHANGED parked
     \/ /\ closed
        /\ submit' = [submit EXCEPT ![t] = "fail"]
        /\ UNCHANGED <<sem, parked>>
     \/ /\ sem = Limit /\ ~closed
        /\ submit' = [submit EXCEPT ![t] = "parked"]
        /\ parked' = Append(parked, t)
        /\ UNCHANGED sem
  /\ UNCHANGED <<status, tasks, worker, closed, janitor, closing, ran,
                 refused>>

\* go r.execute(t, fn); Submit returns the task ID.
SubmitGo(t) ==
  /\ submit[t] = "go"
  /\ submit' = [submit EXCEPT ![t] = "returned"]
  /\ worker' = [worker EXCEPT ![t] = "start"]
  /\ UNCHANGED <<status, tasks, sem, parked, closed, janitor, closing, ran,
                 refused>>

\* failTask: the runner was closed before the task started.
SubmitFail(t) ==
  /\ submit[t] = "fail"
  /\ submit' = [submit EXCEPT ![t] = "returned"]
  /\ status' = [status EXCEPT ![t] = "failed"]
  /\ UNCHANGED <<tasks, worker, sem, parked, closed, janitor, closing, ran,
                 refused>>

-----------------------------------------------------------------------------
\* execute: the task is running, and the function is called.
ExecStart(t) ==
  /\ worker[t] = "start"
  /\ worker' = [worker EXCEPT ![t] = "fn"]
  /\ status' = [status EXCEPT ![t] = "running"]
  /\ ran' = ran \cup {t}
  /\ UNCHANGED <<tasks, submit, sem, parked, closed, janitor, closing,
                 refused>>

\* Mutation of ExecFinish: the slot is released after fn, not deferred.
ExecFinishNoDefer(t) ==
  /\ worker[t] = "fn"
  /\ \/ /\ worker' = [worker EXCEPT ![t] = "defer"]
        /\ status' = [status EXCEPT ![t] = "done"]
     \/ /\ worker' = [worker EXCEPT ![t] = "gone"]
        /\ status' = [status EXCEPT ![t] = "failed"]
  /\ UNCHANGED <<tasks, submit, sem, parked, closed, janitor, closing, ran,
                 refused>>

\* The function returns data or an error, or panics and the deferred recover
\* records the failure.  After runtime.Goexit recover sees nothing.
ExecFinish(t) ==
  /\ worker[t] = "fn"
  /\ worker' = [worker EXCEPT ![t] = "defer"]
  /\ \/ status' = [status EXCEPT ![t] = "done"]
     \/ status' = [status EXCEPT ![t] = "failed"]
     \/ Goexit /\ UNCHANGED status
  /\ UNCHANGED <<tasks, submit, sem, parked, closed, janitor, closing, ran,
                 refused>>

\* Mutation of ExecRelease: the semaphore is never received from.
ExecKeepsSlot(t) ==
  /\ worker[t] = "defer"
  /\ worker' = [worker EXCEPT ![t] = "gone"]
  /\ UNCHANGED <<status, tasks, submit, sem, parked, closed, janitor, closing,
                 ran, refused>>

\* execute's first defer, run last: <-r.sem.  A receive from a full channel
\* hands the freed slot to the sender that has slept longest.
ExecRelease(t) ==
  /\ worker[t] = "defer"
  /\ worker' = [worker EXCEPT ![t] = "gone"]
  /\ IF parked # <<>>
       THEN /\ submit' = [submit EXCEPT ![Head(parked)] = "go"]
            /\ parked' = Tail(parked)
            /\ UNCHANGED sem
       ELSE /\ sem' = IF Limit = 0 THEN sem ELSE sem - 1
            /\ UNCHANGED <<submit, parked>>
  /\ UNCHANGED <<status, tasks, closed, janitor, closing, ran, refused>>

-----------------------------------------------------------------------------
\* r.cancel(), or a cancelled base context: the closed Done channel wakes
\* everybody asleep in the select with that case.
Cancel ==
  /\ closed' = TRUE
  /\ submit' = [t \in Tasks |-> IF submit[t] = "parked" THEN "fail" ELSE submit[t]]
  /\ parked' = <<>>
  /\ refused' = IF closed THEN refused
                ELSE {t \in Tasks : submit[t] \in {"idle", "parked"}}

\* The base context of WithBaseContext is cancelled from outside.
CancelBase ==
  /\ ~closed
  /\ Cancel
  /\ UNCHANGED <<status, tasks, worker, sem, janitor, closing, ran>>

\* Close: cancel, then r.wg.Wait() for the janitor.
Close ==
  /\ closing = "none"
  /\ Cancel
  /\ closing' = "wait"
  /\ UNCHANGED <<status, tasks, worker, sem, janitor, ran>>

CloseReturn ==
  /\ closing = "wait"
  /\ janitor # "loop"
  /\ closing' = "returned"
  /\ UNCHANGED <<status, tasks, submit, worker, sem, parked, closed, janitor,
                 ran, refused>>

\* Prune removes finished tasks older than the cutoff; which ones are old
\* enough is the clock's business.
RemoveOld == \E S \in SUBSET {t \in tasks : Finished(t)} : tasks' = tasks \ S

\* Prune called by a user of the runner.
Prune ==
  /\ RemoveOld
  /\ UNCHANGED <<status, submit, worker, sem, parked, closed, janitor, closing,
                 ran, refused>>

\* startJanitor: a tick prunes, a cancelled context ends the goroutine; with
\* both ready the select may pick either.
JanitorStep ==
  /\ janitor = "loop"
  /\ \/ RemoveOld /\ UNCHANGED janitor
     \/ closed /\ janitor' = "exited" /\ UNCHANGED tasks
  /\ UNCHANGED <<status, submit, worker, sem, parked, closed, closing, ran,
                 refused>>

SubmitStep(t) == SubmitCheck(t) \/ SubmitSelect(t) \/ SubmitGo(t) \/ SubmitFail(t)
ExecStep(t) == ExecStart(t) \/ ExecFinish(t) \/ ExecRelease(t)

Next == \/ \E t \in Tasks : Submit(t) \/ SubmitStep(t) \/ ExecStep(t)
        \/ CancelBase \/ Close \/ CloseReturn \/ Prune \/ JanitorStep

Spec == Init /\ [][Next]_vars

\* Goroutines are scheduled and task functions return; the janitor's select
\* does not ignore a cancelled context forever.
Fairness == /\ \A t \in Tasks : WF_vars(SubmitStep(t)) /\ WF_vars(ExecStep(t))
            /\ WF_vars(CloseReturn)
            /\ SF_vars(JanitorStep /\ janitor' = "exited")

FairSpec == Spec /\ Fairness
-----------------------------------------------------------------------------
\* Every variable has the type the code gives it (Runner, Task).
TypeOK ==
  /\ status \in [Tasks -> {"none", "pending", "running", "done", "failed"}]
  /\ tasks \in SUBSET Tasks
  /\ submit \in [Tasks -> {"idle", "check", "select", "parked", "go", "fail", "returned"}]
  /\ worker \in [Tasks -> {"none", "start", "fn", "defer", "gone"}]
  /\ sem \in 0..Limit
  /\ parked \in Seq(Tasks)
  /\ closed \in BOOLEAN
  /\ janitor \in {"off", "loop", "exited"}
  /\ closing \in {"none", "wait", "returned"}
  /\ ran \in SUBSET Tasks
  /\ refused \in SUBSET Tasks

HoldsSlot(t) == submit[t] = "go" \/ worker[t] \in {"start", "fn", "defer"}

\* No slot of r.sem leaks or is given twice: the channel holds exactly one
\* value per task that was let in and has not finished its last defer.
SlotAccounting == Limit > 0 => sem = Cardinality({t \in Tasks : HoldsSlot(t)})

\* No lost wake-up in Submit: a caller sleeps only while the runner is
\* saturated and open.
SleepOnlyWhenFull == parked # <<>> => sem = Limit /\ ~closed

\* Submit: if the runner is closed while waiting, or was closed before, the
\* task is recorded as failed without running.
RefusedNeverRuns == refused \cap ran = {}

\* Every submitted task gets an outcome, whether the runner is closed in
\* between or not, unless its function ended the goroutine.
EveryTaskFinishes ==
  \A t \in Tasks : submit[t] # "idle" ~> Finished(t) \/ worker[t] = "gone"

\* Close returns: the janitor leaves its loop.
CloseReturns == closing = "wait" ~> closing = "returned"

\* The runner's bookkeeping: its types, and one slot of r.sem per task let in.
Sound == TypeOK /\ SlotAccounting
=============================================================================
