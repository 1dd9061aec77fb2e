------------------------------ MODULE Workflow ------------------------------
(***************************************************************************)
(* platform/workflow: RunWithResult executes the steps in order, with its  *)
(* hooks, while the context may be cancelled at any moment; DryRun goes    *)
(* over the same steps without their bodies.  A step is what its Skip      *)
(* predicate and its Run body do.                                          *)
(***************************************************************************)
EXTENDS Naturals, Sequences

CONSTANT MaxSteps  \* bound: steps of a workflow

Kinds == [skip : {"no", "yes", "panic"}, run : {"ok", "error", "panic", "nil"}]

VARIABLES
  steps,      \* w.Steps
  pc,         \* "top" of the loop, "skip", "run", "done" or "panicked"
  results,    \* res.StepResults, by status
  err,        \* res.Err: "nil", "context" or "step"
  hooks,      \* the calls of the hooks, in order
  cancelled,  \* ctx is done
  overrun     \* history: steps started although ctx was done

vars == <<steps, pc, results, err, hooks, cancelled, overrun>>

Init == /\ steps \in UNION {[1..n -> Kinds] : n \in 0..MaxSteps}
        /\ pc = "top" /\ results = <<>> /\ err = "nil"
        /\ hooks = <<[on |-> "start", step |-> 0]>>
        /\ cancelled = FALSE /\ overrun = 0

i == Len(results) + 1

NotRun(rs) == rs \o [n \in 1..(Len(steps) - Len(rs)) |-> "not_run"]

\* OnWorkflowDone, after the loop.
WorkflowDone(hs) == hooks' = Append(hs, [on |-> "done", step |-> 0])

-----------------------------------------------------------------------------

\* The top of the loop: no step is left, or the context is done, or the next
\* step is looked at.
Top ==
  /\ pc = "top"
  /\ \/ /\ i > Len(steps)
        /\ pc' = "done" /\ WorkflowDone(hooks)
        /\ UNCHANGED <<results, err>>
     \/ /\ i <= Len(steps) /\ cancelled
        /\ results' = NotRun(results) /\ err' = "context"
        /\ pc' = "done" /\ WorkflowDone(hooks)
     \/ /\ i <= Len(steps) /\ ~cancelled
        /\ pc' = "skip"
        /\ UNCHANGED <<results, err, hooks>>
  /\ UNCHANGED <<steps, cancelled, overrun>>

\* The Skip predicate; its panic is not recovered.
Skip ==
  /\ pc = "skip"
  /\ \/ /\ steps[i].skip = "panic"
        /\ pc' = "panicked"
        /\ UNCHANGED <<results, hooks, overrun>>
     \/ /\ steps[i].skip = "yes"
        /\ hooks' = Append(hooks, [on |-> "skip", step |-> i])
        /\ results' = Append(results, "skipped")
        /\ pc' = "top"
        /\ UNCHANGED overrun
     \/ /\ steps[i].skip = "no"
        /\ hooks' = Append(hooks, [on |-> "stepStart", step |-> i])
        /\ overrun' = IF cancelled THEN overrun + 1 ELSE overrun
        /\ pc' = "run"
        /\ UNCHANGED results
  /\ UNCHANGED <<steps, err, cancelled>>

\* runStepWithRecovery returns nil; a nil Run and a panic are errors.
Succeeds(k) == k.run = "ok"

\* Mutation of Fail: the steps behind a failure are left out.
FailShort ==
  /\ results' = Append(results, "failed")
  /\ err' = "step" /\ pc' = "done"
  /\ WorkflowDone(Append(hooks, [on |-> "stepFail", step |-> i]))

\* A failed step ends the workflow.
Fail ==
  /\ results' = NotRun(Append(results, "failed"))
  /\ err' = "step" /\ pc' = "done"
  /\ WorkflowDone(Append(hooks, [on |-> "stepFail", step |-> i]))

\* runStepWithRecovery and what follows from its error.
RunStep ==
  /\ pc = "run"
  /\ \/ /\ Succeeds(steps[i])
        /\ hooks' = Append(hooks, [on |-> "stepDone", step |-> i])
        /\ results' = Append(results, "success")
        /\ pc' = "top"
        /\ UNCHANGED err
     \/ /\ ~Succeeds(steps[i])
        /\ Fail
  /\ UNCHANGED <<steps, cancelled, overrun>>

Cancel ==
  /\ ~cancelled /\ pc \notin {"done", "panicked"}
  /\ cancelled' = TRUE
  /\ UNCHANGED <<steps, pc, results, err, hooks, overrun>>

Next == Top \/ Skip \/ RunStep \/ Cancel

Spec == Init /\ [][Next]_vars

\* Step bodies return.
Fairness == WF_vars(Top) /\ WF_vars(Skip) /\ WF_vars(RunStep)

FairSpec == Spec /\ Fairness
-----------------------------------------------------------------------------
\* DryRun, which returns unless a predicate panics.
DryRun == [n \in DOMAIN steps |->
             IF steps[n].skip = "yes" THEN "skipped" ELSE "success"]

\* Every variable has the type the code gives it (Workflow, Result).
TypeOK ==
  /\ steps \in Seq(Kinds)
  /\ pc \in {"top", "skip", "run", "done", "panicked"}
  /\ results \in Seq({"success", "skipped", "failed", "not_run"})
  /\ Len(results) <= Len(steps)
  /\ err \in {"nil", "context", "step"}
  /\ hooks \in Seq([on : {"start", "done", "skip", "stepStart", "stepDone",
                          "stepFail"}, step : 0..Len(steps)])
  /\ cancelled \in BOOLEAN
  /\ overrun \in Nat

Completed == {n \in DOMAIN results : results[n] \in {"success", "skipped"}}

\* A finished run accounts for every step: those that completed, then at most
\* one failure, then steps that did not run; and Err is nil exactly when all
\* of them completed.  A body that panics or is missing is a failure.
ResultIsWhole ==
  pc = "done" =>
    /\ Len(results) = Len(steps)
    /\ \A n \in DOMAIN results :
         /\ n \in Completed => 1..n \subseteq Completed
         /\ results[n] = "failed" => \A m \in 1..(n - 1) : m \in Completed
         /\ results[n] = "success" => steps[n].run = "ok"
    /\ (err = "nil") <=> (Completed = DOMAIN steps)
    /\ (err = "step") <=> (\E n \in DOMAIN results : results[n] = "failed")

\* A cancelled context stops the workflow: at most the step that was being
\* looked at still starts.
CancelStops == overrun <= 1

\* Where the hooks were called for step n; called once, as h; or called as
\* stepStart and, later, as h, and not otherwise.
HooksOf(n) == {m \in DOMAIN hooks : hooks[m].step = n}
Once(n, h) == \E m \in DOMAIN hooks : HooksOf(n) = {m} /\ hooks[m].on = h
StartThen(n, h) ==
  \E m, o \in DOMAIN hooks : /\ m < o /\ HooksOf(n) = {m, o}
                             /\ hooks[m].on = "stepStart" /\ hooks[o].on = h

\* The hooks tell the same story as the result, whatever happens: a step that
\* starts ends once, with the hook of its status, and the others have none.
HooksTellTheResult ==
  pc = "done" => \A n \in DOMAIN steps :
    /\ results[n] = "success" => StartThen(n, "stepDone")
    /\ results[n] = "failed" => StartThen(n, "stepFail")
    /\ results[n] = "skipped" => Once(n, "skip")
    /\ results[n] = "not_run" => HooksOf(n) = {}

\* DryRun foretells a run that is not interrupted: where the run did not stop,
\* it did what was planned.
PlanHolds ==
  pc = "done" => \A n \in Completed : results[n] = DryRun[n]

\* What RunWithResult owes its caller: types, a whole result, hooks that tell
\* the same, and no further step once the context is done.
Sound == TypeOK /\ ResultIsWhole /\ HooksTellTheResult /\ CancelStops
=============================================================================
