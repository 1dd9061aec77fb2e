------------------------------ MODULE RetryLoop ------------------------------
(***************************************************************************)
(* The retry loops: platform/retry and retry (DoVal, and Do on top of it)  *)
(* and retry/gcp (WithRetryVal, and WithRetry on top of it).  They differ  *)
(* in one thing only: WithRetryVal looks at the context before every call. *)
(* One timer is reused between attempts; it is modelled with the channel   *)
(* that a fired timer leaves its tick in.                                  *)
(***************************************************************************)
EXTENDS Naturals

CONSTANT MaxAttempts  \* at least one, as both functions make sure

VARIABLES
  checkFirst, \* WithRetryVal: ctx.Err() is consulted before each call
  pc,         \* "call", "fn", "judge", "arm", "select" or "returned"
  attempt,    \* calls of fn so far
  outcome,    \* of the latest call: "none", "ok", "transient", "permanent"
  timer,      \* "none", "armed", "ticked" (its tick is in the channel) or
              \* "spent" (fired and received)
  rested,     \* the delay armed after the latest call has elapsed
  cancelled,  \* ctx is done
  result,     \* what the loop returned
  late,       \* history: fn was called although ctx was done
  rushed      \* history: fn was called again before its delay had elapsed

vars == <<checkFirst, pc, attempt, outcome, timer, rested, cancelled, result, late,
          rushed>>

Init == /\ checkFirst \in BOOLEAN
        /\ pc = "call" /\ attempt = 0 /\ outcome = "none"
        /\ timer = "none" /\ rested = TRUE
        /\ cancelled = FALSE /\ result = "none"
        /\ late = FALSE /\ rushed = FALSE

Return(r) == pc' = "returned" /\ result' = r

\* The top of the loop: WithRetryVal gives up on a done context; then fn is
\* called.
Call ==
  /\ pc = "call"
  /\ \/ /\ checkFirst /\ cancelled
        /\ Return("context")
        /\ UNCHANGED <<attempt, late, rushed>>
     \/ /\ ~(checkFirst /\ cancelled)
        /\ pc' = "fn"
        /\ attempt' = attempt + 1
        /\ late' = (late \/ cancelled)
        /\ rushed' = (rushed \/ ~rested)
        /\ UNCHANGED result
  /\ UNCHANGED <<checkFirst, outcome, timer, rested, cancelled>>

\* fn returns; WithRetryVal's Classify turns any error into a permanent one
\* once the context is done.
Fn ==
  /\ pc = "fn"
  /\ \/ outcome' \in {"ok", "permanent"}
     \/ ~(checkFirst /\ cancelled) /\ outcome' = "transient"
  /\ pc' = "judge"
  /\ UNCHANGED <<checkFirst, attempt, timer, rested, cancelled, result, late,
                 rushed>>

\* Success, a permanent error or the last attempt end the loop with what fn
\* returned.
Judge ==
  /\ pc = "judge"
  /\ IF outcome \in {"ok", "permanent"} \/ attempt = MaxAttempts
       THEN Return(outcome)
       ELSE pc' = "arm" /\ UNCHANGED result
  /\ UNCHANGED <<checkFirst, attempt, outcome, timer, rested, cancelled, late,
                 rushed>>

\* Mutation of Arm: the timer of the first delay is not reset.
ArmOnce ==
  /\ pc = "arm"
  /\ timer' = IF timer = "none" THEN "armed" ELSE timer
  /\ rested' = FALSE
  /\ pc' = "select"
  /\ UNCHANGED <<checkFirst, attempt, outcome, cancelled, result, late,
                 rushed>>

\* The first failure creates the timer; later ones stop it, empty its channel
\* without waiting, and reset it.
Arm ==
  /\ pc = "arm"
  /\ timer' = "armed"
  /\ rested' = FALSE
  /\ pc' = "select"
  /\ UNCHANGED <<checkFirst, attempt, outcome, cancelled, result, late,
                 rushed>>

\* The runtime fires the timer.
Fire ==
  /\ timer = "armed"
  /\ timer' = "ticked"
  /\ rested' = TRUE
  /\ UNCHANGED <<checkFirst, pc, attempt, outcome, cancelled, result, late,
                 rushed>>

\* Mutation of Select: the delay is skipped (a select with a default case).
SelectDefault ==
  /\ pc = "select"
  /\ pc' = "call"
  /\ UNCHANGED <<checkFirst, attempt, outcome, timer, rested, cancelled,
                 result, late, rushed>>

\* The select: the tick, or the done context; with both ready either.
Select ==
  /\ pc = "select"
  /\ \/ /\ timer = "ticked"
        /\ timer' = "spent"
        /\ pc' = "call"
        /\ UNCHANGED result
     \/ /\ cancelled
        /\ Return("context")
        /\ UNCHANGED timer
  /\ UNCHANGED <<checkFirst, attempt, outcome, rested, cancelled, late,
                 rushed>>

Cancel ==
  /\ ~cancelled /\ pc # "returned"
  /\ cancelled' = TRUE
  /\ UNCHANGED <<checkFirst, pc, attempt, outcome, timer, rested, result,
                 late, rushed>>

Next == Call \/ Fn \/ Judge \/ Arm \/ Fire \/ Select \/ Cancel

Spec == Init /\ [][Next]_vars

\* fn returns and an armed timer fires.
Fairness == /\ WF_vars(Call) /\ WF_vars(Fn) /\ WF_vars(Judge)
            /\ WF_vars(Arm) /\ WF_vars(Fire) /\ WF_vars(Select)

FairSpec == Spec /\ Fairness
-----------------------------------------------------------------------------
\* Every variable has the type the code gives it (DoVal, WithRetryVal).
TypeOK ==
  /\ checkFirst \in BOOLEAN
  /\ pc \in {"call", "fn", "judge", "arm", "select", "returned"}
  /\ attempt \in 0..MaxAttempts
  /\ outcome \in {"none", "ok", "transient", "permanent"}
  /\ timer \in {"none", "armed", "ticked", "spent"}
  /\ rested \in BOOLEAN /\ cancelled \in BOOLEAN
  /\ result \in {"none", "ok", "transient", "permanent", "context"}
  /\ late \in BOOLEAN /\ rushed \in BOOLEAN

\* Between two calls the delay really passes: no tick of an earlier delay,
\* left in the reused timer's channel, cuts a later one short.
DelaysAreKept == ~rushed

\* The terminal error says why the loop stopped: the context only when it is
\* done, a transient error only after every attempt was used.
HonestResult ==
  /\ result = "context" => cancelled
  /\ result = "transient" => attempt = MaxAttempts
  /\ result = "ok" <=> (pc = "returned" /\ outcome = "ok")

\* The loop ends.
Returns == <>(pc = "returned")

\* WithRetryVal calls nothing once the context is done; Do and DoVal, whose
\* comment promises the same, may, because they never ask ctx.Err().
NoCallOnceCancelled == checkFirst => ~late

\* The loop's bookkeeping: its types, an honest result, and no call by
\* WithRetryVal once the context is done.
Sound == TypeOK /\ HonestResult /\ NoCallOnceCancelled
=============================================================================
