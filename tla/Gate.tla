-------------------------------- MODULE Gate --------------------------------
(***************************************************************************)
(* governance/gate and governance/invariant: rules are collected, some of  *)
(* them wrapped around an invariant.Builder, and then evaluated in order   *)
(* under a policy, while the context may be cancelled between any two.     *)
(* A rule is where its result comes from and the status it will report;    *)
(* "" stands for every status the packages do not define.                  *)
(***************************************************************************)
EXTENDS Naturals, Sequences, FiniteSets

CONSTANT MaxRules  \* bound: rules of a gate

Statuses == {"PASS", "FAIL", "ANOMALY", "SKIPPED"}
Policies == {"STRICT", "STANDARD", "PERMISSIVE"}

VARIABLES
  policy,     \* g.policy; "" is an unknown one
  rules,      \* g.rules
  builder,    \* the status of the Builder in use
  found,      \* history: what Failf and Anomalyf recorded in it
  checks,     \* history: what had been recorded when each rule was wrapped
  cancelled,  \* ctx is done
  results,    \* report.Results, by status
  counts,     \* the four counters of the report
  verdict     \* "none" until applyVerdict

vars == <<policy, rules, builder, found, checks, cancelled, results, counts,
          verdict>>

Init == /\ policy \in Policies \cup {""}
        /\ rules = <<>> /\ checks = <<>>
        /\ builder = "PASS" /\ found = {}
        /\ cancelled = FALSE
        /\ results = <<>>
        /\ counts = [s \in Statuses |-> 0]
        /\ verdict = "none"

Collecting == results = <<>> /\ verdict = "none"

-----------------------------------------------------------------------------
\* AddRule with a rule of the caller's own, which may report anything.
AddRule(s) ==
  /\ Collecting /\ Len(rules) < MaxRules
  /\ rules' = Append(rules, [from |-> "func", status |-> s])
  /\ checks' = Append(checks, {})
  /\ UNCHANGED <<policy, builder, found, cancelled, results, counts, verdict>>

Failf ==
  /\ Collecting
  /\ builder' = "FAIL"
  /\ found' = found \cup {"FAIL"}
  /\ UNCHANGED <<policy, rules, checks, cancelled, results, counts, verdict>>

Anomalyf ==
  /\ Collecting
  /\ builder' = IF builder = "FAIL" THEN builder ELSE "ANOMALY"
  /\ found' = found \cup {"ANOMALY"}
  /\ UNCHANGED <<policy, rules, checks, cancelled, results, counts, verdict>>

\* FromBuilder takes the check as it is now; what the builder records later
\* reaches only the rules wrapped later.
FromBuilder ==
  /\ Collecting /\ Len(rules) < MaxRules
  /\ rules' = Append(rules, [from |-> "check", status |-> builder])
  /\ checks' = Append(checks, found)
  /\ UNCHANGED <<policy, builder, found, cancelled, results, counts, verdict>>

\* A new Builder for the next rule.
NewBuilder ==
  /\ Collecting
  /\ builder' = "PASS" /\ found' = {}
  /\ UNCHANGED <<policy, rules, checks, cancelled, results, counts, verdict>>

-----------------------------------------------------------------------------
\* Mutation of Recorded: a status nobody defined is let through.
RecordedAsIs(s) == IF s \in Statuses THEN s ELSE "SKIPPED"

\* The status that is recorded for what a rule reports: undefined ones fail.
Recorded(s) == IF s \in Statuses THEN s ELSE "FAIL"

\* One turn of Evaluate's loop: the context is consulted before the rule.
EvaluateRule ==
  /\ verdict = "none"
  /\ Len(results) < Len(rules)
  /\ LET s == IF cancelled THEN "FAIL"
              ELSE Recorded(rules[Len(results) + 1].status)
     IN  /\ results' = Append(results, s)
         /\ counts' = [counts EXCEPT ![s] = @ + 1]
  /\ UNCHANGED <<policy, rules, builder, found, checks, cancelled, verdict>>

Blocks ==
  \/ policy = "STRICT" /\ counts["FAIL"] + counts["ANOMALY"] > 0
  \/ policy = "STANDARD" /\ counts["FAIL"] > 0

\* applyVerdict, and Enforce's error for a blocked gate.  An unknown policy
\* blocks and adds a failed result of its own.
ApplyVerdict ==
  /\ verdict = "none" /\ Len(results) = Len(rules)
  /\ IF policy \in Policies
       THEN /\ verdict' = IF Blocks THEN "BLOCKED" ELSE "PASS"
            /\ UNCHANGED <<results, counts>>
       ELSE /\ verdict' = "BLOCKED"
            /\ results' = Append(results, "FAIL")
            /\ counts' = [counts EXCEPT !["FAIL"] = @ + 1]
  /\ UNCHANGED <<policy, rules, builder, found, checks, cancelled>>

Cancel ==
  /\ ~cancelled /\ verdict = "none"
  /\ cancelled' = TRUE
  /\ UNCHANGED <<policy, rules, builder, found, checks, results, counts,
                 verdict>>

Next == \/ \E s \in Statuses \cup {""} : AddRule(s)
        \/ Failf \/ Anomalyf \/ FromBuilder \/ NewBuilder
        \/ EvaluateRule \/ ApplyVerdict \/ Cancel

Spec == Init /\ [][Next]_vars
-----------------------------------------------------------------------------
severity == [s \in {"PASS", "ANOMALY", "FAIL"} |->
               CASE s = "FAIL" -> 2 [] s = "ANOMALY" -> 1 [] s = "PASS" -> 0]

\* Mutation of Verdict: the latest of them.
VerdictLatest(cs) == IF cs = <<>> THEN "PASS" ELSE cs[Len(cs)]

\* invariant.Verdict over the checks that were wrapped: the worst of them.
Verdict(cs) ==
  IF \E n \in DOMAIN cs : severity[cs[n]] > 0
    THEN cs[CHOOSE n \in DOMAIN cs :
              \A m \in DOMAIN cs : severity[cs[m]] <= severity[cs[n]]]
    ELSE "PASS"

\* Every variable has the type the code gives it (Gate, Report, Builder), and
\* a builder's status is the worst of what it recorded: it only degrades.
TypeOK ==
  /\ policy \in Policies \cup {""}
  /\ rules \in Seq([from : {"func", "check"}, status : Statuses \cup {""}])
  /\ builder = IF "FAIL" \in found THEN "FAIL"
               ELSE IF found = {} THEN "PASS" ELSE "ANOMALY"
  /\ found \in SUBSET {"FAIL", "ANOMALY"}
  /\ checks \in Seq(SUBSET {"FAIL", "ANOMALY"})
  /\ cancelled \in BOOLEAN
  /\ results \in Seq(Statuses)
  /\ counts \in [Statuses -> Nat]
  /\ verdict \in {"none", "PASS", "BLOCKED"}

\* The report accounts for every rule, also for those a cancelled context cut
\* off: one result each, and the counters count the results.
CountsAddUp ==
  /\ Len(results) <= Len(rules) + 1
  /\ verdict # "none" => Len(results) >= Len(rules)
  /\ \A s \in Statuses :
       counts[s] = Cardinality({n \in DOMAIN results : results[n] = s})

\* The gate fails closed: it passes under a blocking policy only when every
\* rule ran and reported something that policy accepts, and when no wrapped
\* builder had recorded a failure.  Undefined statuses, unknown policies and
\* a cancellation at any point are never let through.
FailsClosed ==
  verdict = "PASS" /\ policy # "PERMISSIVE" =>
    \A n \in DOMAIN rules :
      /\ \/ rules[n].status \in {"PASS", "SKIPPED"}
         \/ policy = "STANDARD" /\ rules[n].status = "ANOMALY"
      /\ results[n] = rules[n].status
      /\ "FAIL" \notin checks[n]

\* A gate made of builders only and the suite verdict of invariant.Verdict
\* agree on the same checks.
VerdictsAgree ==
  verdict # "none" /\ policy \in {"STRICT", "STANDARD"} /\ ~cancelled
  /\ (\A n \in DOMAIN rules : rules[n].from = "check")
    => LET worst == Verdict([n \in DOMAIN rules |-> rules[n].status])
       IN  verdict = "PASS" <=> \/ worst = "PASS"
                                \/ policy = "STANDARD" /\ worst = "ANOMALY"

\* What Enforce owes its caller: types, a report that accounts for every rule,
\* and a verdict that fails closed.
Sound == TypeOK /\ CountsAddUp /\ FailsClosed
=============================================================================
