------------------------------ MODULE Provision ------------------------------
(***************************************************************************)
(* google/resourcemanager and google/serviceusage: a project is created,   *)
(* linked to a billing account and given its APIs.  CreateProject and      *)
(* BatchEnableAPIs start an operation on the service and poll for it a     *)
(* bounded number of times.                                                *)
(***************************************************************************)
EXTENDS Naturals, FiniteSets

CONSTANTS
  Apis,         \* the services asked for
  Accounts,     \* billing accounts
  NoAccount,
  MaxAttempts,  \* cfg.MaxAttempts, 0 for the default
  Default,      \* defaultMaxAttempts
  MaxCalls      \* bound: calls made

VARIABLES
  project,   \* on the service: "absent", "pending" or "active"
  billing,   \* the account linked, and
  paying,    \* info.BillingEnabled
  enabled,   \* APIs that are on
  op,        \* the enablement under way: [apis, state]
  ctx,       \* the caller's context: "live" or "done"
  pc,        \* "idle", "creating" or "enabling": in a poll loop
  tries,     \* polls made by this call
  answer,    \* the last call and how it ended
  asked,     \* the APIs this call asked for
  calls

vars == <<project, billing, paying, enabled, op, ctx, pc, tries, answer, asked,
          calls>>
remote == <<project, billing, paying, enabled, op>>

\* New: values that are not positive become the defaults.
maxAttempts == IF MaxAttempts > 0 THEN MaxAttempts ELSE Default

Init == /\ project = "absent" /\ billing = NoAccount /\ paying = FALSE
        /\ enabled = {} /\ op = [apis |-> {}, state |-> "none"]
        /\ ctx = "live" /\ pc = "idle" /\ tries = 0
        /\ answer = [call |-> "none", end |-> "nil"] /\ asked = {}
        /\ calls = 0

Begin(name) == pc = "idle" /\ calls < MaxCalls /\ calls' = calls + 1
Ends(name, end) == answer' = [call |-> name, end |-> end]
-----------------------------------------------------------------------------
\* CheckProjectExists: a 404 is an answer, other errors are errors.
Exists == project = "active"

CheckProjectExists(valid) ==
  /\ Begin("exists")
  /\ \/ ~valid /\ Ends("exists", "emptyProject")
     \/ valid /\ Ends("exists", IF Exists THEN "true" ELSE "false")
     \/ valid /\ Ends("exists", "error")
  /\ UNCHANGED <<remote, ctx, pc, tries, asked>>

\* CreateProject, up to the first wait.  A project that is there already is
\* an error of the service; an error may also hide a request that was granted.
CreateProject(valid) ==
  /\ Begin("create")
  /\ \/ ~valid /\ Ends("create", "emptyProject") /\ UNCHANGED <<project, pc>>
     \/ /\ valid /\ Ends("create", "error") /\ UNCHANGED pc
        /\ project' \in {project} \cup {s \in {"pending"} : project = "absent"}
     \/ /\ valid /\ project = "absent" /\ ctx = "live"
        /\ project' = "pending" /\ pc' = "creating"
        /\ Ends("create", "running")
  /\ tries' = 0
  /\ UNCHANGED <<billing, paying, enabled, op, ctx, asked>>

\* A round of its loop: the context ends the wait, or the timer does and the
\* project is asked for; an error of that call counts as "not yet".
PollProject ==
  /\ pc = "creating"
  /\ \/ /\ tries >= maxAttempts
        /\ Ends("create", "timeout") /\ pc' = "idle" /\ UNCHANGED tries
     \/ /\ tries < maxAttempts /\ ctx = "done"
        /\ Ends("create", "interrupted") /\ pc' = "idle" /\ UNCHANGED tries
     \/ /\ tries < maxAttempts
        /\ tries' = tries + 1
        /\ \/ /\ Exists /\ ctx = "live"
              /\ Ends("create", "nil") /\ pc' = "idle"
           \/ UNCHANGED <<answer, pc>>
  /\ UNCHANGED <<remote, ctx, asked, calls>>

\* CheckBillingLinked: the account that is asked about is linked and pays.
CheckBillingLinked(a) ==
  /\ Begin("linked")
  /\ \/ Ends("linked", IF paying /\ billing = a THEN "true" ELSE "false")
     \/ Ends("linked", "error")
  /\ UNCHANGED <<remote, ctx, pc, tries, asked>>

LinkBilling(a) ==
  /\ Begin("link")
  /\ \/ /\ Exists /\ billing' = a /\ paying' \in {TRUE, paying}
        /\ Ends("link", "nil")
     \/ /\ Ends("link", "error") /\ UNCHANGED paying
        /\ billing' \in {billing} \cup {b \in {a} : Exists}
  /\ UNCHANGED <<project, enabled, op, ctx, pc, tries, asked>>

\* BatchEnableAPIs, up to the first wait; nothing to do is done.
BatchEnableAPIs(apis) ==
  /\ Begin("enable")
  /\ tries' = 0 /\ asked' = apis
  /\ \/ apis = {} /\ Ends("enable", "nil") /\ UNCHANGED <<op, pc>>
     \/ /\ apis # {} /\ Ends("enable", "error") /\ UNCHANGED pc
        /\ op' \in {op} \cup {o \in {[apis |-> apis, state |-> "running"]} :
                                Exists /\ op.state # "running"}
     \/ /\ apis # {} /\ Exists /\ ctx = "live" /\ op.state # "running"
        /\ op' = [apis |-> apis, state |-> "running"]
        /\ pc' = "enabling" /\ Ends("enable", "running")
  /\ UNCHANGED <<project, billing, paying, enabled, ctx>>

\* Mutation of PollOperation: a finished operation is a success.
PollCareless ==
  /\ pc = "enabling" /\ tries < maxAttempts
  /\ tries' = tries + 1
  /\ IF op.state # "running" THEN Ends("enable", "nil") /\ pc' = "idle"
     ELSE UNCHANGED <<answer, pc>>
  /\ UNCHANGED <<remote, ctx, asked, calls>>

\* A round of its loop; here an error of the query ends the call.
PollOperation ==
  /\ pc = "enabling"
  /\ \/ /\ tries >= maxAttempts
        /\ Ends("enable", "timeout") /\ pc' = "idle" /\ UNCHANGED tries
     \/ /\ tries < maxAttempts /\ ctx = "done"
        /\ Ends("enable", "interrupted") /\ pc' = "idle" /\ UNCHANGED tries
     \/ /\ tries < maxAttempts
        /\ tries' = tries + 1
        /\ \/ Ends("enable", "error") /\ pc' = "idle"
           \/ ctx = "live" /\ op.state = "failed"
                /\ Ends("enable", "failed") /\ pc' = "idle"
           \/ ctx = "live" /\ op.state = "done"
                /\ Ends("enable", "nil") /\ pc' = "idle"
           \/ ctx = "live" /\ op.state = "running" /\ UNCHANGED <<answer, pc>>
  /\ UNCHANGED <<remote, ctx, asked, calls>>

\* The service finishes what it started.
ServiceStep ==
  /\ \/ /\ project = "pending" /\ project' = "active"
        /\ UNCHANGED <<enabled, op>>
     \/ /\ op.state = "running"
        /\ \/ op' = [op EXCEPT !.state = "done"] /\ enabled' = enabled \cup op.apis
           \/ op' = [op EXCEPT !.state = "failed"] /\ UNCHANGED enabled
        /\ UNCHANGED project
  /\ UNCHANGED <<billing, paying, ctx, pc, tries, answer, asked, calls>>

Cancel ==
  /\ ctx = "live" /\ ctx' = "done"
  /\ UNCHANGED <<remote, pc, tries, answer, asked, calls>>

Poll == PollProject \/ PollOperation

Next == \/ \E valid \in BOOLEAN : CheckProjectExists(valid) \/ CreateProject(valid)
        \/ \E a \in Accounts : CheckBillingLinked(a) \/ LinkBilling(a)
        \/ \E apis \in SUBSET Apis : BatchEnableAPIs(apis)
        \/ Poll \/ ServiceStep \/ Cancel

\* A poll loop goes on: its timer fires and its call returns.
Fairness == WF_vars(Poll)
Spec == Init /\ [][Next]_vars /\ Fairness
-----------------------------------------------------------------------------
\* Every variable has the type the code gives it.
TypeOK ==
  /\ project \in {"absent", "pending", "active"}
  /\ billing \in Accounts \cup {NoAccount} /\ paying \in BOOLEAN
  /\ enabled \subseteq Apis /\ asked \subseteq Apis
  /\ op.state \in {"none", "running", "done", "failed"}
  /\ pc \in {"idle", "creating", "enabling"} /\ tries \in 0..maxAttempts

\* CreateProject and BatchEnableAPIs answer nil only for what is really there;
\* a loop gives up after its last attempt and not before.
AnswersAreTrue ==
  /\ answer = [call |-> "create", end |-> "nil"] => project = "active"
  /\ answer = [call |-> "enable", end |-> "nil"] => asked \subseteq enabled
  /\ answer.end = "timeout" => tries = maxAttempts
  /\ answer = [call |-> "linked", end |-> "true"] => billing # NoAccount

Sound == TypeOK /\ AnswersAreTrue

\* CreateProject and BatchEnableAPIs return, whatever the service does.
PollsEnd == pc # "idle" ~> pc = "idle"
=============================================================================
