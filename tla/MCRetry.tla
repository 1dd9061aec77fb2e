------------------------------- MODULE MCRetry -------------------------------
(***************************************************************************)
(* Everything about trying again and about waiting, for TLC: the loops of  *)
(* platform/retry, retry and retry/gcp, the retrying http.RoundTripper,    *)
(* the delays and the classification of errors; the polls of               *)
(* google/resourcemanager and google/serviceusage; and the consent flow of *)
(* google/auth.  They meet in values only, so a behaviour exercises one of *)
(* them.                                                                   *)
(***************************************************************************)
EXTENDS BackoffOps

CONSTANTS
  MaxAttempts,                       \* of a loop and of a RoundTripper
  Bases, Caps, Headers, MaxDelays,   \* Backoff
  HTTPCodes, GRPCCodes,              \* Classify
  Apis, Accounts, NoAccount,         \* Provision
  MaxPolls, MaxCalls,
  Programs, MaxCallbacks             \* GoogleAuth

ASSUME RetryAssumption ==
  /\ MaxAttempts \in Nat \ {0} /\ MaxDelays \in Nat
  /\ Bases \cup Caps \subseteq Durations /\ Headers \subseteq Nat
  /\ HTTPCodes \cup GRPCCodes \subseteq Nat
  /\ MaxPolls \in Nat /\ MaxCalls \in Nat /\ MaxCallbacks \in Nat
  /\ NoAccount \notin Accounts

VARIABLES
  active,   \* the part this behaviour is about
  checkFirst, pc, attempt, outcome, timer, rested, cancelled, result, late,
  rushed,
  nested, viaClient, kind, spent, at, try, resp, status, open, answer,
  aborted, reused,
  schedule, base, cap, header, delays, step, delay,
  err, ctxDone, verdict,
  project, billing, paying, enabled, op, ctx, poll, tries, told, asked, calls,
  file, flow, callbacks, history

ofLoop == <<checkFirst, pc, attempt, outcome, timer, rested, cancelled, result,
            late, rushed>>
ofTrip == <<nested, viaClient, kind, spent, at, try, resp, status, open,
            answer, aborted, reused>>
ofDelay == <<schedule, base, cap, header, delays, step, delay>>
ofError == <<err, ctxDone, verdict>>
ofPoll == <<project, billing, paying, enabled, op, ctx, poll, tries, told,
            asked, calls>>
ofAuth == <<file, flow, callbacks, history>>
vars == <<active, ofLoop, ofTrip, ofDelay, ofError, ofPoll, ofAuth>>

Loop == INSTANCE RetryLoop
Trip == INSTANCE RetryTransport WITH pc <- at, attempt <- try,
                                     cancelled <- aborted
Delay == INSTANCE Backoff WITH MaxAttempts <- MaxDelays, attempt <- delays
Error == INSTANCE Classify
Polls == INSTANCE Provision WITH MaxAttempts <- MaxPolls, Default <- MaxPolls + 1,
                                 pc <- poll, answer <- told
Auth == INSTANCE GoogleAuth WITH calls <- callbacks

\* The parts that this behaviour is not about stay in one initial state.
Rest(part, fixed) == active = part \/ fixed

Init == /\ active \in {"loop", "trip", "delay", "error", "poll", "auth"}
        /\ Loop!Init /\ Rest("loop", checkFirst)
        /\ Trip!Init /\ Rest("trip", ~nested /\ ~viaClient /\ kind = "none")
        /\ Delay!Init /\ Rest("delay", /\ schedule = "platform"
                                       /\ base = 0 /\ cap = 0
                                       /\ header = Delay!NoHeader)
        /\ Error!Init /\ Rest("error", ~ctxDone)
        /\ Polls!Init /\ Auth!Init

Next == \/ /\ active = "loop" /\ Loop!Next
           /\ UNCHANGED <<active, ofTrip, ofDelay, ofError, ofPoll, ofAuth>>
        \/ /\ active = "trip" /\ Trip!Next
           /\ UNCHANGED <<active, ofLoop, ofDelay, ofError, ofPoll, ofAuth>>
        \/ /\ active = "delay" /\ Delay!Next
           /\ UNCHANGED <<active, ofLoop, ofTrip, ofError, ofPoll, ofAuth>>
        \/ /\ active = "error" /\ Error!Next
           /\ UNCHANGED <<active, ofLoop, ofTrip, ofDelay, ofPoll, ofAuth>>
        \/ /\ active = "poll" /\ Polls!Next
           /\ UNCHANGED <<active, ofLoop, ofTrip, ofDelay, ofError, ofAuth>>
        \/ /\ active = "auth" /\ Auth!Next
           /\ UNCHANGED <<active, ofLoop, ofTrip, ofDelay, ofError, ofPoll>>

\* Each mechanism's Fairness, asked for only when it is the one that runs.
FairSpec ==
  /\ Init /\ [][Next]_vars
  /\ WF_ofLoop(active = "loop" /\ Loop!Call) /\ WF_ofLoop(active = "loop" /\ Loop!Fn)
  /\ WF_ofLoop(active = "loop" /\ Loop!Judge) /\ WF_ofLoop(active = "loop" /\ Loop!Arm)
  /\ WF_ofLoop(active = "loop" /\ Loop!Fire) /\ WF_ofLoop(active = "loop" /\ Loop!Select)
  /\ WF_ofTrip(active = "trip" /\ Trip!Rewind) /\ WF_ofTrip(active = "trip" /\ Trip!Send)
  /\ WF_ofTrip(active = "trip" /\ Trip!Judge) /\ WF_ofTrip(active = "trip" /\ Trip!Wait)
  /\ WF_ofTrip(active = "trip" /\ Trip!CallerClose)
  /\ WF_ofPoll(active = "poll" /\ Polls!Poll)
  /\ \A p \in Programs : WF_ofAuth(active = "auth" /\ Auth!Receive(p))
-----------------------------------------------------------------------------
\* DoVal, WithRetryVal: the result says why the loop ended, WithRetryVal
\* calls nothing once the context is done, and no stale tick cuts a delay
\* short.
LoopSound == Loop!Sound /\ Loop!DelaysAreKept

\* RoundTrip: a nil error means that the status was accepted, no body is left
\* open, with two known exceptions, the returned response is readable, and no
\* attempt sends a body that was read before.
TripSound == Trip!Sound /\ Trip!AnswerReadable /\ Trip!BodyIsFresh

\* The loops end and RoundTrip returns, whatever they are answered.
CallsReturn == /\ active = "loop" => Loop!Returns
               /\ active = "trip" => Trip!Returns

\* CreateProject and BatchEnableAPIs come back from their poll loops, and a
\* callback that was posted ends the consent flow's wait.
WaitsEnd == Polls!PollsEnd /\ Auth!ConsentEnds

\* BackoffWithConfig, calculateDelay, retryDelay: no delay is negative or
\* beyond its cap, platform/retry's is the exact product or the cap but for
\* one configuration, and Retry-After is kept.
DelaySound == Delay!Sound

\* Classify: nothing is retried without positive evidence, error texts never
\* overrule typed errors, and the two retry tables of apierr agree with the
\* sentinels, for every code.
ErrorSound == /\ Error!Sound
              /\ verdict = "none" /\ active = "error" =>
                   \A code \in -1..600 : Error!TablesAgree(code)

\* CreateProject, BatchEnableAPIs, CheckBillingLinked: an answer is true of
\* the project, and a loop gives up after its last attempt and not before.
PollsSound == Polls!Sound

\* consentFlow, loadToken, saveToken: a token comes from a callback with the
\* flow's own state, also when strays, failing writes and other programs'
\* files come in between.
AuthSound == Auth!AuthSound
=============================================================================
