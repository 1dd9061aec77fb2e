----------------------------- MODULE GoogleAuth -----------------------------
(***************************************************************************)
(* google/auth: how a client gets its credentials, and the consent flow of *)
(* programs that share one token file.  The browser, Google's endpoints    *)
(* and the token file's system calls are external.                         *)
(***************************************************************************)
EXTENDS Integers, Sequences, FiniteSets, SequencesExt

CONSTANTS
  Programs,      \* programs that share the token file
  MaxCallbacks   \* requests that reach a program's callback server

VARIABLES
  file,      \* the token file: "none", "torn" (cut short) or the token's owner
  flow,      \* each program's flow: where it is, its channels, its token
  calls,     \* requests each callback server has had
  history    \* observability: codes that came with the program's own state

authVars == <<file, flow, calls, history>>

Start == [pc |-> "begin", code |-> "", err |-> "", tok |-> "", up |-> FALSE]
Step(p, pc) == flow' = [flow EXCEPT ![p].pc = pc]
At(p, pc) == flow[p].pc = pc

Init == /\ file = "none" /\ flow = [p \in Programs |-> Start]
        /\ calls = [p \in Programs |-> 0] /\ history = [p \in Programs |-> {}]

\* The client's credentials come from the environment or from pass; a key
\* with a hyphen in front, no pass entry, or JSON that does not parse is an
\* error.
resolveCredentials(p) ==
  /\ At(p, "begin")
  /\ \E ok \in BOOLEAN : Step(p, IF ok THEN "load" ELSE "failed")
  /\ UNCHANGED <<file, calls, history>>

\* A token file that is missing or cut short starts the consent flow.
loadToken(p) ==
  /\ At(p, "load")
  /\ flow' = [flow EXCEPT ![p].pc = IF file \in {"none", "torn"} THEN "listen" ELSE "client",
                          ![p].tok = IF file \in {"none", "torn"} THEN "" ELSE file]
  /\ UNCHANGED <<file, calls, history>>

\* The callback server; a browser that does not open is only reported.
consentFlow(p) ==
  /\ At(p, "listen")
  /\ \E ok \in BOOLEAN : flow' = [flow EXCEPT ![p].pc = IF ok THEN "wait" ELSE "failed",
                                              ![p].up = ok]
  /\ UNCHANGED <<file, calls, history>>

Post(slot, v) == IF slot = "" THEN v ELSE slot

\* Mutation of ServeHTTP: the code is read before the state is checked.
ServeAnyCode(p, own, code) ==
  /\ flow[p].up /\ calls[p] < MaxCallbacks
  /\ calls' = [calls EXCEPT ![p] = @ + 1]
  /\ flow' = IF code # "" THEN [flow EXCEPT ![p].code = Post(@, code)]
             ELSE [flow EXCEPT ![p].err = Post(@, "errNoCode")]
  /\ history' = IF own THEN [history EXCEPT ![p] = @ \cup {code}] ELSE history
  /\ UNCHANGED file

\* A request to the server: a wrong state or a missing code goes to one
\* channel, a code to the other; each has room for one and drops the rest.
\* The server answers until the flow has returned.
ServeHTTP(p, own, code) ==
  /\ flow[p].up /\ calls[p] < MaxCallbacks
  /\ calls' = [calls EXCEPT ![p] = @ + 1]
  /\ flow' = IF own /\ code # "" THEN [flow EXCEPT ![p].code = Post(@, code)]
             ELSE [flow EXCEPT ![p].err = Post(@, IF own THEN "errNoCode" ELSE "errStateMismatch")]
  /\ history' = IF own THEN [history EXCEPT ![p] = @ \cup {code}] ELSE history
  /\ UNCHANGED file
\* Serve fails.
ServerFails(p) ==
  /\ flow[p].up /\ flow[p].err = ""
  /\ flow' = [flow EXCEPT ![p].err = "serve", ![p].up = FALSE]
  /\ UNCHANGED <<file, calls, history>>

\* Mutation of Receive: the select has no case for the error channel.
ReceiveCode(p) ==
  /\ At(p, "wait") /\ flow[p].code # ""
  /\ \E ok \in BOOLEAN :
       flow' = [flow EXCEPT ![p].pc = IF ok THEN "save" ELSE "failed", ![p].up = FALSE,
                            ![p].tok = IF ok THEN flow[p].code ELSE ""]
  /\ UNCHANGED <<file, calls, history>>

\* The select takes any case that is ready; the exchange of the code may fail.
Receive(p) ==
  /\ At(p, "wait")
  /\ \/ /\ flow[p].code # ""
        /\ \E ok \in BOOLEAN :
             flow' = [flow EXCEPT ![p].pc = IF ok THEN "save" ELSE "failed", ![p].up = FALSE,
                                  ![p].tok = IF ok THEN flow[p].code ELSE ""]
     \/ flow[p].err # "" /\ flow' = [flow EXCEPT ![p].pc = "failed", ![p].up = FALSE]
  /\ UNCHANGED <<file, calls, history>>

\* The caller's context is cancelled.
Cancel(p) ==
  /\ At(p, "wait")
  /\ flow' = [flow EXCEPT ![p].pc = "failed", ![p].up = FALSE]
  /\ UNCHANGED <<file, calls, history>>

\* The file is truncated, then written; a failure of either is only reported,
\* and the client is made all the same.
saveToken(p) ==
  /\ \/ At(p, "save") /\ file' = "torn" /\ Step(p, "write")
     \/ At(p, "save") /\ UNCHANGED file /\ Step(p, "client")
     \/ At(p, "write") /\ file' = flow[p].tok /\ Step(p, "client")
     \/ At(p, "write") /\ UNCHANGED file /\ Step(p, "client")
  /\ UNCHANGED <<calls, history>>

\* The program dies, or is done and runs again.
Restart(p) ==
  /\ flow[p].pc # "begin"
  /\ flow' = [flow EXCEPT ![p] = Start]
  /\ UNCHANGED <<file, calls, history>>

Next ==
  \E p \in Programs :
    \/ resolveCredentials(p) \/ loadToken(p) \/ consentFlow(p) \/ Receive(p) \/ Cancel(p)
    \/ saveToken(p) \/ ServerFails(p) \/ Restart(p)
    \/ ServeHTTP(p, TRUE, "mine") \/ ServeHTTP(p, TRUE, "")
    \/ ServeHTTP(p, FALSE, "stray") \/ ServeHTTP(p, FALSE, "")

\* The goroutine that waits takes what has been posted.
Fairness == \A p \in Programs : WF_authVars(Receive(p))
Spec == Init /\ [][Next]_authVars /\ Fairness
-----------------------------------------------------------------------------
TypeOK ==
  /\ file \in {"none", "torn", "mine", "stray"}
  /\ \A p \in Programs : flow[p].pc \in {"begin", "load", "listen", "wait", "save", "write",
                                         "client", "failed"}

\* A token comes only from a code that was sent with the flow's own state or
\* from a file that such a token was written to, whatever strays reach the
\* server first; a file cut short is never a token, and a client has one.
TokenIsGranted ==
  /\ file # "stray"
  /\ \A p \in Programs :
       /\ flow[p].tok # "stray"
       /\ flow[p].tok = "mine" => "mine" \in UNION {history[q] : q \in Programs}
       /\ At(p, "client") => flow[p].tok # ""
AuthSound == TypeOK /\ TokenIsGranted

\* A posted callback always ends the wait: with the token, with an error, or
\* because the program died first.
ConsentEnds ==
  \A p \in Programs : (At(p, "wait") /\ (flow[p].code # "" \/ flow[p].err # ""))
                        ~> ~At(p, "wait")
-----------------------------------------------------------------------------
(* ResolveClient: which credentials a configuration gives.  An email is a  *)
(* sequence of characters, "a" for any but the ones looked at.             *)

IsValidEmail(e) ==
  /\ Cardinality({i \in DOMAIN e : e[i] = "@"}) = 1
  /\ \A i \in DOMAIN e : e[i] # " "
  /\ e[1] # "@" /\ e[Len(e)] # "@"
IsValidServiceAccount(e) == IsValidEmail(e)

\* What an option sets; attempts below one are ignored.
Config0 == [targetSA |-> <<>>, subjectEmail |-> <<>>, isDWD |-> FALSE, isInteractive |-> FALSE,
            httpClient |-> FALSE, retryDisabled |-> FALSE, retryAttempts |-> 0, scopes |-> {}]
Apply(c, o) ==
  CASE o.opt = "WithServiceAccountImpersonation" -> [c EXCEPT !.targetSA = o.sa]
    [] o.opt = "WithDomainWideDelegation" ->
         [c EXCEPT !.targetSA = o.sa, !.subjectEmail = o.subject, !.isDWD = TRUE]
    [] o.opt = "WithInteractiveConsent" -> [c EXCEPT !.isInteractive = TRUE]
    [] o.opt = "WithScopes" -> [c EXCEPT !.scopes = o.scopes]
    [] o.opt = "WithHTTPClient" -> [c EXCEPT !.httpClient = TRUE]
    [] o.opt = "WithRetryAttempts" -> [c EXCEPT !.retryAttempts = IF o.n > 0 THEN o.n ELSE @]
    [] OTHER -> [c EXCEPT !.retryDisabled = TRUE]

\* The configuration that the options leave, applied one after another.
Configured(opts) ==
  LET upto[i \in 0 .. Len(opts)] == IF i = 0 THEN Config0 ELSE Apply(upto[i - 1], opts[i])
  IN upto[Len(opts)]

\* The attempts of the transport that a client is given; 1 is none.
retryRoundTripper(c) == IF c.retryDisabled THEN 1
                        ELSE IF c.retryAttempts < 1 THEN 4 ELSE c.retryAttempts
\* A body that cannot be read again is sent once.
RoundTrip(c, rewinds) == IF rewinds THEN retryRoundTripper(c) ELSE 1

Refused(err) == [err |-> err, mode |-> "none", subject |-> <<>>, scopes |-> {}, attempts |-> 0]
Client(c, mode, subject) == [err |-> "nil", mode |-> mode, subject |-> subject,
                             scopes |-> c.scopes, attempts |-> retryRoundTripper(c)]

resolveImpersonationClient(c) ==
  IF ~IsValidServiceAccount(c.targetSA) THEN Refused("ErrInvalidServiceAccount")
  ELSE IF c.isDWD /\ c.subjectEmail = <<>> THEN Refused("ErrNoSubjectEmail")
  ELSE IF c.subjectEmail # <<>> /\ ~IsValidEmail(c.subjectEmail)
  THEN Refused("ErrInvalidSubjectEmail")
  ELSE Client(c, "impersonate", c.subjectEmail)

\* The injected client is returned as it is, and without retries the default
\* credentials are left to the API's constructor: neither is given the scopes.
ResolveClient(env, defaults, opts) ==
  LET given == Configured(opts)
      c == [given EXCEPT
              !.targetSA = IF @ = <<>> /\ ~given.isInteractive THEN env ELSE @,
              !.scopes = IF @ = {} THEN defaults ELSE @]
      bare == [c EXCEPT !.scopes = {}]
  IN IF given.httpClient THEN Client(bare, "injected", <<>>)
     ELSE IF c.isDWD /\ c.targetSA = <<>> THEN Refused("ErrNoImpersonationAccount")
     ELSE IF c.targetSA # <<>> THEN resolveImpersonationClient(c)
     ELSE IF c.isInteractive THEN Client(c, "interactive", <<>>)
     ELSE Client(IF c.retryDisabled THEN bare ELSE c, "adc", <<>>)

\* client: the scopes each constructor asks for when none are given.
NewDriveService(env, opts) == ResolveClient(env, {"drive.metadata.readonly"}, opts)
NewAdminService(env, opts) == ResolveClient(env, {"admin.directory.user.readonly"}, opts)
NewReportsService(env, opts) == ResolveClient(env, {"admin.reports.audit.readonly"}, opts)
NewResourceManagerService(env, opts) == ResolveClient(env, {"cloud-platform"}, opts)
NewServiceUsageService(env, opts) == ResolveClient(env, {"cloud-platform"}, opts)
NewSheetsService(env, opts) == ResolveClient(env, {"spreadsheets", "drive"}, opts)

\* DWDValidator: whose access it is, then whether it works.  Emails are
\* compared in lower case.
ValidateAccess(v) == IF v.nil THEN "ErrNilValidator" ELSE v.root
ValidateAccessAs(v, expected) ==
  IF v.nil THEN "ErrNilValidator"
  ELSE IF expected = "" THEN "ErrNoSubjectEmail"
  ELSE IF v.about.err # "nil" THEN v.about.err
  ELSE IF v.about.email # expected THEN "ErrSubjectMismatch"
  ELSE ValidateAccess(v)

\* Delegation is never lost on the way: a configuration that asks for it acts
\* for a valid subject or is refused, whatever else was set and whatever the
\* environment says; every client that may retry does.  The scopes of a client
\* are exactly those last asked for, else the defaults; only an injected client
\* and default credentials without retries are given none, whatever WithScopes
\* asked for.
ResolvesSafely(env, defaults, opts) ==
  LET r == ResolveClient(env, defaults, opts)
      dwd == \E i \in DOMAIN opts : opts[i].opt = "WithDomainWideDelegation"
      injected == \E i \in DOMAIN opts : opts[i].opt = "WithHTTPClient"
      retrying == \A i \in DOMAIN opts : opts[i].opt # "WithoutRetry"
      scoping == {i \in DOMAIN opts : opts[i].opt = "WithScopes"}
      asked == IF scoping = {} THEN {} ELSE opts[Max(scoping)].scopes
  IN /\ dwd /\ ~injected /\ r.err = "nil" =>
          r.mode = "impersonate" /\ IsValidEmail(r.subject)
     /\ r.err = "nil" /\ retrying => r.attempts > 1
          \/ \E i \in DOMAIN opts : opts[i].opt = "WithRetryAttempts" /\ opts[i].n = 1
     /\ r.err = "nil" =>
          r.scopes = IF r.mode = "injected" \/ (r.mode = "adc" /\ ~retrying) THEN {}
                     ELSE IF asked = {} THEN defaults ELSE asked
     /\ r.mode = "adc" => env = <<>>
=============================================================================
