--------------------------- MODULE RetryTransport ---------------------------
(***************************************************************************)
(* platform/retry and retry: the http.RoundTripper that Transport returns, *)
(* for one request, the base transport it calls, and the caller it answers *)
(* to.  A response is named by the attempt that produced it; what is told  *)
(* apart of a response is whether shouldRetry accepts its status and       *)
(* whether its body is still open.                                         *)
(***************************************************************************)
EXTENDS Naturals

CONSTANT MaxAttempts  \* t.maxAttempts, at least one

Attempts == 1..MaxAttempts

VARIABLES
  nested,    \* base is itself a Transport: it can fail with a response
  viaClient, \* the caller is an http.Client, not somebody who closes a
             \* response that comes with an error
  kind,      \* the request's body: "none", "rewindable" or "oneshot"
  spent,     \* activeReq.Body has been read by an earlier attempt
  pc,        \* RoundTrip: "start", "send", "judge", "wait", "returned", "done"
  attempt,   \* the current attempt, counted from one
  resp,      \* the attempt whose response resp points to; 0 is nil
  status,    \* what the attempt gave: "ok" and "retryable" responses,
             \* "error" and "permanent" errors
  open,      \* attempts whose response body has not been closed
  answer,    \* what RoundTrip returned: response (0: nil) and error
  cancelled, \* the request's context is done
  reused     \* history: a spent body was sent again

vars == <<nested, viaClient, kind, spent, pc, attempt, resp, status, open, answer,
          cancelled, reused>>

Pending == [resp |-> 0, err |-> "pending"]

Init == /\ nested \in BOOLEAN /\ viaClient \in BOOLEAN
        /\ kind \in {"none", "rewindable", "oneshot"}
        /\ spent = FALSE
        /\ pc = "start" /\ attempt = 1
        /\ resp = 0 /\ status = "none" /\ open = {}
        /\ answer = Pending
        /\ cancelled = FALSE /\ reused = FALSE

Return(r, e) == pc' = "returned" /\ answer' = [resp |-> r, err |-> e]

-----------------------------------------------------------------------------
\* Mutation of Rewind: the body is not rewound.
RewindNot ==
  /\ pc = "start"
  /\ pc' = "send"
  /\ UNCHANGED <<nested, viaClient, kind, spent, attempt, resp, status, open,
                 answer, cancelled, reused>>

\* RoundTrip, top of the loop: from the second attempt on the body is rewound
\* or the request given up.
Rewind ==
  /\ pc = "start"
  /\ \/ /\ attempt = 1 \/ kind = "none"
        /\ pc' = "send"
        /\ UNCHANGED <<spent, answer>>
     \/ /\ attempt > 1 /\ kind = "oneshot"
        /\ Return(0, "nonRewindable")
        /\ UNCHANGED spent
     \/ /\ attempt > 1 /\ kind = "rewindable"
        /\ \/ spent' = FALSE /\ pc' = "send" /\ UNCHANGED answer
           \/ Return(0, "getBody") /\ UNCHANGED spent
  /\ UNCHANGED <<nested, viaClient, kind, attempt, resp, status, open,
                 cancelled, reused>>

\* t.base.RoundTrip: reads the body and answers.  A Transport below this one
\* can return its last response together with an error.
Send ==
  /\ pc = "send"
  /\ spent' = (kind # "none")
  /\ reused' = (reused \/ (kind # "none" /\ spent))
  /\ \/ /\ \E s \in {"ok", "retryable"} : status' = s
        /\ resp' = attempt /\ open' = open \cup {attempt}
     \/ /\ \E s \in {"error", "permanent"} : status' = s
        /\ resp' = 0 /\ UNCHANGED open
     \/ /\ nested
        /\ status' = "error"
        /\ resp' = attempt /\ open' = open \cup {attempt}
  /\ pc' = "judge"
  /\ UNCHANGED <<nested, viaClient, kind, attempt, answer, cancelled>>

Last == attempt = MaxAttempts

\* After the loop.
Exhausted == Return(resp, "exceeded")

\* Mutations of Judge: what is open after a retryable response is not drained,
\* or is drained on the last attempt too.
JudgeDraining(left) ==
  /\ pc = "judge"
  /\ \/ status = "ok" /\ Return(resp, "nil") /\ UNCHANGED open
     \/ status = "permanent" /\ Return(0, "permanent") /\ UNCHANGED open
     \/ status \in {"error", "retryable"} /\ Last /\ Exhausted /\ open' = left
     \/ status \in {"error", "retryable"} /\ ~Last /\ pc' = "wait" /\ open' = left
        /\ UNCHANGED answer
  /\ UNCHANGED <<nested, viaClient, kind, spent, attempt, resp, status,
                 cancelled, reused>>
JudgeNoDrain == JudgeDraining(open)
JudgeDrainsLast == JudgeDraining(open \ {resp})

\* RoundTrip's decisions on an attempt.  The body of a retryable response is
\* drained and closed, except on the last attempt.
Judge ==
  /\ pc = "judge"
  /\ \/ /\ status = "ok"
        /\ Return(resp, "nil")
        /\ UNCHANGED open
     \/ /\ status = "permanent"
        /\ Return(0, "permanent")
        /\ UNCHANGED open
     \/ /\ status \in {"error", "retryable"} /\ Last
        /\ Exhausted
        /\ UNCHANGED open
     \/ /\ status = "retryable" /\ ~Last
        /\ open' = open \ {resp}
        /\ pc' = "wait"
        /\ UNCHANGED answer
     \/ /\ status = "error" /\ ~Last
        /\ pc' = "wait"
        /\ UNCHANGED <<open, answer>>
  /\ UNCHANGED <<nested, viaClient, kind, spent, attempt, resp, status,
                 cancelled, reused>>

\* wait: the timer fires or the context is done, whichever the select picks.
Wait ==
  /\ pc = "wait"
  /\ \/ /\ pc' = "start"
        /\ attempt' = attempt + 1
        /\ UNCHANGED answer
     \/ /\ cancelled
        /\ Return(0, "context")
        /\ UNCHANGED attempt
  /\ UNCHANGED <<nested, viaClient, kind, spent, resp, status, open,
                 cancelled, reused>>

\* The request's context is cancelled or its deadline passes.
Cancel ==
  /\ ~cancelled /\ pc # "done"
  /\ cancelled' = TRUE
  /\ UNCHANGED <<nested, viaClient, kind, spent, pc, attempt, resp, status,
                 open, answer, reused>>

\* The caller closes the response it was given; http.Client drops a response
\* that comes with an error.
CallerClose ==
  /\ pc = "returned"
  /\ pc' = "done"
  /\ open' = IF viaClient /\ answer.err # "nil" THEN open ELSE open \ {answer.resp}
  /\ UNCHANGED <<nested, viaClient, kind, spent, attempt, resp, status,
                 answer, cancelled, reused>>

Next == Rewind \/ Send \/ Judge \/ Wait \/ Cancel \/ CallerClose

Spec == Init /\ [][Next]_vars

\* The base answers, timers fire and the caller reads its answer.
Fairness == /\ WF_vars(Rewind) /\ WF_vars(Send) /\ WF_vars(Judge)
            /\ WF_vars(Wait) /\ WF_vars(CallerClose)

FairSpec == Spec /\ Fairness
-----------------------------------------------------------------------------
\* Every variable has the type the code gives it (retryTransport.RoundTrip).
TypeOK ==
  /\ nested \in BOOLEAN /\ viaClient \in BOOLEAN
  /\ kind \in {"none", "rewindable", "oneshot"}
  /\ spent \in BOOLEAN
  /\ pc \in {"start", "send", "judge", "wait", "returned", "done"}
  /\ attempt \in Attempts
  /\ resp \in Attempts \cup {0}
  /\ status \in {"none", "ok", "retryable", "error", "permanent"}
  /\ open \in SUBSET Attempts
  /\ answer \in [resp : Attempts \cup {0},
                 err : {"pending", "nil", "permanent", "exceeded", "context",
                        "nonRewindable", "getBody"}]
  /\ cancelled \in BOOLEAN
  /\ reused \in BOOLEAN

\* No response body is left open for nobody: on every way out of RoundTrip,
\* early returns included, the bodies still open are the one the caller gets,
\* unless a base that fails with a response had it dropped.
NoBodyLeft == pc = "returned" /\ ~nested => open \subseteq {answer.resp}

\* The returned response is readable: drainBody never touched it (Transport,
\* "an unread body that the caller must close").
AnswerReadable == pc = "returned" /\ answer.resp # 0 => answer.resp \in open

\* A retry sends the whole body again: no attempt sends what an earlier one
\* has read (rewindRequestBody, ErrNonRewindableBody).
BodyIsFresh == ~reused

\* Terminal semantics: a nil error exactly for a response shouldRetry lets
\* through, and a retryable status after exhaustion is a failure.
NilErrorMeansSuccess ==
  pc = "returned" => (answer.err = "nil" <=> status = "ok")

\* RoundTrip comes back, whatever the base answers.
Returns == <>(pc = "done")

\* Transport: callers must close the response body whenever the response is
\* non-nil, even alongside a non-nil error.  In the end every body is closed,
\* except what http.Client drops after the last attempt and what a nested
\* Transport hands up with its error.
EveryBodyClosed ==
  pc = "done" /\ ~nested => open = {} \/ (viaClient /\ answer.err = "exceeded")

\* The transport's bookkeeping: its types, an error that tells the truth, and
\* no response body left open on any way out.
Sound == /\ TypeOK /\ NilErrorMeansSuccess
         /\ NoBodyLeft /\ EveryBodyClosed
=============================================================================
