------------------------------ MODULE Classify ------------------------------
(***************************************************************************)
(* platform/apierr: the tables from HTTP and gRPC status codes to the      *)
(* sentinel errors, and the two tables of what is worth retrying.          *)
(*                                                                         *)
(* retry/gcp.Classify: is an error worth another attempt?  An error is     *)
(* what errors.Is and errors.As find in its chain, several of them at      *)
(* once, plus what its text looks like.                                    *)
(***************************************************************************)
EXTENDS Integers

\* gRPC codes, as google.golang.org/grpc/codes numbers them.
grpcOK == 0
grpcInvalidArgument == 3
grpcDeadlineExceeded == 4
grpcNotFound == 5
grpcAlreadyExists == 6
grpcPermissionDenied == 7
grpcResourceExhausted == 8
grpcAborted == 10
grpcInternal == 13
grpcUnavailable == 14
grpcUnauthenticated == 16

FromStatus(code) ==
  CASE code >= 200 /\ code < 300 -> "nil"
    [] code = 400 -> "ErrInvalidInput"
    [] code = 401 -> "ErrUnauthorized"
    [] code = 403 -> "ErrForbidden"
    [] code = 404 -> "ErrNotFound"
    [] code = 408 -> "ErrTimeout"
    [] code = 409 -> "ErrConflict"
    [] code = 429 -> "ErrRateLimited"
    [] code = 422 -> "ErrAPIError"
    [] code >= 500 -> "ErrServerError"
    [] OTHER -> "ErrUnexpectedStatus"

FromGRPCCode(code) ==
  CASE code = grpcOK -> "nil"
    [] code = grpcInvalidArgument -> "ErrInvalidInput"
    [] code = grpcNotFound -> "ErrNotFound"
    [] code \in {grpcAlreadyExists, grpcAborted} -> "ErrConflict"
    [] code = grpcPermissionDenied -> "ErrForbidden"
    [] code = grpcResourceExhausted -> "ErrRateLimited"
    [] code = grpcUnauthenticated -> "ErrUnauthorized"
    [] code \in {grpcUnavailable, grpcInternal} -> "ErrServerError"
    [] code = grpcDeadlineExceeded -> "ErrTimeout"
    [] OTHER -> "ErrUnexpectedStatus"

IsRetryable(sentinel) ==
  sentinel \in {"ErrRateLimited", "ErrServerError", "ErrTimeout"}

RetryableStatus(code) == code = 408 \/ code = 429 \/ code >= 500

RetryableGRPCCode(code) ==
  code \in {grpcDeadlineExceeded, grpcResourceExhausted, grpcAborted,
            grpcInternal, grpcUnavailable}
-----------------------------------------------------------------------------
\* RetryableStatus is "equivalent to IsRetryable(FromStatus(code))", and
\* RetryableGRPCCode diverges from IsRetryable(FromGRPCCode(code)) in ABORTED
\* only.
TablesAgree(code) ==
  /\ RetryableStatus(code) <=> IsRetryable(FromStatus(code))
  /\ RetryableGRPCCode(code)
       <=> IsRetryable(FromGRPCCode(code)) \/ code = grpcAborted
-----------------------------------------------------------------------------
CONSTANTS HTTPCodes, GRPCCodes  \* bounds: the codes that are looked at

\* No such error in the chain.
NoCode == -1

OAuthErrors == [permanentCode : BOOLEAN, status : HTTPCodes \cup {0}]
NoOAuth == [permanentCode |-> FALSE, status |-> NoCode]

Errors == [marked : BOOLEAN,     \* wrapped by retry.Permanent already
           canceled : BOOLEAN,   \* context.Canceled
           api : HTTPCodes \cup {NoCode}, quota : BOOLEAN,
           grpc : GRPCCodes \cup {NoCode},
           oauth : OAuthErrors \cup {NoOAuth},
           net : {"none", "tls", "transient", "other"},
           eof : BOOLEAN,
           text : {"impersonate", "fetchTimeout", "fetch", "other"}]

VARIABLES
  err,      \* the operation's error, once it has failed
  ctxDone,  \* the caller's context is done
  verdict   \* of Classify: "none" before, "transient" or "permanent"

vars == <<err, ctxDone, verdict>>

NoError == [kind |-> "nil"]

Init == err = NoError /\ ctxDone \in BOOLEAN /\ verdict = "none"

\* classifyAPIError: a 403 is retried when its reason is a quota.
APIRetryable(e) == RetryableStatus(e.api) \/ (e.api = 403 /\ e.quota)

\* Mutation of OAuthRetryable: the status decides before the error code.
OAuthByStatus(e) == RetryableStatus(e.oauth.status)

\* classifyOAuthRetrieveError: an RFC 6749 error code is final.
OAuthRetryable(e) == ~e.oauth.permanentCode /\ RetryableStatus(e.oauth.status)

\* classifyByErrorString
TextRetryable(e) == e.text = "fetchTimeout"

\* Classify, steps 2 to 7: the first kind of evidence decides.
Retryable(e) ==
  IF e.api # NoCode THEN APIRetryable(e)
  ELSE IF e.grpc # NoCode THEN RetryableGRPCCode(e.grpc)
  ELSE IF e.oauth # NoOAuth THEN OAuthRetryable(e)
  ELSE IF e.net # "none" THEN e.net = "transient"
  ELSE e.eof \/ TextRetryable(e)

\* Only classifyAPIError and classifyGRPCError return a bare error, without
\* the mark the operation may have put on it.
Bare(e) == e.api # NoCode \/ e.grpc # NoCode

\* Classify, and IsPermanent on what it returns.
Classify(e) ==
  /\ verdict = "none"
  /\ err' = e
  /\ verdict' = IF /\ ~ctxDone /\ ~e.canceled
                   /\ Retryable(e)
                   /\ e.marked => Bare(e)
                  THEN "transient" ELSE "permanent"
  /\ UNCHANGED ctxDone

Next == verdict = "none" /\ \E e \in Errors : Classify(e)

Spec == Init /\ [][Next]_vars
-----------------------------------------------------------------------------
\* Every variable has the type the code gives it.
TypeOK == /\ err \in Errors \cup {NoError} /\ ctxDone \in BOOLEAN
          /\ verdict \in {"none", "transient", "permanent"}

\* A retry needs a reason: an error is tried again only on positive evidence
\* that it will pass, never for a caller who gave up, never on a TLS failure
\* the server did not answer, and never on a final OAuth error code.
RetryNeedsReason ==
  verdict = "transient" =>
    /\ ~ctxDone /\ ~err.canceled
    /\ \/ APIRetryable(err) \/ RetryableGRPCCode(err.grpc)
       \/ ~Bare(err) /\ err.oauth # NoOAuth /\ ~err.oauth.permanentCode
       \/ /\ ~Bare(err) /\ err.oauth = NoOAuth
          /\ \/ err.net = "transient" \/ (err.net = "none" /\ err.eof)
             \/ err.net = "none" /\ err.text = "fetchTimeout"

\* The string heuristics run last: whatever the SDKs word their errors like,
\* they cannot flip a decision that a typed error took.
TextDecidesNothingTyped ==
  verdict # "none" =>
    (Bare(err) \/ err.oauth # NoOAuth \/ err.net # "none" \/ err.eof
    => \A t \in {"impersonate", "fetchTimeout", "fetch", "other"} :
         Retryable([err EXCEPT !.text = t]) = Retryable(err))

\* What Classify owes its caller: types, no retry without a reason, and texts
\* that overrule nothing.
Sound == TypeOK /\ RetryNeedsReason /\ TextDecidesNothingTyped
=============================================================================
