------------------------------- MODULE Backoff -------------------------------
(***************************************************************************)
(* The delays of one retried operation, attempt by attempt, under one of   *)
(* the three schedules: platform/retry, its older copy retry, and          *)
(* retry/gcp, with or without a Retry-After header in the last answer.     *)
(***************************************************************************)
EXTENDS BackoffOps

CONSTANTS
  Bases, Caps,   \* configured values; zero means the default
  Headers,       \* Retry-After values in seconds
  MaxAttempts    \* bound: delays computed

NoHeader == -1

VARIABLES
  schedule,   \* "platform", "legacy" or "gcp"
  base, cap,  \* as configured
  header,     \* Retry-After, or NoHeader
  attempt,    \* delays computed so far
  step,       \* the latest one before jitter and header
  delay       \* the latest one

vars == <<schedule, base, cap, header, attempt, step, delay>>

Init == /\ schedule \in {"platform", "legacy", "gcp"}
        /\ base \in Bases /\ cap \in Caps
        /\ header \in Headers \cup {NoHeader}
        /\ attempt = 0 /\ step = 0 /\ delay = 0

\* The schedule's delay after attempt n, counted from zero.
StepOf(n) == IF schedule = "platform" THEN Platform(n, base, cap)
                                      ELSE Legacy(n, base, cap)

\* A delay of d and the server's Retry-After: retryDelay takes the header up
\* to maxBackoff; calculateDelay takes the longer of the two, up to the
\* configured maximum if there is one.
Paced(d) ==
  IF header = NoHeader THEN d
  ELSE IF schedule = "gcp"
         THEN LET longer == Most(d, RetryAfter(header))
              IN  IF cap > 0 THEN Least(longer, cap) ELSE longer
         ELSE Least(RetryAfter(header), DefCap)

\* One more failed attempt.
Retry ==
  /\ attempt < MaxAttempts
  /\ attempt' = attempt + 1
  /\ step' = StepOf(attempt)
  /\ \E d \in Delays(step') : delay' = Paced(d)
  /\ UNCHANGED <<schedule, base, cap, header>>

Next == Retry

Spec == Init /\ [][Next]_vars
-----------------------------------------------------------------------------
\* Every variable has the type the code gives it (time.Duration, int).
TypeOK ==
  /\ schedule \in {"platform", "legacy", "gcp"}
  /\ base \in Durations /\ cap \in Durations
  /\ header \in Int
  /\ attempt \in Nat
  /\ step \in Durations /\ delay \in Durations

\* The configuration leaves the schedule room: a delay at the cap with its
\* jitter is a duration, and the two older schedules, which multiply first,
\* can do so without wrapping around.
Fits == /\ CapOf(cap) + CapOf(cap) \div Fraction < Half
        /\ schedule # "platform" => 2^MaxShift * BaseOf(base) < Half

\* No delay is negative or beyond the cap and a fifth, however many attempts
\* there are (maxAttemptShift "caps the bit shift to prevent integer
\* overflow"); with a header that much, or what the server asked for.
DelayInBounds ==
  attempt > 0 /\ Fits =>
    /\ 0 < step /\ step <= CapOf(cap)
    /\ header = NoHeader => /\ step <= delay
                            /\ delay <= CapOf(cap) + CapOf(cap) \div Fraction

\* platform/retry: the delay before jitter is 2^attempt times the base or the
\* cap, whichever is less, whether or not the configuration leaves room for
\* the jitter; with a base of one and the largest duration as cap it is the cap
\* from the first attempt on.
ExactlyCapped ==
  attempt > 0 /\ schedule = "platform" =>
    step = IF BaseOf(base) = 1 /\ CapOf(cap) = Half - 1 THEN CapOf(cap)
           ELSE Least(2^Shift(attempt - 1) * BaseOf(base), CapOf(cap))

\* The server's Retry-After is kept, up to the maximum in force.
ServerPaces ==
  attempt > 0 /\ header # NoHeader /\ header * Second < Half /\ Fits =>
    LET asked == header * Second
    IN  IF schedule = "gcp"
          THEN delay >= IF cap > 0 THEN Least(asked, cap) ELSE asked
          ELSE delay = Least(asked, DefCap)

\* What a schedule owes its caller: types, delays within bounds, exact ones
\* from platform/retry, and a server whose Retry-After is kept.
Sound == TypeOK /\ DelayInBounds /\ ExactlyCapped /\ ServerPaces
=============================================================================
