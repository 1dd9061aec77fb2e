----------------------------- MODULE BackoffOps -----------------------------
(***************************************************************************)
(* The delays between attempts: BackoffWithConfig of platform/retry and of *)
(* retry, calculateDelay of retry/gcp, and Retry-After.  A time.Duration   *)
(* is an integer of limited width, so sums and products wrap around.       *)
(***************************************************************************)
EXTENDS Integers

CONSTANTS
  Half,             \* durations are -Half .. Half - 1 (2^63 in Go)
  MaxShift,         \* maxAttemptShift
  DefBase, DefCap,  \* backoffBase, maxBackoff
  Second            \* time.Second

\* jitterFraction, jitterDivisor
Fraction == 5

ASSUME BackoffAssumption ==
  /\ Half \in Nat \ {0} /\ MaxShift \in Nat
  /\ DefBase \in Nat \ {0} /\ DefCap \in Nat \ {0}
  /\ DefCap + DefCap \div Fraction < Half
  /\ DefBase < Half
  /\ Second \in Nat \ {0}

\* Arithmetic that holds for any MaxShift; the provers take powers as opaque.
ASSUME PowerAssumption ==
  \A n \in 0..MaxShift : 2^n \in Nat \ {0} /\ 2^n <= 2^MaxShift

Durations == -Half .. Half - 1

\* What arithmetic on int64 leaves of the true result.
Wrap(x) == ((x + Half) % (2 * Half)) - Half

Least(a, b) == IF a <= b THEN a ELSE b
Most(a, b) == IF a <= b THEN b ELSE a

Shift(attempt) == Least(Most(attempt, 0), MaxShift)

BaseOf(base) == IF base <= 0 THEN DefBase ELSE base
CapOf(cap) == IF cap <= 0 THEN DefCap ELSE cap

\* jitter: any duration below a fifth of the delay, or none.
Jitter(b) == IF b \div Fraction > 0 THEN 0..(b \div Fraction - 1) ELSE {0}

\* Mutation of Capped: the overflow guard is missing.
CappedUnguarded(m, base, cap) == Least(Wrap(m * base), cap)

\* platform/retry: multiplier times base, unless that would exceed the cap.
\* The quotient plus one wraps around when the base is one and the cap is the
\* largest duration; every multiplier is above it then.
Capped(m, base, cap) ==
  IF m >= Wrap(cap \div base + 1) THEN cap ELSE Least(Wrap(m * base), cap)

\* platform/retry.BackoffWithConfig before jitter.
Platform(attempt, base, cap) ==
  IF BaseOf(base) >= CapOf(cap) THEN CapOf(cap)
  ELSE Capped(2^Shift(attempt), BaseOf(base), CapOf(cap))

\* retry.BackoffWithConfig and retry/gcp's calculateDelay before jitter.
Legacy(attempt, base, cap) ==
  Least(Wrap(2^Shift(attempt) * BaseOf(base)), CapOf(cap))

\* What a backoff of b before jitter may become.
Delays(b) == {Wrap(b + j) : j \in Jitter(b)}

\* RetryAfterDelay, parseRetryAfter: delta-seconds; a negative value and a
\* malformed header (here the same) are refused.
RetryAfter(secs) == Wrap(secs * Second)
=============================================================================
