----------------------------- MODULE RetryProofs -----------------------------
(***************************************************************************)
(* What MCRetry.tla asks of the retry loops, of the Transport, of the      *)
(* delays, of the error tables, of the provisioning loops and of the       *)
(* consent flow, proved of their composition for every value of the        *)
(* constants.  In each part an inductive invariant is shown to hold        *)
(* initially, to be kept by the part's own steps and by everybody else's,  *)
(* and to imply the property.                                              *)
(***************************************************************************)
EXTENDS MCRetry, TLAPS

\* DoVal and WithRetryVal: what every step keeps. A call is made only after a
\* delay that really passed, or as the first one; a tick in the timer's channel
\* is of the delay that is on; and the loop goes on only after a transient
\* error, with attempts left.
LoopInv ==
  /\ Loop!TypeOK
  /\ pc \in {"call", "arm", "select"} => attempt < MaxAttempts
                                         /\ outcome \in {"none", "transient"}
  /\ pc = "call" => rested
  /\ timer = "ticked" => rested
  /\ pc = "judge" => outcome # "none"
  /\ result = "none" <=> pc # "returned"
  /\ Loop!HonestResult
  /\ Loop!NoCallOnceCancelled
  /\ Loop!DelaysAreKept

\* It holds at first.
LEMMA LoopInit == Loop!Init => LoopInv
<1> SUFFICES ASSUME Loop!Init PROVE LoopInv
  OBVIOUS
<1>1. /\ checkFirst \in BOOLEAN /\ rested \in BOOLEAN /\ cancelled \in BOOLEAN
      /\ late \in BOOLEAN /\ rushed \in BOOLEAN
  BY Zenon DEF Loop!Init
<1>2. rested /\ ~late /\ ~rushed /\ ~cancelled
  BY Zenon DEF Loop!Init
<1> QED
  BY <1>1, <1>2, RetryAssumption
    DEF RetryAssumption, Loop!Init, LoopInv, Loop!TypeOK, Loop!HonestResult,
        Loop!NoCallOnceCancelled, Loop!DelaysAreKept

\* Call, fn, the judgement, the timer, select and a cancelled context keep it.
LEMMA LoopNext == LoopInv /\ Loop!Next => LoopInv'
<1> SUFFICES ASSUME LoopInv, Loop!Next PROVE LoopInv'
  OBVIOUS
<1> USE RetryAssumption
    DEF RetryAssumption, LoopInv, Loop!TypeOK, Loop!HonestResult,
        Loop!NoCallOnceCancelled, Loop!DelaysAreKept, Loop!Return
<1>1. CASE Loop!Call
  <2>1. CASE checkFirst /\ cancelled
    BY <1>1, <2>1 DEF Loop!Call
  <2>2. CASE ~(checkFirst /\ cancelled)
    <3>1. /\ late' = (late \/ cancelled) /\ rushed' = (rushed \/ ~rested)
          /\ rested /\ ~rushed /\ (checkFirst => ~late)
      BY <1>1, <2>2 DEF Loop!Call
    <3>2. late' \in BOOLEAN /\ ~rushed' /\ rushed' \in BOOLEAN /\ (checkFirst => ~late')
      BY <2>2, <3>1
    <3> QED
      BY <1>1, <2>2, <3>2 DEF Loop!Call
  <2> QED
    BY <2>1, <2>2
<1>2. CASE Loop!Fn
  BY <1>2 DEF Loop!Fn
<1>3. CASE Loop!Judge
  BY <1>3 DEF Loop!Judge
<1>4. CASE Loop!Arm
  <2>1. rested' \in BOOLEAN
    BY <1>4, Zenon DEF Loop!Arm
  <2> QED
    BY <1>4, <2>1 DEF Loop!Arm
<1>5. CASE Loop!Fire
  <2>1. rested' \in BOOLEAN
    BY <1>5, Zenon DEF Loop!Fire
  <2> QED
    BY <1>5, <2>1 DEF Loop!Fire
<1>6. CASE Loop!Select
  BY <1>6 DEF Loop!Select
<1>7. CASE Loop!Cancel
  <2>1. cancelled' \in BOOLEAN
    BY <1>7, Zenon DEF Loop!Cancel
  <2> QED
    BY <1>7, <2>1 DEF Loop!Cancel
<1> QED
  BY <1>1, <1>2, <1>3, <1>4, <1>5, <1>6, <1>7 DEF Loop!Next

\* It is what the run asks of the retry loops.
LEMMA LoopSafe == LoopInv => LoopSound
  BY DEF LoopInv, LoopSound, Loop!Sound

\* A step of another part keeps it.
LEMMA LoopStays == LoopInv /\ UNCHANGED ofLoop => LoopInv'
  BY DEF ofLoop, LoopInv, Loop!TypeOK, Loop!HonestResult, Loop!NoCallOnceCancelled,
         Loop!DelaysAreKept

\* DoVal, WithRetryVal: for every number of attempts the result says why the
\* loop ended, WithRetryVal calls nothing once the context is done, and no
\* stale tick of the reused timer cuts a delay short.
THEOREM LoopIsSound == FairSpec => []LoopSound
<1>1. Init => LoopInv
  BY LoopInit DEF Init
<1>2. LoopInv /\ [Next]_vars => LoopInv'
  BY LoopNext, LoopStays DEF Next, vars
<1>3. LoopInv => LoopSound
  BY LoopSafe
<1> QED
  BY <1>1, <1>2, <1>3, PTL DEF FairSpec
-----------------------------------------------------------------------------
\* Transport.RoundTrip: what every step keeps. Before an attempt no body is
\* open and none was sent that is not rewound, and while a response is judged
\* it is the only open one.
TripInv ==
  /\ Trip!TypeOK
  /\ kind = "none" => ~spent
  /\ at = "send" => kind = "none" \/ ~spent
  /\ at = "start" /\ try = 1 => ~spent
  /\ at \in {"start", "send", "wait"} => status # "ok"
  /\ at \in {"start", "send", "wait"} /\ ~nested => open = {}
  /\ at = "wait" => try < MaxAttempts
  /\ at = "judge" => /\ resp # 0 => resp \in open
                     /\ ~nested => open \subseteq {resp}
                     /\ ~nested /\ status = "error" => resp = 0
                     /\ status = "permanent" => resp = 0
                     /\ status \in {"ok", "retryable"} => resp # 0
  /\ at = "returned" /\ answer.err \notin {"nil", "exceeded"} => answer.resp = 0
  /\ TripSound

\* It holds at first.
LEMMA TripInit == Trip!Init => TripInv
<1> SUFFICES ASSUME Trip!Init PROVE TripInv
  OBVIOUS
<1>1. /\ nested \in BOOLEAN /\ viaClient \in BOOLEAN /\ spent \in BOOLEAN
      /\ aborted \in BOOLEAN /\ reused \in BOOLEAN
      /\ ~spent /\ ~reused
  BY Zenon DEF Trip!Init
<1> QED
  BY <1>1, RetryAssumption
    DEF RetryAssumption, Trip!Init, TripInv, Trip!TypeOK, Trip!Pending,
        Trip!Attempts, TripSound, Trip!Sound, Trip!NilErrorMeansSuccess,
        Trip!NoBodyLeft, Trip!EveryBodyClosed, Trip!AnswerReadable,
        Trip!BodyIsFresh

\* Every attempt, answer, wait and way out of RoundTrip, and the caller's Close
\* keep it.
LEMMA TripNext == TripInv /\ Trip!Next => TripInv'
<1> SUFFICES ASSUME TripInv, Trip!Next PROVE TripInv'
  OBVIOUS
<1> USE RetryAssumption
    DEF RetryAssumption, TripInv, Trip!TypeOK, Trip!Attempts,
        TripSound, Trip!Sound, Trip!NilErrorMeansSuccess, Trip!NoBodyLeft,
        Trip!EveryBodyClosed, Trip!AnswerReadable, Trip!BodyIsFresh, Trip!Return
<1>1. CASE Trip!Rewind
  <2>1. spent' \in BOOLEAN
    BY <1>1, Zenon DEF Trip!Rewind
  <2> QED
    BY <1>1, <2>1 DEF Trip!Rewind
<1>2. CASE Trip!Send
  <2>1. spent' = (kind # "none") /\ reused' = (reused \/ (kind # "none" /\ spent))
    BY <1>2 DEF Trip!Send
  <2>2. spent' \in BOOLEAN /\ (kind = "none" => ~spent')
    <3>1. CASE kind = "none"
      BY <2>1, <3>1
    <3>2. CASE kind # "none"
      BY <2>1, <3>2
    <3> QED
      BY <3>1, <3>2
  <2>3. ~reused' /\ reused' \in BOOLEAN
    <3>1. ~reused /\ (kind = "none" \/ ~spent)
      BY <1>2 DEF Trip!Send
    <3>2. reused' = FALSE
      BY <2>1, <3>1, Zenon
    <3> QED
      BY <3>2, Zenon
  <2>4. /\ at = "send" /\ at' = "judge" /\ open' \in SUBSET (1..MaxAttempts)
        /\ UNCHANGED <<nested, viaClient, kind, try, answer, aborted>>
        /\ \/ status' \in {"ok", "retryable"} /\ resp' = try /\ open' = open \cup {try}
           \/ status' \in {"error", "permanent"} /\ resp' = 0 /\ open' = open
           \/ nested /\ status' = "error" /\ resp' = try /\ open' = open \cup {try}
    BY <1>2 DEF Trip!Send
  <2> QED
    BY <2>2, <2>3, <2>4
<1>3. CASE Trip!Judge
  <2>1. CASE status = "ok" /\ Trip!Return(resp, "nil") /\ UNCHANGED open
    BY <1>3, <2>1 DEF Trip!Judge
  <2>2. CASE status = "permanent" /\ Trip!Return(0, "permanent") /\ UNCHANGED open
    BY <1>3, <2>2 DEF Trip!Judge
  <2>3. CASE status \in {"error", "retryable"} /\ Trip!Exhausted /\ UNCHANGED open
    BY <1>3, <2>3 DEF Trip!Judge, Trip!Exhausted
  <2>4. CASE status = "retryable" /\ ~Trip!Last /\ open' = open \ {resp} /\ at' = "wait"
             /\ UNCHANGED answer
    BY <1>3, <2>4 DEF Trip!Judge, Trip!Last
  <2>5. CASE status = "error" /\ ~Trip!Last /\ at' = "wait" /\ UNCHANGED <<open, answer>>
    BY <1>3, <2>5 DEF Trip!Judge, Trip!Last
  <2> QED
    BY <1>3, <2>1, <2>2, <2>3, <2>4, <2>5 DEF Trip!Judge
<1>4. CASE Trip!Wait
  BY <1>4 DEF Trip!Wait
<1>5. CASE Trip!Cancel
  <2>1. aborted' \in BOOLEAN
    BY <1>5, Zenon DEF Trip!Cancel
  <2> QED
    BY <1>5, <2>1 DEF Trip!Cancel
<1>6. CASE Trip!CallerClose
  <2>1. /\ at = "returned" /\ at' = "done"
        /\ UNCHANGED <<nested, viaClient, kind, spent, try, resp, status, answer,
                       aborted, reused>>
    BY <1>6 DEF Trip!CallerClose
  <2>2. CASE viaClient /\ answer.err # "nil"
    <3>1. open' = open
      BY <1>6, <2>2 DEF Trip!CallerClose
    <3> QED
      BY <2>1, <2>2, <3>1
  <2>3. CASE ~(viaClient /\ answer.err # "nil")
    <3>1. open' = open \ {answer.resp}
      BY <1>6, <2>3 DEF Trip!CallerClose
    <3>2. open' \in SUBSET (1..MaxAttempts)
      BY <3>1
    <3>3. ~nested => open' = {}
      BY <2>1, <3>1
    <3> QED
      BY <2>1, <3>2, <3>3
  <2> QED
    BY <2>2, <2>3
<1> QED
  BY <1>1, <1>2, <1>3, <1>4, <1>5, <1>6 DEF Trip!Next

\* It is what the run asks of the Transport.
LEMMA TripSafe == TripInv => TripSound
  BY DEF TripInv

\* A step of another part keeps it.
LEMMA TripStays == TripInv /\ UNCHANGED ofTrip => TripInv'
  BY DEF ofTrip, TripInv, Trip!TypeOK, Trip!Attempts,
        TripSound, Trip!Sound, Trip!NilErrorMeansSuccess, Trip!NoBodyLeft,
        Trip!EveryBodyClosed, Trip!AnswerReadable, Trip!BodyIsFresh

\* Transport.RoundTrip: for every number of attempts a nil error means that the
\* status was accepted, no body is left open but the ones the code is known to
\* leave, a returned response is readable, and no attempt sends a body that was
\* read before.
THEOREM TripIsSound == FairSpec => []TripSound
<1>1. Init => TripInv
  BY TripInit DEF Init
<1>2. TripInv /\ [Next]_vars => TripInv'
  BY TripNext, TripStays DEF Next, vars
<1>3. TripInv => TripSound
  BY TripSafe
<1> QED
  BY <1>1, <1>2, <1>3, PTL DEF FairSpec
-----------------------------------------------------------------------------
\* The comparison with the quotient keeps the product below the cap.
LEMMA DivBound ==
  ASSUME NEW m \in Nat, NEW b \in Nat \ {0}, NEW c \in Nat, m < c \div b + 1
  PROVE  m * b <= c
<1>1. m <= c \div b
  OBVIOUS
<1>2. (c \div b) * b <= c
  OBVIOUS
<1>3. m * b <= (c \div b) * b
  BY <1>1
<1> QED
  BY <1>2, <1>3

\* Arithmetic that stays in range is exact.
LEMMA WrapInRange ==
  ASSUME NEW x \in Int, -Half <= x, x < Half
  PROVE  Delay!Wrap(x) = x
  BY BackoffAssumption DEF BackoffAssumption, Delay!Wrap

\* Arithmetic always gives a duration.
LEMMA WrapIsDuration ==
  ASSUME NEW x \in Int
  PROVE  Delay!Wrap(x) \in Delay!Durations
  BY BackoffAssumption DEF BackoffAssumption, Delay!Wrap, Delay!Durations

\* The quotient plus one is a duration but for a base of one and the largest
\* duration as cap.
LEMMA QuotientFits ==
  ASSUME NEW b \in Nat \ {0}, NEW c \in Nat \ {0}, c < Half, ~(b = 1 /\ c = Half - 1)
  PROVE  Delay!Wrap(c \div b + 1) = c \div b + 1 /\ c \div b \in Nat
<1>1. PICK q \in Nat : q = c \div b /\ q * b <= c
  OBVIOUS
<1>2. q + 1 < Half
  <2>1. CASE b = 1
    BY <1>1, <2>1, BackoffAssumption DEF BackoffAssumption
  <2>2. CASE b >= 2
    <3>1. 2 * q <= q * b
      BY <1>1, <2>2
    <3>2. 2 * q <= c
      BY <1>1, <3>1
    <3> QED
      BY <1>1, <3>2, BackoffAssumption DEF BackoffAssumption
  <2> QED
    BY <2>1, <2>2
<1>3. Delay!Wrap(q + 1) = q + 1
  BY <1>1, <1>2, WrapInRange, BackoffAssumption DEF BackoffAssumption
<1> QED
  BY <1>1, <1>3

\* BackoffWithConfig's product is exact where it is used: for every multiplier,
\* base and cap the delay is the true product or the cap, whichever is less,
\* but for one configuration, a base of one and the largest duration as cap,
\* where the guard itself wraps around and every delay is the cap.
THEOREM CappedIsExact ==
  ASSUME NEW m \in Nat \ {0}, NEW b \in Nat \ {0}, NEW c \in Nat \ {0},
         c < Half
  PROVE  Delay!Capped(m, b, c) = IF b = 1 /\ c = Half - 1 THEN c ELSE Delay!Least(m * b, c)
<1>0. CASE b = 1 /\ c = Half - 1
  <2>1. c \div b + 1 = Half
    <3>1. c \div 1 = c /\ c + 1 = Half
      BY <1>0, BackoffAssumption DEF BackoffAssumption
    <3> QED
      BY <1>0, <3>1
  <2>2. Delay!Wrap(Half) = -Half
    BY BackoffAssumption DEF BackoffAssumption, Delay!Wrap
  <2>3. m >= -Half
    BY BackoffAssumption DEF BackoffAssumption
  <2> QED
    BY <1>0, <2>1, <2>2, <2>3 DEF Delay!Capped
<1> SUFFICES ASSUME ~(b = 1 /\ c = Half - 1)
             PROVE  Delay!Capped(m, b, c) = Delay!Least(m * b, c)
  BY <1>0
<1>4. Delay!Wrap(c \div b + 1) = c \div b + 1
  BY QuotientFits
<1>1. CASE m >= c \div b + 1
  <2>1. c < (c \div b + 1) * b
    OBVIOUS
  <2>2. (c \div b + 1) * b <= m * b
    BY <1>1
  <2>3. c <= m * b /\ m * b \in Int
    BY <2>1, <2>2
  <2> QED
    BY <1>1, <1>4, <2>3 DEF Delay!Capped, Delay!Least
<1>2. CASE m < c \div b + 1
  <2>1. m * b <= c /\ m * b \in Nat
    BY <1>2, DivBound
  <2>2. Delay!Wrap(m * b) = m * b
    BY <2>1, WrapInRange, BackoffAssumption DEF BackoffAssumption
  <2>3. ~(m >= c \div b + 1)
    BY <1>2
  <2> QED
    BY <1>4, <2>1, <2>2, <2>3 DEF Delay!Capped, Delay!Least
<1>3. c \div b \in Int
  OBVIOUS
<1> QED
  BY <1>1, <1>2, <1>3

\* The schedule is monotone: a larger multiplier, that is a later attempt,
\* never gives a shorter delay.
THEOREM CappedGrows ==
  ASSUME NEW m \in Nat \ {0}, NEW n \in Nat \ {0}, m <= n,
         NEW b \in Nat \ {0}, NEW c \in Nat \ {0}, c < Half
  PROVE  Delay!Capped(m, b, c) <= Delay!Capped(n, b, c)
<1>1. \/ Delay!Capped(m, b, c) = c /\ Delay!Capped(n, b, c) = c
      \/ /\ Delay!Capped(m, b, c) = Delay!Least(m * b, c)
         /\ Delay!Capped(n, b, c) = Delay!Least(n * b, c)
  BY CappedIsExact
<1>2. m * b \in Nat /\ n * b \in Nat /\ m * b <= n * b
  OBVIOUS
<1> QED
  BY <1>1, <1>2 DEF Delay!Least

\* With jitter a delay within the cap stays below the cap plus a fifth of it,
\* provided that much is a duration at all.
LEMMA JitterIsBounded ==
  ASSUME NEW b \in Nat \ {0}, NEW c \in Nat \ {0}, b <= c,
         c + c \div Delay!Fraction < Half, NEW d \in Delay!Delays(b)
  PROVE  d \in Nat /\ b <= d /\ d <= c + c \div Delay!Fraction
<1>3. PICK j \in Delay!Jitter(b) : d = Delay!Wrap(b + j)
  BY DEF Delay!Delays
<1>4. j \in Nat /\ j <= b \div Delay!Fraction
  BY <1>3 DEF Delay!Jitter, Delay!Fraction
<1>5. b \div Delay!Fraction <= c \div Delay!Fraction
  BY DEF Delay!Fraction
<1>6. b + j \in Int /\ b <= b + j /\ b + j <= c + c \div Delay!Fraction
  BY <1>4, <1>5 DEF Delay!Fraction
<1>7. Delay!Wrap(b + j) = b + j
  <2>1. c \div Delay!Fraction \in Int
    BY DEF Delay!Fraction
  <2>2. -Half <= b + j /\ b + j < Half
    BY <1>6, <2>1, BackoffAssumption DEF BackoffAssumption
  <2> QED
    BY <1>6, <2>2, WrapInRange
<1> QED
  BY <1>3, <1>6, <1>7

\* BackoffWithConfig: with jitter every delay of the schedule is positive and
\* below the cap plus a fifth of it, provided that much is a duration at all.
THEOREM DelayIsBounded ==
  ASSUME NEW m \in Nat \ {0}, NEW b \in Nat \ {0}, NEW c \in Nat \ {0},
         c + c \div Delay!Fraction < Half,
         NEW d \in Delay!Delays(Delay!Capped(m, b, c))
  PROVE  0 < d /\ d <= c + c \div Delay!Fraction
<1>1. c < Half
  BY BackoffAssumption DEF BackoffAssumption, Delay!Fraction
<1>2. Delay!Capped(m, b, c) = c \/ Delay!Capped(m, b, c) = Delay!Least(m * b, c)
  BY <1>1, CappedIsExact
<1>3. PICK x \in Nat \ {0} : x = Delay!Capped(m, b, c) /\ x <= c
  <2>1. m * b \in Nat \ {0}
    OBVIOUS
  <2> QED
    BY <1>2, <2>1 DEF Delay!Least
<1>4. PICK e \in Delay!Delays(x) : e = d
  BY <1>3
<1> QED
  BY <1>3, <1>4, JitterIsBounded

\* The multiplier is a power of two up to 2^MaxShift.
LEMMA Multiplier ==
  ASSUME NEW n \in Nat
  PROVE  /\ Delay!Shift(n) \in 0..MaxShift /\ 2^Delay!Shift(n) \in Nat \ {0}
         /\ 2^Delay!Shift(n) <= 2^MaxShift /\ 2^MaxShift \in Nat \ {0}
<1>1. Delay!Shift(n) \in 0..MaxShift /\ MaxShift \in 0..MaxShift
  BY BackoffAssumption DEF BackoffAssumption, Delay!Shift, Delay!Least, Delay!Most
<1> QED
  BY <1>1, PowerAssumption DEF PowerAssumption

\* The base and the cap in force.
LEMMA InForce ==
  ASSUME NEW x \in Delay!Durations
  PROVE  /\ Delay!BaseOf(x) \in Nat \ {0} /\ Delay!BaseOf(x) < Half
         /\ Delay!CapOf(x) \in Nat \ {0} /\ Delay!CapOf(x) < Half
         /\ x > 0 => Delay!CapOf(x) = x
  BY BackoffAssumption
    DEF BackoffAssumption, Delay!Durations, Delay!BaseOf, Delay!CapOf, Fraction

\* BackoffWithConfig, calculateDelay and retryDelay: the bounds are kept by
\* every attempt, because the multiplier stops growing at maxAttemptShift.
DelayInv ==
  /\ Delay!TypeOK
  /\ header \in Nat \cup {Delay!NoHeader}
  /\ Delay!DelayInBounds
  /\ Delay!ExactlyCapped
  /\ Delay!ServerPaces

\* It holds at first.
LEMMA DelayInit == Delay!Init => DelayInv
<1> SUFFICES ASSUME Delay!Init PROVE DelayInv
  OBVIOUS
<1>1. Delay!Durations = Durations
  BY DEF Delay!Durations, Durations
<1>2. base \in Delay!Durations /\ cap \in Delay!Durations /\ 0 \in Delay!Durations
  BY <1>1, RetryAssumption, BackoffAssumption
    DEF RetryAssumption, BackoffAssumption, Delay!Init, Durations
<1>3. header \in Nat \cup {Delay!NoHeader} /\ header \in Int
  BY RetryAssumption DEF RetryAssumption, Delay!Init, Delay!NoHeader
<1> QED
  BY <1>2, <1>3
    DEF Delay!Init, DelayInv, Delay!TypeOK, Delay!DelayInBounds, Delay!ExactlyCapped,
        Delay!ServerPaces

\* A retry of any of the three schedules keeps it, with or without a Retry-
\* After.
LEMMA DelayNext == DelayInv /\ Delay!Next => DelayInv'
<1> SUFFICES ASSUME DelayInv, Delay!Next PROVE DelayInv'
  OBVIOUS
<1>1. /\ delays \in Nat /\ delays' = delays + 1 /\ step' = Delay!StepOf(delays)
      /\ UNCHANGED <<schedule, base, cap, header>>
      /\ \E d \in Delay!Delays(step') : delay' = Delay!Paced(d)
  BY DEF Delay!Next, Delay!Retry, DelayInv, Delay!TypeOK
<1>2. PICK m \in Nat \ {0}, top \in Nat \ {0} :
           m = 2^Delay!Shift(delays) /\ top = 2^MaxShift /\ m <= top
  BY <1>1, Multiplier
<1>3. PICK b \in Nat \ {0}, c \in Nat \ {0} :
           /\ b = Delay!BaseOf(base) /\ c = Delay!CapOf(cap) /\ b < Half /\ c < Half
           /\ cap > 0 => c = cap
  BY InForce DEF DelayInv, Delay!TypeOK
<1>4. PICK s : s = step'
  OBVIOUS
<1>5. PICK d \in Delay!Delays(s) : delay' = Delay!Paced(d)
  BY <1>1, <1>4
<1>6. /\ schedule = "platform" => s = IF b >= c THEN c ELSE Delay!Capped(m, b, c)
      /\ schedule # "platform" => s = Delay!Least(Delay!Wrap(m * b), c)
  BY <1>1, <1>2, <1>3, <1>4 DEF Delay!StepOf, Delay!Platform, Delay!Legacy
<1>7. m * b \in Int /\ m * b > 0 /\ m * b <= top * b
  BY <1>2, <1>3
<1>8. schedule = "platform" => s \in Nat \ {0} /\ s <= c
  <2>1. Delay!Capped(m, b, c) = c \/ Delay!Capped(m, b, c) = Delay!Least(m * b, c)
    BY <1>3, CappedIsExact
  <2> QED
    BY <1>3, <1>6, <1>7, <2>1 DEF Delay!Least
<1>9. s \in Int /\ s \in Delay!Durations
  <2>1. c \in Delay!Durations
    BY <1>3, BackoffAssumption DEF BackoffAssumption, Delay!Durations
  <2>2. schedule = "platform" => s \in Delay!Durations
    BY <1>3, <1>8, BackoffAssumption DEF BackoffAssumption, Delay!Durations
  <2>3. Delay!Wrap(m * b) \in Delay!Durations /\ Delay!Wrap(m * b) \in Int
    BY <1>7, WrapIsDuration DEF Delay!Durations
  <2>4. schedule # "platform" => s \in Delay!Durations
    BY <1>3, <1>6, <2>1, <2>3 DEF Delay!Least
  <2> QED
    BY <2>2, <2>4 DEF Delay!Durations
<1>10. d \in Delay!Durations /\ d \in Int
  <2>1. PICK j \in Delay!Jitter(s) : d = Delay!Wrap(s + j)
    BY DEF Delay!Delays
  <2>2. s + j \in Int
    BY <1>9, <2>1 DEF Delay!Jitter, Delay!Fraction
  <2> QED
    BY <2>1, <2>2, WrapIsDuration DEF Delay!Durations
<1>11. Delay!Fits => s \in Nat \ {0} /\ s <= c /\ c + c \div Delay!Fraction < Half
  <2> SUFFICES ASSUME Delay!Fits PROVE s \in Nat \ {0} /\ s <= c /\ c + c \div Delay!Fraction < Half
    OBVIOUS
  <2>1. c + c \div Delay!Fraction < Half
    BY <1>3 DEF Delay!Fits
  <2>2. CASE schedule # "platform"
    <3>1. top * b < Half
      BY <1>2, <1>3, <2>2 DEF Delay!Fits
    <3>2. m * b < Half /\ -Half <= m * b
      BY <1>2, <1>3, <1>7, <3>1, BackoffAssumption DEF BackoffAssumption
    <3>3. Delay!Wrap(m * b) = m * b
      BY <1>7, <3>2, WrapInRange
    <3> QED
      BY <1>3, <1>6, <1>7, <2>1, <2>2, <3>3 DEF Delay!Least
  <2> QED
    BY <1>8, <2>1, <2>2
<1>12. Delay!DelayInBounds'
  <2> SUFFICES ASSUME Delay!Fits
               PROVE  /\ 0 < s /\ s <= c
                      /\ header = Delay!NoHeader => s <= delay' /\ delay' <= c + c \div Delay!Fraction
    BY <1>1, <1>3, <1>4
      DEF Delay!DelayInBounds, Delay!Fits, Delay!CapOf, Delay!BaseOf,
          Delay!NoHeader
  <2>1. s <= d /\ d <= c + c \div Delay!Fraction
    BY <1>11, JitterIsBounded
  <2>2. header = Delay!NoHeader => delay' = d
    BY <1>5 DEF Delay!Paced
  <2> QED
    BY <1>11, <2>1, <2>2
<1>13. PICK r \in Int : /\ r = Delay!RetryAfter(header) /\ r \in Delay!Durations
                        /\ header # Delay!NoHeader /\ header * Second < Half => r = header * Second
  <2>1. header * Second \in Int
    BY BackoffAssumption DEF BackoffAssumption, DelayInv, Delay!NoHeader
  <2>2. header # Delay!NoHeader => header * Second >= 0
    BY BackoffAssumption DEF BackoffAssumption, DelayInv
  <2>3. Delay!RetryAfter(header) \in Delay!Durations /\ Delay!RetryAfter(header) \in Int
    BY <2>1, WrapIsDuration DEF Delay!RetryAfter, Delay!Durations
  <2>4. header # Delay!NoHeader /\ header * Second < Half => Delay!RetryAfter(header) = header * Second
    BY <2>1, <2>2, WrapInRange, BackoffAssumption
      DEF BackoffAssumption, Delay!RetryAfter
  <2> QED
    BY <2>3, <2>4
<1>14. /\ cap \in Int /\ DefCap \in Int /\ DefCap \in Delay!Durations
       /\ cap \in Delay!Durations
  BY BackoffAssumption
    DEF BackoffAssumption, Delay!Durations, DelayInv, Delay!TypeOK, Fraction
<1>15. /\ header = Delay!NoHeader => delay' = d
       /\ header # Delay!NoHeader /\ schedule # "gcp" => delay' = Delay!Least(r, DefCap)
       /\ header # Delay!NoHeader /\ schedule = "gcp" /\ cap > 0 =>
            delay' = Delay!Least(Delay!Most(d, r), cap)
       /\ header # Delay!NoHeader /\ schedule = "gcp" /\ ~(cap > 0) => delay' = Delay!Most(d, r)
  BY <1>5, <1>13 DEF Delay!Paced
<1>16. delay' \in Delay!Durations
  <2>1. CASE header = Delay!NoHeader
    BY <1>10, <1>15, <2>1
  <2>2. CASE header # Delay!NoHeader /\ schedule # "gcp"
    BY <1>13, <1>14, <1>15, <2>2 DEF Delay!Least
  <2>3. CASE header # Delay!NoHeader /\ schedule = "gcp"
    <3>1. PICK x \in Int : x = Delay!Most(d, r) /\ x \in Delay!Durations
      BY <1>10, <1>13 DEF Delay!Most
    <3> QED
      BY <1>14, <1>15, <2>3, <3>1 DEF Delay!Least
  <2> QED
    BY <2>1, <2>2, <2>3
<1>17. Delay!ServerPaces'
  <2> SUFFICES ASSUME header # Delay!NoHeader, header * Second < Half
               PROVE  IF schedule = "gcp"
                        THEN delay' >= IF cap > 0 THEN Delay!Least(header * Second, cap)
                                                  ELSE header * Second
                        ELSE delay' = Delay!Least(header * Second, DefCap)
    BY <1>1 DEF Delay!ServerPaces, Delay!NoHeader, Delay!Least
  <2>1. r = header * Second
    BY <1>13
  <2>2. CASE schedule = "gcp"
    BY <1>10, <1>13, <1>14, <1>15, <2>1, <2>2 DEF Delay!Least, Delay!Most
  <2> QED
    BY <1>15, <2>1, <2>2
<1>19. Delay!ExactlyCapped'
  <2> SUFFICES ASSUME schedule = "platform"
               PROVE  s = IF b = 1 /\ c = Half - 1 THEN c ELSE Delay!Least(m * b, c)
    <3>1. delays' - 1 = delays
      BY <1>1
    <3> QED
      BY <1>1, <1>2, <1>3, <1>4, <3>1
        DEF Delay!ExactlyCapped, Delay!BaseOf, Delay!CapOf, Delay!Least
  <2>1. CASE b >= c
    <3>1. c <= m * b
      BY <1>2, <1>3, <2>1
    <3> QED
      BY <1>3, <1>6, <1>7, <2>1, <3>1 DEF Delay!Least
  <2>2. CASE ~(b >= c)
    <3>1. s = Delay!Capped(m, b, c)
      BY <1>6, <2>2
    <3>2. c < Half
      BY <1>3
    <3> QED
      BY <3>1, <3>2, CappedIsExact
  <2> QED
    BY <2>1, <2>2
<1>18. Delay!TypeOK'
  BY <1>1, <1>4, <1>9, <1>16 DEF DelayInv, Delay!TypeOK, Delay!Durations
<1> QED
  BY <1>1, <1>12, <1>17, <1>18, <1>19 DEF DelayInv, Delay!NoHeader

\* It is what the run asks of the delays.
LEMMA DelaySafe == DelayInv => DelaySound
  BY DEF DelayInv, DelaySound, Delay!Sound

\* A step of another part keeps it.
LEMMA DelayStays == DelayInv /\ UNCHANGED ofDelay => DelayInv'
  BY DEF ofDelay, DelayInv, Delay!TypeOK, Delay!DelayInBounds, Delay!ExactlyCapped,
         Delay!ServerPaces, Delay!Fits, Delay!Durations, Delay!NoHeader,
         Delay!CapOf, Delay!BaseOf, Delay!Least

\* BackoffWithConfig, calculateDelay, retryDelay: for every base, cap, header
\* and attempt no delay is negative or beyond its cap and the jitter where the
\* configuration leaves room for it, platform/retry's is exact before jitter,
\* and a Retry-After is kept up to the maximum in force.
THEOREM DelayIsSound == FairSpec => []DelaySound
<1>1. Init => DelayInv
  BY DelayInit DEF Init
<1>2. DelayInv /\ [Next]_vars => DelayInv'
  BY DelayNext, DelayStays DEF Next, vars
<1>3. DelayInv => DelaySound
  BY DelaySafe
<1> QED
  BY <1>1, <1>2, <1>3, PTL DEF FairSpec
-----------------------------------------------------------------------------
\* apierr: RetryableStatus(code) is IsRetryable(FromStatus(code)), and
\* RetryableGRPCCode(code) differs from IsRetryable(FromGRPCCode(code)) in
\* ABORTED only, as apierr.go documents, for every integer and not only for the
\* codes that a run enumerates.
THEOREM TablesAlwaysAgree ==
  ASSUME NEW code \in Int
  PROVE  Error!TablesAgree(code)
<1>1. Error!RetryableStatus(code) <=> Error!IsRetryable(Error!FromStatus(code))
  BY DEF Error!RetryableStatus, Error!IsRetryable, Error!FromStatus
<1>2. Error!RetryableGRPCCode(code)
        <=> Error!IsRetryable(Error!FromGRPCCode(code)) \/ code = Error!grpcAborted
  BY DEF Error!RetryableGRPCCode, Error!IsRetryable, Error!FromGRPCCode,
         Error!grpcOK, Error!grpcInvalidArgument, Error!grpcDeadlineExceeded,
         Error!grpcNotFound, Error!grpcAlreadyExists,
         Error!grpcPermissionDenied, Error!grpcResourceExhausted,
         Error!grpcAborted, Error!grpcInternal, Error!grpcUnavailable,
         Error!grpcUnauthenticated
<1> QED
  BY <1>1, <1>2 DEF Error!TablesAgree

\* Classify: a verdict is about an error, and one to retry has positive
\* evidence and a live context.
ErrorInv ==
  /\ Error!TypeOK
  /\ verdict # "none" => err \in Error!Errors
  /\ verdict = "transient" => ~ctxDone /\ ~err.canceled /\ Error!Retryable(err)

\* It holds at first.
LEMMA ErrorInit == Error!Init => ErrorInv
<1> SUFFICES ASSUME Error!Init PROVE ErrorInv
  OBVIOUS
<1> QED
  BY DEF Error!Init, ErrorInv, Error!TypeOK

\* A judgement keeps it.
LEMMA ErrorNext == ErrorInv /\ Error!Next => ErrorInv'
<1> SUFFICES ASSUME ErrorInv, Error!Next PROVE ErrorInv'
  OBVIOUS
<1>1. PICK e \in Error!Errors : Error!Classify(e)
  BY DEF Error!Next
<1>2. err' = e /\ ctxDone' = ctxDone /\ verdict' \in {"transient", "permanent"}
  BY <1>1, Zenon DEF Error!Classify
<1>3. verdict' = "transient" => ~ctxDone /\ ~e.canceled /\ Error!Retryable(e)
  BY <1>1 DEF Error!Classify
<1> HIDE DEF Error!Errors
<1> QED
  BY <1>2, <1>3 DEF ErrorInv, Error!TypeOK

\* It is what the run asks of the error tables.
LEMMA ErrorSafe == ErrorInv => ErrorSound
<1> SUFFICES ASSUME ErrorInv PROVE ErrorSound
  OBVIOUS
<1>1. Error!RetryNeedsReason
  BY DEF ErrorInv, Error!RetryNeedsReason, Error!Retryable, Error!Bare,
         Error!OAuthRetryable, Error!TextRetryable, Error!APIRetryable
<1>2. Error!TextDecidesNothingTyped
  <2> SUFFICES ASSUME verdict # "none", NEW t,
                      Error!Bare(err) \/ err.oauth # Error!NoOAuth \/ err.net # "none" \/ err.eof
               PROVE  Error!Retryable([err EXCEPT !.text = t]) = Error!Retryable(err)
    BY DEF Error!TextDecidesNothingTyped
  <2>1. err \in Error!Errors
    BY DEF ErrorInv
  <2> DEFINE e == [err EXCEPT !.text = t]
  <2>2. /\ e.api = err.api /\ e.grpc = err.grpc /\ e.oauth = err.oauth
        /\ e.net = err.net /\ e.eof = err.eof /\ e.quota = err.quota
    BY <2>1 DEF Error!Errors
  <2> HIDE DEF e
  <2> QED
    BY <2>2 DEF Error!Retryable, Error!Bare,
         Error!OAuthRetryable, Error!TextRetryable, Error!APIRetryable
<1>3. \A code \in -1..600 : Error!TablesAgree(code)
  BY TablesAlwaysAgree
<1> QED
  BY <1>1, <1>2, <1>3 DEF ErrorInv, ErrorSound, Error!Sound

\* A step of another part keeps it.
LEMMA ErrorStays == ErrorInv /\ UNCHANGED ofError => ErrorInv'
  BY DEF ofError, ErrorInv, Error!TypeOK

\* Classify: for every error nothing is retried without positive evidence,
\* texts never overrule typed errors, and the two retry tables agree with the
\* sentinels.
THEOREM ErrorIsSound == FairSpec => []ErrorSound
<1>1. Init => ErrorInv
  BY ErrorInit DEF Init
<1>2. ErrorInv /\ [Next]_vars => ErrorInv'
  BY ErrorNext, ErrorStays DEF Next, vars
<1>3. ErrorInv => ErrorSound
  BY ErrorSafe
<1> QED
  BY <1>1, <1>2, <1>3, PTL DEF FairSpec
-----------------------------------------------------------------------------
\* CreateProject and BatchEnableAPIs: what every step keeps. An operation that
\* is done has its APIs enabled, and the loop waits for the operation that it
\* started.
PollsInv ==
  /\ Polls!TypeOK /\ tries \in Nat
  /\ op \in [apis : SUBSET Apis, state : {"none", "running", "done", "failed"}]
  /\ op.state = "done" => op.apis \subseteq enabled
  /\ poll # "idle" => told.end = "running"
  /\ poll = "enabling" => op.apis = asked /\ op.state # "none"
  /\ Polls!AnswersAreTrue

\* The poll loop has attempts.
LEMMA PollLimit == Polls!maxAttempts \in Nat \ {0}
  BY RetryAssumption DEF RetryAssumption, Polls!maxAttempts

\* It holds at first.
LEMMA PollsInit == Polls!Init => PollsInv
<1> SUFFICES ASSUME Polls!Init PROVE PollsInv
  OBVIOUS
<1>1. paying \in BOOLEAN
  BY Zenon DEF Polls!Init
<1> QED
  BY <1>1, PollLimit DEF Polls!Init, PollsInv, Polls!TypeOK, Polls!AnswersAreTrue

\* The calls, the polls, the service's own steps and a cancelled context keep
\* it.
LEMMA PollsNext == PollsInv /\ Polls!Next => PollsInv'
<1> SUFFICES ASSUME PollsInv, Polls!Next PROVE PollsInv'
  OBVIOUS
<1>0. PICK m \in Nat \ {0} : m = Polls!maxAttempts /\ m = Polls!maxAttempts'
  BY PollLimit DEF Polls!maxAttempts
<1> USE RetryAssumption, <1>0
  DEF RetryAssumption, PollsInv, Polls!TypeOK, Polls!AnswersAreTrue,
      Polls!Begin, Polls!Ends, Polls!remote, Polls!Exists
<1>1. ASSUME NEW valid \in BOOLEAN, Polls!CheckProjectExists(valid) PROVE PollsInv'
  BY <1>1 DEF Polls!CheckProjectExists
<1>2. ASSUME NEW valid \in BOOLEAN, Polls!CreateProject(valid) PROVE PollsInv'
  BY <1>2 DEF Polls!CreateProject
<1>3. ASSUME NEW a \in Accounts, Polls!CheckBillingLinked(a) PROVE PollsInv'
  BY <1>3 DEF Polls!CheckBillingLinked
<1>4. ASSUME NEW a \in Accounts, Polls!LinkBilling(a) PROVE PollsInv'
  <2>1. paying' \in BOOLEAN
    BY <1>4, Zenon DEF Polls!LinkBilling
  <2>2. /\ billing' = billing \/ billing' = a
        /\ \/ told' = [call |-> "link", end |-> "nil"]
           \/ told' = [call |-> "link", end |-> "error"]
        /\ UNCHANGED <<project, enabled, op, tries, asked>>
        /\ poll = "idle" /\ poll' = "idle"
    BY <1>4, Zenon DEF Polls!LinkBilling
  <2>3. told'.call = "link" /\ told'.end \in {"nil", "error"}
    BY <2>2
  <2> QED
    BY <2>1, <2>2, <2>3
<1>5. ASSUME NEW apis \in SUBSET Apis, Polls!BatchEnableAPIs(apis) PROVE PollsInv'
  BY <1>5 DEF Polls!BatchEnableAPIs
<1>6. CASE Polls!PollProject
  BY <1>6 DEF Polls!PollProject
<1>7. CASE Polls!PollOperation
  <2>1. poll = "enabling" /\ UNCHANGED <<project, billing, paying, enabled, op, asked>>
    BY <1>7 DEF Polls!PollOperation
  <2>2. CASE tries >= m /\ Polls!Ends("enable", "timeout") /\ poll' = "idle" /\ UNCHANGED tries
    BY <2>1, <2>2
  <2>3. CASE tries < m /\ Polls!Ends("enable", "interrupted") /\ poll' = "idle" /\ UNCHANGED tries
    BY <2>1, <2>3
  <2>4. CASE /\ tries < m /\ tries' = tries + 1 /\ poll' = "idle"
             /\ Polls!Ends("enable", "error") \/ Polls!Ends("enable", "failed")
    BY <2>1, <2>4
  <2>5. CASE /\ tries < m /\ tries' = tries + 1 /\ poll' = "idle"
             /\ op.state = "done" /\ Polls!Ends("enable", "nil")
    BY <2>1, <2>5
  <2>6. CASE tries < m /\ tries' = tries + 1 /\ UNCHANGED <<told, poll>>
    BY <2>1, <2>6
  <2> QED
    BY <1>7, <2>2, <2>3, <2>4, <2>5, <2>6 DEF Polls!PollOperation
<1>8. CASE Polls!ServiceStep
  <2>1. UNCHANGED <<billing, paying, poll, tries, told, asked>>
    BY <1>8 DEF Polls!ServiceStep
  <2>2. CASE project = "pending" /\ project' = "active" /\ UNCHANGED <<enabled, op>>
    BY <2>1, <2>2
  <2>3. CASE /\ op.state = "running" /\ op' = [op EXCEPT !.state = "done"]
             /\ enabled' = enabled \cup op.apis /\ UNCHANGED project
    BY <2>1, <2>3
  <2>4. CASE /\ op.state = "running" /\ op' = [op EXCEPT !.state = "failed"]
             /\ UNCHANGED <<enabled, project>>
    BY <2>1, <2>4
  <2> QED
    BY <1>8, <2>2, <2>3, <2>4 DEF Polls!ServiceStep
<1>9. CASE Polls!Cancel
  BY <1>9 DEF Polls!Cancel
<1> QED
  BY <1>1, <1>2, <1>3, <1>4, <1>5, <1>6, <1>7, <1>8, <1>9 DEF Polls!Next, Polls!Poll

\* It is what the run asks of the provisioning loops.
LEMMA PollsSafe == PollsInv => PollsSound
  BY DEF PollsInv, PollsSound, Polls!Sound

\* A step of another part keeps it.
LEMMA PollsStays == PollsInv /\ UNCHANGED ofPoll => PollsInv'
  BY DEF ofPoll, PollsInv, Polls!TypeOK, Polls!AnswersAreTrue, Polls!maxAttempts

\* CreateProject, BatchEnableAPIs, CheckBillingLinked: for every set of APIs
\* and accounts an answer is true of the project, and a loop gives up after its
\* last attempt and not before.
THEOREM PollsIsSound == FairSpec => []PollsSound
<1>1. Init => PollsInv
  BY PollsInit DEF Init
<1>2. PollsInv /\ [Next]_vars => PollsInv'
  BY PollsNext, PollsStays DEF Next, vars
<1>3. PollsInv => PollsSound
  BY PollsSafe
<1> QED
  BY <1>1, <1>2, <1>3, PTL DEF FairSpec
-----------------------------------------------------------------------------
\* What a program's consent flow is.
Flows == [pc : {"begin", "load", "listen", "wait", "save", "write", "client", "failed"},
          code : {"", "mine"}, err : {"", "errNoCode", "errStateMismatch", "serve"},
          tok : {"", "mine"}, up : BOOLEAN]

\* Somebody consented: a code came in with its program's own state.
Granted == \E q \in Programs : "mine" \in history[q]

\* consentFlow, loadToken, saveToken: what every step keeps. A token in the
\* file, in hand or to be saved goes back to somebody's own consent.
AuthInv ==
  /\ file \in {"none", "torn", "mine"}
  /\ flow \in [Programs -> Flows]
  /\ history \in [Programs -> SUBSET {"", "mine"}]
  /\ file = "mine" => Granted
  /\ \A p \in Programs : /\ flow[p].code = "mine" => Granted
                         /\ flow[p].tok = "mine" => Granted
                         /\ flow[p].pc \in {"save", "write", "client"} => flow[p].tok = "mine"

\* It holds at first.
LEMMA AuthInit == Auth!Init => AuthInv
<1> SUFFICES ASSUME Auth!Init PROVE AuthInv
  OBVIOUS
<1>1. PICK f : f = FALSE
  OBVIOUS
<1>2. f \in BOOLEAN
  BY <1>1, Zenon
<1>3. Auth!Start \in Flows
  BY <1>1, <1>2 DEF Auth!Start, Flows
<1>4. Auth!Start.code = "" /\ Auth!Start.tok = "" /\ Auth!Start.pc = "begin"
  BY DEF Auth!Start
<1> QED
  BY <1>3, <1>4 DEF Auth!Init, AuthInv

\* What a step of program p does to the flows.
LEMMA FlowMoves ==
  ASSUME AuthInv, NEW p \in Programs, NEW f \in Flows, flow' = [flow EXCEPT ![p] = f],
         Granted => Granted', history' \in [Programs -> SUBSET {"", "mine"}],
         file' \in {"none", "torn", "mine"}, file' = "mine" => Granted',
         f.code = "mine" => Granted', f.tok = "mine" => Granted',
         f.pc \in {"save", "write", "client"} => f.tok = "mine"
  PROVE  AuthInv'
  BY DEF AuthInv

\* The steps of a program, strays at its listener, failing writes and other
\* programs' files keep it.
LEMMA AuthNext == AuthInv /\ Auth!Next => AuthInv'
<1> SUFFICES ASSUME AuthInv, NEW p \in Programs,
                    \/ Auth!resolveCredentials(p) \/ Auth!loadToken(p) \/ Auth!consentFlow(p)
                    \/ Auth!Receive(p) \/ Auth!Cancel(p)
                    \/ Auth!saveToken(p) \/ Auth!ServerFails(p) \/ Auth!Restart(p)
                    \/ \E own \in BOOLEAN, code \in {"mine", "", "stray"} :
                         /\ Auth!ServeHTTP(p, own, code)
                         /\ code = "stray" => ~own
             PROVE  AuthInv'
  BY DEF Auth!Next
<1>1. /\ flow[p] \in Flows /\ (flow[p].code = "mine" => Granted)
      /\ (flow[p].tok = "mine" => Granted)
      /\ (flow[p].pc \in {"save", "write", "client"} => flow[p].tok = "mine")
      /\ flow \in [Programs -> Flows] /\ history \in [Programs -> SUBSET {"", "mine"}]
      /\ file \in {"none", "torn", "mine"} /\ (file = "mine" => Granted)
  BY DEF AuthInv
<1>2. ASSUME NEW f \in Flows, flow' = [flow EXCEPT ![p] = f], UNCHANGED <<file, history>>,
             f.code = "mine" => flow[p].code = "mine",
             f.tok = "mine" => flow[p].tok = "mine" \/ flow[p].code = "mine" \/ file = "mine",
             f.pc \in {"save", "write", "client"} => f.tok = "mine"
      PROVE  AuthInv'
  <2>1. Granted' <=> Granted
    BY <1>2 DEF Granted
  <2> QED
    BY <1>1, <1>2, <2>1, FlowMoves
<1>3. CASE Auth!resolveCredentials(p)
  <2>1. PICK x \in {"load", "failed"} : /\ flow' = [flow EXCEPT ![p].pc = x]
                                        /\ UNCHANGED <<file, history>>
    BY <1>3 DEF Auth!resolveCredentials, Auth!Step
  <2>2. PICK f : f = [flow[p] EXCEPT !.pc = x]
    OBVIOUS
  <2> QED
    BY <1>1, <1>2, <2>1, <2>2 DEF Flows
<1>4. CASE Auth!loadToken(p)
  <2>1. UNCHANGED <<file, history>>
    BY <1>4 DEF Auth!loadToken
  <2>2. CASE file \in {"none", "torn"}
    <3>1. PICK f : f = [flow[p] EXCEPT !.pc = "listen", !.tok = ""]
      OBVIOUS
    <3>2. flow' = [flow EXCEPT ![p] = f]
      BY <1>1, <1>4, <2>2, <3>1 DEF Auth!loadToken, Flows
    <3> QED
      BY <1>1, <1>2, <2>1, <3>1, <3>2 DEF Flows
  <2>3. CASE file = "mine"
    <3>1. PICK f : f = [flow[p] EXCEPT !.pc = "client", !.tok = "mine"]
      OBVIOUS
    <3>2. flow' = [flow EXCEPT ![p] = f]
      BY <1>1, <1>4, <2>3, <3>1 DEF Auth!loadToken, Flows
    <3> QED
      BY <1>1, <1>2, <2>1, <2>3, <3>1, <3>2 DEF Flows
  <2> QED
    BY <1>1, <2>2, <2>3
<1>5. CASE Auth!consentFlow(p)
  <2>1. PICK ok \in BOOLEAN, x \in {"wait", "failed"} :
          /\ flow' = [flow EXCEPT ![p].pc = x, ![p].up = ok]
          /\ UNCHANGED <<file, history>>
    BY <1>5 DEF Auth!consentFlow
  <2>2. PICK f : f = [flow[p] EXCEPT !.pc = x, !.up = ok]
    OBVIOUS
  <2>3. /\ f \in Flows /\ f.code = flow[p].code /\ f.tok = flow[p].tok /\ f.pc = x
        /\ flow' = [flow EXCEPT ![p] = f]
    BY <1>1, <2>1, <2>2 DEF Flows
  <2> QED
    BY <1>1, <1>2, <2>1, <2>3
<1>6. PICK no \in BOOLEAN : ~no
  OBVIOUS
<1>7. CASE Auth!Receive(p)
  <2>0. UNCHANGED <<file, history>>
    BY <1>7 DEF Auth!Receive
  <2>1. CASE /\ flow[p].code # ""
             /\ flow' = [flow EXCEPT ![p].pc = "save", ![p].up = FALSE, ![p].tok = flow[p].code]
    <3>1. PICK f : f = [flow[p] EXCEPT !.pc = "save", !.up = no, !.tok = flow[p].code]
      OBVIOUS
    <3>2. flow' = [flow EXCEPT ![p] = f]
      BY <1>1, <1>6, <2>1, <3>1 DEF Flows
    <3> QED
      BY <1>1, <1>2, <2>0, <2>1, <3>1, <3>2 DEF Flows
  <2>2. CASE flow' = [flow EXCEPT ![p].pc = "failed", ![p].up = FALSE, ![p].tok = ""]
    <3>1. PICK f : f = [flow[p] EXCEPT !.pc = "failed", !.up = no, !.tok = ""]
      OBVIOUS
    <3>2. flow' = [flow EXCEPT ![p] = f]
      BY <1>1, <1>6, <2>2, <3>1 DEF Flows
    <3> QED
      BY <1>1, <1>2, <2>0, <3>1, <3>2 DEF Flows
  <2>3. CASE flow' = [flow EXCEPT ![p].pc = "failed", ![p].up = FALSE]
    <3>1. PICK f : f = [flow[p] EXCEPT !.pc = "failed", !.up = no]
      OBVIOUS
    <3>2. flow' = [flow EXCEPT ![p] = f]
      BY <1>1, <1>6, <2>3, <3>1 DEF Flows
    <3> QED
      BY <1>1, <1>2, <2>0, <3>1, <3>2 DEF Flows
  <2> QED
    BY <1>7, <2>1, <2>2, <2>3 DEF Auth!Receive
<1>8. CASE Auth!Cancel(p)
  <2>1. PICK f : f = [flow[p] EXCEPT !.pc = "failed", !.up = no]
    OBVIOUS
  <2>2. flow' = [flow EXCEPT ![p] = f] /\ UNCHANGED <<file, history>>
    BY <1>1, <1>6, <1>8, <2>1 DEF Auth!Cancel, Flows
  <2> QED
    BY <1>1, <1>2, <2>1, <2>2 DEF Flows
<1>9. CASE Auth!saveToken(p)
  <2>1. PICK x \in {"write", "client"} :
          /\ flow' = [flow EXCEPT ![p].pc = x] /\ UNCHANGED history
          /\ file' \in {"torn", file, flow[p].tok} /\ flow[p].pc \in {"save", "write"}
    BY <1>9 DEF Auth!saveToken, Auth!Step, Auth!At
  <2>2. PICK f : f = [flow[p] EXCEPT !.pc = x]
    OBVIOUS
  <2>3. /\ f \in Flows /\ flow' = [flow EXCEPT ![p] = f]
        /\ f.code = flow[p].code /\ f.tok = flow[p].tok /\ flow[p].tok = "mine"
    BY <1>1, <2>1, <2>2 DEF Flows
  <2>4. Granted' <=> Granted
    BY <2>1 DEF Granted
  <2>5. Granted' /\ file' \in {"none", "torn", "mine"}
    BY <1>1, <2>1, <2>3, <2>4
  <2> QED
    BY <1>1, <2>1, <2>3, <2>5, FlowMoves
<1>10. CASE Auth!ServerFails(p)
  <2>1. PICK f : f = [flow[p] EXCEPT !.err = "serve", !.up = no]
    OBVIOUS
  <2>2. flow' = [flow EXCEPT ![p] = f] /\ UNCHANGED <<file, history>>
    BY <1>1, <1>6, <1>10, <2>1 DEF Auth!ServerFails, Flows
  <2> QED
    BY <1>1, <1>2, <2>1, <2>2 DEF Flows
<1>11. CASE Auth!Restart(p)
  <2>1. PICK f : f = [pc |-> "begin", code |-> "", err |-> "", tok |-> "", up |-> no]
    OBVIOUS
  <2>2. flow' = [flow EXCEPT ![p] = f] /\ UNCHANGED <<file, history>>
    BY <1>1, <1>6, <1>11, <2>1 DEF Auth!Restart, Auth!Start
  <2> QED
    BY <1>2, <2>1, <2>2 DEF Flows
<1>12. ASSUME NEW own \in BOOLEAN, NEW code \in {"mine", "", "stray"},
              Auth!ServeHTTP(p, own, code), code = "stray" => ~own
       PROVE  AuthInv'
  <2>1. CASE own /\ code = "mine"
    <3>1. PICK f : f = [flow[p] EXCEPT !.code = "mine"]
      OBVIOUS
    <3>2. flow' = [flow EXCEPT ![p] = f] /\ UNCHANGED file
      BY <1>1, <1>12, <2>1, <3>1 DEF Auth!ServeHTTP, Auth!Post, Flows
    <3>3. history' = [history EXCEPT ![p] = history[p] \cup {"mine"}]
      BY <1>12, <2>1 DEF Auth!ServeHTTP
    <3>4. history' \in [Programs -> SUBSET {"", "mine"}] /\ Granted'
      BY <1>1, <3>3 DEF Granted
    <3>5. f \in Flows /\ f.tok = flow[p].tok /\ f.pc = flow[p].pc
      BY <1>1, <3>1 DEF Flows
    <3> QED
      BY <1>1, <3>2, <3>4, <3>5, FlowMoves
  <2>2. CASE ~(own /\ code = "mine")
    <3>1. PICK x \in {"errNoCode", "errStateMismatch"} :
            flow' = [flow EXCEPT ![p].err = Auth!Post(flow[p].err, x)]
      BY <1>12, <2>2 DEF Auth!ServeHTTP
    <3>2. PICK f : f = [flow[p] EXCEPT !.err = Auth!Post(flow[p].err, x)]
      OBVIOUS
    <3>3. /\ f \in Flows /\ f.tok = flow[p].tok /\ f.pc = flow[p].pc
          /\ f.code = flow[p].code
          /\ flow' = [flow EXCEPT ![p] = f] /\ UNCHANGED file
      BY <1>1, <1>12, <3>1, <3>2 DEF Flows, Auth!Post, Auth!ServeHTTP
    <3>4. history' = IF own THEN [history EXCEPT ![p] = history[p] \cup {code}] ELSE history
      BY <1>12 DEF Auth!ServeHTTP
    <3>5. history' \in [Programs -> SUBSET {"", "mine"}] /\ (Granted => Granted')
      BY <1>1, <1>12, <2>2, <3>4 DEF Granted
    <3> QED
      BY <1>1, <3>3, <3>5, FlowMoves
  <2> QED
    BY <2>1, <2>2
<1> QED
  BY <1>3, <1>4, <1>5, <1>7, <1>8, <1>9, <1>10, <1>11, <1>12

\* It is what the run asks of the consent flow.
LEMMA AuthSafe == AuthInv => AuthSound
<1> SUFFICES ASSUME AuthInv PROVE AuthSound
  OBVIOUS
<1>1. \A p \in Programs : flow[p] \in Flows
  BY DEF AuthInv
<1>2. Granted => "mine" \in UNION {history[q] : q \in Programs}
  BY DEF Granted
<1> QED
  BY <1>1, <1>2
    DEF AuthInv, AuthSound, Auth!AuthSound, Auth!TypeOK, Auth!TokenIsGranted,
        Auth!At, Flows

\* A step of another part keeps it.
LEMMA AuthStays == AuthInv /\ UNCHANGED ofAuth => AuthInv'
  BY DEF ofAuth, AuthInv, Granted

\* consentFlow, loadToken, saveToken: for every number of programs, a client's
\* token goes back to a callback with the state of the flow that asked, also
\* when strays and torn files come in between.
THEOREM AuthIsSound == FairSpec => []AuthSound
<1>1. Init => AuthInv
  BY AuthInit DEF Init
<1>2. AuthInv /\ [Next]_vars => AuthInv'
  BY AuthNext, AuthStays DEF Next, vars
<1>3. AuthInv => AuthSound
  BY AuthSafe
<1> QED
  BY <1>1, <1>2, <1>3, PTL DEF FairSpec
=============================================================================
