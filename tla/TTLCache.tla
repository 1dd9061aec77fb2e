------------------------------ MODULE TTLCache ------------------------------
(***************************************************************************)
(* platform/cache: Cache, an in-memory map with a time to live per entry.  *)
(* An entry is represented by its Expiration: values play no part in what  *)
(* is kept and what is dropped.  Get reads under the read lock and evicts  *)
(* under the write lock, with neither held in between.                     *)
(***************************************************************************)
EXTENDS Naturals

CONSTANTS
  Keys,
  Getters,   \* goroutines calling Get
  Worker,    \* New was given a positive cleanup interval
  MaxTTL,    \* bound: durations passed to Set
  MaxTime    \* bound: the clock

VARIABLES
  items,      \* c.items: the keys present, each with its Expiration
  now,        \* the clock
  get,        \* each Get call: idle, or between the two locks with the key
              \* and the Expiration it read
  worker,     \* the cleanup goroutine: "off", "loop" or "exited"
  cancelled,  \* cleanupCancel was called
  closing,    \* the Close call: "none", "wait" or "returned"
  lost        \* history: by what live entries went that nobody asked to drop:
              \* the sweep, a Get, or a Get whose reading was out of date

vars == <<items, now, get, worker, cancelled, closing, lost>>

Idle == [pc |-> "idle"]

\* Item.Expired and the test in DeleteExpired; 0 never expires.
ExpiredAt(exp, t) == exp > 0 /\ t > exp

Without(ks) == [k \in DOMAIN items \ ks |-> items[k]]

Live(k) == k \in DOMAIN items /\ ~ExpiredAt(items[k], now)

\* delete(c.items, key) for every key, by the cache's own doing.
Drop(ks, by) == /\ items' = Without(ks)
                /\ lost' = IF \E k \in ks : Live(k) THEN lost \cup {by} ELSE lost

Init == /\ items = <<>>
        /\ now = 1
        /\ get = [g \in Getters |-> Idle]
        /\ worker = IF Worker THEN "loop" ELSE "off"
        /\ cancelled = FALSE
        /\ closing = "none"
        /\ lost = {}

-----------------------------------------------------------------------------

\* Set: a duration <= 0 means no expiration.
Set(k, d) ==
  /\ items' = [j \in DOMAIN items \cup {k} |->
                 IF j # k THEN items[j] ELSE IF d > 0 THEN now + d ELSE 0]
  /\ UNCHANGED <<now, get, worker, cancelled, closing, lost>>

\* Get under the read lock: a missing key is a miss at once.
GetRead(g, k) ==
  /\ get[g] = Idle
  /\ k \in DOMAIN items
  /\ get' = [get EXCEPT ![g] = [pc |-> "read", key |-> k, exp |-> items[k]]]
  /\ UNCHANGED <<items, now, worker, cancelled, closing, lost>>

\* Get looks at the clock: a live entry is returned, an expired one is to be
\* evicted.
GetJudge(g) ==
  /\ get[g].pc = "read"
  /\ get' = [get EXCEPT ![g] = IF ExpiredAt(@.exp, now) THEN [@ EXCEPT !.pc = "evict"]
                                                        ELSE Idle]
  /\ UNCHANGED <<items, now, worker, cancelled, closing, lost>>

\* Get under the write lock: delete(c.items, key).
GetEvict(g) ==
  /\ get[g].pc = "evict"
  /\ LET k == get[g].key
         stale == k \in DOMAIN items /\ items[k] # get[g].exp
     IN  Drop({k}, IF stale THEN "staleGet" ELSE "get")
  /\ get' = [get EXCEPT ![g] = Idle]
  /\ UNCHANGED <<now, worker, cancelled, closing>>

Delete(k) ==
  /\ items' = Without({k})
  /\ UNCHANGED <<now, get, worker, cancelled, closing, lost>>

Clear ==
  /\ items' = <<>>
  /\ UNCHANGED <<now, get, worker, cancelled, closing, lost>>

\* Mutation of DeleteExpired: 0 is not special.
DeleteOld ==
  /\ Drop({k \in DOMAIN items : now > items[k]}, "sweep")
  /\ UNCHANGED <<now, get, worker, cancelled, closing>>

\* DeleteExpired, called by the worker on a tick or by anybody.
DeleteExpired ==
  /\ Drop({k \in DOMAIN items : ExpiredAt(items[k], now)}, "sweep")
  /\ UNCHANGED <<now, get, worker, cancelled, closing>>

\* Mutation of WorkerTick: a tick is received and nothing is swept.
WorkerIdles == worker = "loop" /\ UNCHANGED vars

\* startCleanupWorker: a tick, or a cancelled context.
WorkerTick == worker = "loop" /\ DeleteExpired

WorkerExit ==
  /\ worker = "loop" /\ cancelled
  /\ worker' = "exited"
  /\ UNCHANGED <<items, now, get, cancelled, closing, lost>>

\* Close: cancel the worker, if there is one, and wait for it.
Close ==
  /\ closing = "none"
  /\ cancelled' = Worker
  /\ closing' = IF Worker THEN "wait" ELSE "returned"
  /\ UNCHANGED <<items, now, get, worker, lost>>

CloseReturn ==
  /\ closing = "wait" /\ worker = "exited"
  /\ closing' = "returned"
  /\ UNCHANGED <<items, now, get, worker, cancelled, lost>>

Tick ==
  /\ now < MaxTime
  /\ now' = now + 1
  /\ UNCHANGED <<items, get, worker, cancelled, closing, lost>>

GetStep(g) == GetJudge(g) \/ GetEvict(g)

Next == \/ \E k \in Keys, d \in 0..MaxTTL : Set(k, d)
        \/ \E g \in Getters, k \in Keys : GetRead(g, k)
        \/ \E g \in Getters : GetStep(g)
        \/ \E k \in Keys : Delete(k)
        \/ Clear \/ DeleteExpired \/ WorkerTick \/ WorkerExit
        \/ Close \/ CloseReturn \/ Tick

Spec == Init /\ [][Next]_vars

\* The runtime keeps delivering ticks and schedules every goroutine; a select
\* with a cancelled context does not pick the ticker forever.
Fairness == /\ \A g \in Getters : WF_vars(GetStep(g))
            /\ WF_vars(WorkerTick) /\ WF_vars(WorkerExit) /\ WF_vars(CloseReturn)

FairSpec == Spec /\ Fairness
-----------------------------------------------------------------------------
\* Every variable has the type the code gives it (Cache, Item).
TypeOK ==
  /\ DOMAIN items \subseteq Keys
  /\ \A k \in DOMAIN items : items[k] \in 0..(MaxTime + MaxTTL)
  /\ now \in 1..MaxTime
  /\ \A g \in Getters : get[g] = Idle
                        \/ get[g] \in [pc : {"read", "evict"}, key : Keys, exp : Nat]
  /\ worker \in {"off", "loop", "exited"}
  /\ cancelled \in BOOLEAN
  /\ closing \in {"none", "wait", "returned"}
  /\ lost \subseteq {"sweep", "get", "staleGet"}

\* A live entry that nobody deletes or clears goes only by the race in Get:
\* an entry overwritten between Get's two locks is evicted by key.  Neither
\* the sweep nor a Get whose reading is up to date ever drops a live entry.
LiveLossNeedsRace == lost \subseteq {"staleGet"}

\* Close waits for the worker: once it has returned no goroutine of the cache
\* is left.
CloseLeavesNothing == closing = "returned" => worker # "loop"

\* An entry whose time is up does not stay for good: the worker prevents the
\* memory leak New speaks of, as long as the cache is open.
ExpiredIsRemoved ==
  \A k \in Keys : (k \in DOMAIN items /\ ~Live(k)) ~>
                     (k \notin DOMAIN items \/ Live(k) \/ cancelled)

\* The cache's bookkeeping: its types, and no worker left once Close returned.
Sound == TypeOK /\ CloseLeavesNothing
=============================================================================
