-------------------------------- MODULE Lease --------------------------------
(***************************************************************************)
(* platform/runstate: LeaseStore, the lease file of one subject, and       *)
(* Lease.Valid.  Processes pass a check and save a lease, load it before   *)
(* an action and consume it afterwards; nothing locks the file.  The wall  *)
(* clock may be set, and the host may crash: Save does not fsync, so the   *)
(* file may come back torn, and Consume does not either, so it may come    *)
(* back at all.  Prefixes, subjects and paths are those of one subject.    *)
(***************************************************************************)
EXTENDS Integers, FiniteSets

CONSTANTS
  Procs, Prints,     \* processes; fingerprints of what is checked
  NoPrint,           \* the empty fingerprint
  Window,            \* for how long a lease may carry an action
  MaxTime, MaxSets,  \* bounds: time that passes, how often clocks go back
  MaxSaves,          \* bound: leases issued
  NoLease, Unparsable      \* no file; a file json.Unmarshal rejects

VARIABLES
  time,      \* real time
  clock,     \* the wall clock, time.Now()
  back,      \* history: how far the clock was set back in all
  sets,      \* history: how often it was set back
  file,      \* the lease file
  pc,        \* "idle", "save" (temporary file written) or "loaded"
  own,       \* the lease each process has built or loaded
  saves,     \* leases issued so far; they name leases
  consumed,  \* history: leases that Consume has removed
  crashed,   \* history: the host has crashed
  grants     \* history: actions that a lease carried

vars == <<time, clock, back, sets, file, pc, own, saves, consumed, crashed,
          grants>>

Init == /\ time = 0 /\ clock = 0 /\ back = 0 /\ sets = 0
        /\ file = NoLease
        /\ pc = [p \in Procs |-> "idle"]
        /\ own = [p \in Procs |-> NoLease]
        /\ saves = 0
        /\ consumed = {} /\ crashed = FALSE /\ grants = {}

-----------------------------------------------------------------------------
\* A check passes and Save writes its temporary file.
SaveWrite(p, f) ==
  /\ pc[p] = "idle" /\ saves < MaxSaves
  /\ saves' = saves + 1
  /\ own' = [own EXCEPT ![p] = [id |-> saves, print |-> f, issued |-> clock,
                                passed |-> time]]
  /\ pc' = [pc EXCEPT ![p] = "save"]
  /\ UNCHANGED <<time, clock, back, sets, file, consumed, crashed, grants>>

\* Save: the rename.  Any earlier failure leaves the old lease.
SaveRename(p) ==
  /\ pc[p] = "save"
  /\ file' = own[p] \/ UNCHANGED file
  /\ own' = [own EXCEPT ![p] = NoLease]
  /\ pc' = [pc EXCEPT ![p] = "idle"]
  /\ UNCHANGED <<time, clock, back, sets, saves, consumed, crashed, grants>>

\* Load: a missing or unreadable lease is no lease.
Load(p) ==
  /\ pc[p] = "idle"
  /\ file \notin {NoLease, Unparsable}
  /\ own' = [own EXCEPT ![p] = file]
  /\ pc' = [pc EXCEPT ![p] = "loaded"]
  /\ UNCHANGED <<time, clock, back, sets, file, saves, consumed,
                 crashed, grants>>

\* Mutations of Valid: a lease from the future, or one that is just too old.
ValidFuture(lease, f) ==
  lease.print # NoPrint /\ lease.print = f /\ clock - lease.issued < Window
ValidLate(lease, f) ==
  lease.print # NoPrint /\ lease.print = f /\ clock - lease.issued \in 0..Window

\* Lease.Valid at the wall clock's now: an empty fingerprint never matches.
Valid(lease, f) ==
  /\ lease.print # NoPrint /\ lease.print = f
  /\ clock - lease.issued >= 0 /\ clock - lease.issued < Window

\* The caller asks Valid for the fingerprint f it is about to act on, and
\* acts if it may.
Act(p, f) ==
  /\ pc[p] = "loaded"
  /\ grants' = IF Valid(own[p], f)
                 THEN grants \cup {[lease |-> own[p].id, at |-> time]}
                 ELSE grants
  /\ own' = [own EXCEPT ![p] = NoLease]
  /\ pc' = [pc EXCEPT ![p] = "idle"]
  /\ UNCHANGED <<time, clock, back, sets, file, saves, consumed, crashed>>

\* Consume, by whoever; it removes the file, whichever lease that is.
Consume ==
  /\ file # NoLease
  /\ file' = NoLease
  /\ consumed' = consumed \cup {file}
  /\ UNCHANGED <<time, clock, back, sets, pc, own, saves, crashed, grants>>

-----------------------------------------------------------------------------
Tick ==
  /\ time < MaxTime
  /\ time' = time + 1 /\ clock' = clock + 1
  /\ UNCHANGED <<back, sets, file, pc, own, saves, consumed, crashed, grants>>

\* The wall clock is set, forward or back.
SetClock ==
  /\ \E c \in 0..MaxTime :
       /\ clock' = c
       /\ back' = IF c < clock THEN back + clock - c ELSE back
       /\ sets' = IF c < clock THEN sets + 1 ELSE sets
  /\ sets' <= MaxSets
  /\ UNCHANGED <<time, file, pc, own, saves, consumed, crashed, grants>>

\* The host crashes.  A lease that was saved may be torn, and one that was
\* consumed may be back.
HostCrash ==
  /\ \/ file' \in {file, Unparsable}
     \/ file = NoLease /\ file' \in consumed
  /\ crashed' = TRUE
  /\ own' = [p \in Procs |-> NoLease]
  /\ pc' = [p \in Procs |-> "idle"]
  /\ UNCHANGED <<time, clock, back, sets, saves, consumed, grants>>

Next == \/ \E p \in Procs : \/ SaveRename(p) \/ Load(p)
                            \/ \E f \in Prints : SaveWrite(p, f) \/ Act(p, f)
        \/ Consume \/ Tick \/ SetClock \/ HostCrash

Spec == Init /\ [][Next]_vars
-----------------------------------------------------------------------------
Leases == [id : Nat, print : Prints, issued : Nat, passed : Nat]

\* Every variable has the type the code gives it (Lease, LeaseStore).
TypeOK ==
  /\ time \in Nat /\ clock \in Nat /\ back \in Nat /\ sets \in Nat
  /\ file \in Leases \cup {NoLease, Unparsable}
  /\ pc \in [Procs -> {"idle", "save", "loaded"}]
  /\ own \in [Procs -> Leases \cup {NoLease}]
  /\ saves \in Nat
  /\ consumed \subseteq Leases \cup {Unparsable} /\ crashed \in BOOLEAN
  /\ grants \subseteq [lease : Nat, at : Nat]

\* An action is carried only by a check of the very thing it acts on, never of
\* a thing without a fingerprint, passed
\* less than a window ago in real time; a clock that was set back stretches
\* the window by no more than that (Lease.Valid).
GrantsAreFresh ==
  [][\A p \in Procs, f \in Prints :
       Act(p, f) /\ grants' # grants =>
         /\ own[p].print = f /\ f # NoPrint
         /\ time - own[p].passed < Window + back]_vars

\* A lease dated in the future is not valid: however far the clock was set
\* back, that lends a lease at most one more window of real time.
WindowIsSpent ==
  \A g \in grants :
    Cardinality({h \in grants : h.lease = g.lease}) <= Window * (sets + 1)

\* A consumed lease is not found again, so a used check is not used twice,
\* unless the host crashed (LeaseStore.Consume).
ConsumedIsGone == file \in consumed => crashed

\* The store's bookkeeping: its types, and a used lease is used up.
Sound == TypeOK /\ ConsumedIsGone
=============================================================================
