----------------------------- MODULE MCAdmission -----------------------------
(***************************************************************************)
(* What lets an action go ahead and what remembers it, for TLC: the lease  *)
(* a passed check leaves (platform/runstate), the gate over a set of rules *)
(* (governance/gate, governance/invariant) and the audit log               *)
(* (observability/audit/file).  They share nothing, so a behaviour         *)
(* exercises one of them.                                                  *)
(***************************************************************************)
EXTENDS Naturals, Sequences, TLC

CONSTANTS
  Procs, Prints, NoPrint, Window,                \* Lease
  MaxTime, MaxSets, MaxSaves, NoLease, Unparsable,
  MaxRules,                                      \* Gate
  MaxSize, Failing, Missing,                     \* AuditLog
  MaxEntries, MaxFaults, MaxCrashes

ASSUME AdmissionAssumption ==
  /\ Window \in Nat /\ MaxTime \in Nat /\ MaxSets \in Nat /\ MaxSaves \in Nat
  /\ NoLease # Unparsable
  /\ {NoLease, Unparsable} \cap [id : Nat, print : Prints, issued : Nat, passed : Nat] = {}
  /\ MaxRules \in Nat
  /\ MaxSize \in Nat \ {0}
  /\ Failing \subseteq {"rename", "create", "reopen", "write"}
  /\ Missing \notin Seq([entry : 1..MaxEntries, whole : BOOLEAN])
  /\ MaxEntries \in Nat /\ MaxFaults \in Nat /\ MaxCrashes \in Nat

VARIABLES
  active,   \* the component this behaviour is about
  time, clock, back, sets, file, pc, own, saves, consumed, crashed, grants,
  policy, rules, builder, found, checks, cancelled, results, counts, verdict,
  log, bak, handle, written, at, next, put, acked, shut, forfeit, faults,
  crashes

ofLease == <<time, clock, back, sets, file, pc, own, saves, consumed, crashed,
             grants>>
ofGate == <<policy, rules, builder, found, checks, cancelled, results, counts,
            verdict>>
ofLog == <<log, bak, handle, written, at, next, put, acked, shut, forfeit,
           faults, crashes>>
vars == <<active, ofLease, ofGate, ofLog>>

Store == INSTANCE Lease
TheGate == INSTANCE Gate
Log == INSTANCE AuditLog WITH pc <- at

Init == /\ active \in {"lease", "gate", "log"}
        /\ Store!Init /\ Log!Init
        /\ TheGate!Init /\ (active = "gate" \/ policy = "STRICT")

Next == \/ /\ active = "lease" /\ Store!Next
           /\ UNCHANGED <<active, ofGate, ofLog>>
        \/ /\ active = "gate" /\ TheGate!Next
           /\ UNCHANGED <<active, ofLease, ofLog>>
        \/ /\ active = "log" /\ Log!Next
           /\ UNCHANGED <<active, ofLease, ofGate>>

Spec == Init /\ [][Next]_vars

\* Processes and fingerprints are interchangeable, but for the empty one.
Symmetry == Permutations(Procs) \cup Permutations(Prints \ {NoPrint})
-----------------------------------------------------------------------------
\* LeaseStore.Consume, Lease.Valid: a used lease is not found again, and
\* setting the clock back lends a lease one window at most.
LeaseSound == Store!Sound /\ Store!WindowIsSpent
\* LeaseStore: an action needs a recent check of the same fingerprint, and one
\* without a fingerprint is never granted.
GrantsAreFresh == Store!GrantsAreFresh

\* Gate.Enforce lets nothing through that its policy does not accept, and the
\* report accounts for every rule.
GateSound == TheGate!Sound
\* invariant.Verdict and a gate over the same checks come to one verdict.
VerdictsAgree == TheGate!VerdictsAgree

\* FileWriter: entries keep their order over rotations, crashes and failing
\* calls, the latest MaxSize of them are in a file unless a fall back to the
\* backup gave them up, and a writer without a file gets one on the next call.
LogSound == Log!Sound /\ Log!RecentKept /\ Log!SelfHeals
=============================================================================
