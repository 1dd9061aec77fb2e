--------------------------- MODULE AdmissionProofs ---------------------------
(***************************************************************************)
(* What MCAdmission.tla asks of the leases, of the gate and of the audit   *)
(* log, proved of their composition for every value of the constants.  In  *)
(* each part an inductive invariant (LeaseInv with SpentInv, GateInv,      *)
(* LogInv) is shown to hold initially, to be kept by the part's own steps  *)
(* and by everybody else's, and to imply the property.                     *)
(***************************************************************************)
EXTENDS MCAdmission, Integers, Sequences, FiniteSets, TLAPS, FiniteSetTheorems,
        FunctionTheorems, SequenceTheorems

\* The leases that are somewhere: in a process, in the file, or used.
Around(l) == (\E p \in Procs : own[p] = l) \/ file = l \/ l \in consumed

\* What the clock has gained on real time never falls by more than it was set back.
LeaseAge(l) == l.issued - l.passed <= clock - time + back

\* LeaseStore: what every step keeps. A lease that is being saved is in no
\* other process, not in the file and not used, so the lease that Consume
\* removes is the only copy; and no lease that is around was issued in the
\* future by more than the clock was set back.
LeaseInv ==
  /\ Store!TypeOK
  /\ NoLease \notin consumed
  /\ file \in consumed => crashed
  /\ \A p \in Procs : pc[p] # "idle" => own[p] \in Store!Leases
  /\ \A p \in Procs : pc[p] = "save" => /\ own[p] \notin consumed /\ own[p] # file
                                        /\ \A q \in Procs : own[q] = own[p] => q = p
  /\ \A l \in Store!Leases : Around(l) => l.id < saves /\ LeaseAge(l)

\* A store without a file is in such a state.
LEMMA LeaseInit == Store!Init => LeaseInv
<1> SUFFICES ASSUME Store!Init PROVE LeaseInv
  OBVIOUS
<1>1. crashed \in BOOLEAN
  BY Zenon DEF Store!Init
<1>2. \A l \in Store!Leases : ~Around(l)
  BY AdmissionAssumption DEF AdmissionAssumption, Store!Init, Around, Store!Leases
<1> QED
  BY <1>1, <1>2, AdmissionAssumption
    DEF AdmissionAssumption, Store!Init, LeaseInv, Store!TypeOK

\* Save, Load, Valid with the action it allows, Consume, a crash and the clock
\* keep it.
LEMMA LeaseNext == LeaseInv /\ Store!Next => LeaseInv'
<1> SUFFICES ASSUME LeaseInv, Store!Next PROVE LeaseInv'
  OBVIOUS
<1>0. /\ NoLease # Unparsable /\ NoLease \notin Store!Leases
      /\ Unparsable \notin Store!Leases
  BY AdmissionAssumption DEF AdmissionAssumption, Store!Leases
<1> USE DEF LeaseInv, Store!TypeOK
<1>1. ASSUME NEW p \in Procs, NEW f \in Prints, Store!SaveWrite(p, f) PROVE LeaseInv'
  <2>1. PICK l : l = [id |-> saves, print |-> f, issued |-> clock, passed |-> time]
    OBVIOUS
  <2>2. l \in Store!Leases /\ l.id = saves /\ LeaseAge(l) /\ ~Around(l)
    BY <2>1 DEF Store!Leases, LeaseAge
  <2>3. /\ own' = [own EXCEPT ![p] = l] /\ saves' = saves + 1
        /\ pc' = [pc EXCEPT ![p] = "save"]
        /\ pc[p] = "idle"
        /\ UNCHANGED <<time, clock, back, sets, file, consumed, crashed, grants>>
    BY <1>1, <2>1 DEF Store!SaveWrite
  <2>4. Store!TypeOK'
    BY <2>2, <2>3
  <2>5. \A k \in Store!Leases : Around(k)' => Around(k) \/ k = l
    BY <2>3 DEF Around
  <2>6. \A k \in Store!Leases : Around(k)' => k.id < saves' /\ LeaseAge(k)'
    <3> SUFFICES ASSUME NEW k \in Store!Leases, Around(k)' PROVE k.id < saves' /\ LeaseAge(k)'
      OBVIOUS
    <3>1. k.id \in Nat /\ saves \in Nat
      BY DEF Store!Leases
    <3>2. LeaseAge(k)' <=> LeaseAge(k)
      BY <2>3 DEF LeaseAge
    <3> QED BY <2>2, <2>3, <2>5, <3>1, <3>2
  <2>7. \A q \in Procs : pc'[q] # "idle" => own'[q] \in Store!Leases
    BY <2>2, <2>3
  <2>8. own[p] # l /\ file # l /\ l \notin consumed /\ \A q \in Procs : own[q] # l
    BY <2>2 DEF Around
  <2>9. \A q \in Procs : pc'[q] = "save" => /\ own'[q] \notin consumed' /\ own'[q] # file'
                                        /\ \A r \in Procs : own'[r] = own'[q] => r = q
    BY <2>3, <2>8
  <2> QED BY <2>3, <2>4, <2>6, <2>7, <2>9
<1>2. ASSUME NEW p \in Procs, Store!SaveRename(p) PROVE LeaseInv'
  <2>1. /\ own' = [own EXCEPT ![p] = NoLease] /\ pc' = [pc EXCEPT ![p] = "idle"]
        /\ pc[p] = "save" /\ (file' = own[p] \/ file' = file)
        /\ UNCHANGED <<time, clock, back, sets, saves, consumed, crashed, grants>>
    BY <1>2 DEF Store!SaveRename
  <2>2. \A k \in Store!Leases : Around(k)' => Around(k)
    BY <1>0, <2>1 DEF Around
  <2>3. \A k \in Store!Leases : LeaseAge(k)' <=> LeaseAge(k)
    BY <2>1 DEF LeaseAge
  <2>4. Store!TypeOK'
    BY <2>1
  <2> QED BY <1>0, <2>1, <2>2, <2>3, <2>4
<1>3. ASSUME NEW p \in Procs, Store!Load(p) PROVE LeaseInv'
  <2>1. /\ own' = [own EXCEPT ![p] = file] /\ pc' = [pc EXCEPT ![p] = "loaded"]
        /\ pc[p] = "idle" /\ file \in Store!Leases
        /\ UNCHANGED <<time, clock, back, sets, saves, file, consumed, crashed, grants>>
    BY <1>3 DEF Store!Load
  <2>2. \A k \in Store!Leases : Around(k)' => Around(k)
    BY <1>0, <2>1 DEF Around
  <2>3. \A k \in Store!Leases : LeaseAge(k)' <=> LeaseAge(k)
    BY <2>1 DEF LeaseAge
  <2>4. Store!TypeOK'
    BY <2>1
  <2> QED BY <1>0, <2>1, <2>2, <2>3, <2>4
<1>4. ASSUME NEW p \in Procs, NEW f \in Prints, Store!Act(p, f) PROVE LeaseInv'
  <2>1. /\ own' = [own EXCEPT ![p] = NoLease] /\ pc' = [pc EXCEPT ![p] = "idle"]
        /\ pc[p] = "loaded" /\ own[p] \in Store!Leases
        /\ grants' \subseteq grants \cup {[lease |-> own[p].id, at |-> time]}
        /\ UNCHANGED <<time, clock, back, sets, saves, file, consumed, crashed>>
    BY <1>4 DEF Store!Act
  <2>2. \A k \in Store!Leases : Around(k)' => Around(k)
    BY <1>0, <2>1 DEF Around
  <2>3. \A k \in Store!Leases : LeaseAge(k)' <=> LeaseAge(k)
    BY <2>1 DEF LeaseAge
  <2>4. Store!TypeOK'
    BY <2>1 DEF Store!Leases
  <2> QED BY <1>0, <2>1, <2>2, <2>3, <2>4
<1>5. CASE Store!Consume
  <2>1. /\ file # NoLease /\ file' = NoLease /\ consumed' = consumed \cup {file}
        /\ UNCHANGED <<time, clock, back, sets, pc, own, saves, crashed, grants>>
    BY <1>5 DEF Store!Consume
  <2>2. \A k \in Store!Leases : Around(k)' => Around(k)
    BY <1>0, <2>1 DEF Around
  <2>3. \A k \in Store!Leases : LeaseAge(k)' <=> LeaseAge(k)
    BY <2>1 DEF LeaseAge
  <2>4. Store!TypeOK'
    BY <2>1
  <2> QED BY <1>0, <2>1, <2>2, <2>3, <2>4
<1>6. CASE Store!Tick
  <2>1. /\ time' = time + 1 /\ clock' = clock + 1
        /\ UNCHANGED <<back, sets, file, pc, own, saves, consumed, crashed, grants>>
    BY <1>6 DEF Store!Tick
  <2>2. \A k \in Store!Leases : Around(k)' <=> Around(k)
    BY <2>1 DEF Around
  <2>3. \A k \in Store!Leases : LeaseAge(k) => LeaseAge(k)'
    BY <2>1 DEF LeaseAge, Store!Leases
  <2>4. Store!TypeOK'
    BY <2>1
  <2> QED BY <2>1, <2>2, <2>3, <2>4
<1>7. CASE Store!SetClock
  <2>1. PICK c \in 0..MaxTime :
          /\ clock' = c
          /\ back' = IF c < clock THEN back + clock - c ELSE back
          /\ sets' = IF c < clock THEN sets + 1 ELSE sets
    BY <1>7 DEF Store!SetClock
  <2>2. UNCHANGED <<time, file, pc, own, saves, consumed, crashed, grants>>
    BY <1>7 DEF Store!SetClock
  <2>3. \A k \in Store!Leases : Around(k)' <=> Around(k)
    BY <2>2 DEF Around
  <2>4. \A k \in Store!Leases : LeaseAge(k) => LeaseAge(k)'
    BY <2>1, <2>2, AdmissionAssumption
      DEF AdmissionAssumption, LeaseAge, Store!Leases
  <2>5. Store!TypeOK'
    BY <2>1, <2>2, AdmissionAssumption DEF AdmissionAssumption
  <2> QED BY <2>2, <2>3, <2>4, <2>5
<1>8. CASE Store!HostCrash
  <2>1. /\ file' \in {file, Unparsable} \/ file' \in consumed
        /\ own' = [p \in Procs |-> NoLease] /\ pc' = [p \in Procs |-> "idle"]
        /\ UNCHANGED <<time, clock, back, sets, saves, consumed, grants>>
    BY <1>8 DEF Store!HostCrash
  <2>2. crashed' = TRUE /\ crashed' \in BOOLEAN
    BY <1>8, Zenon DEF Store!HostCrash
  <2>3. \A k \in Store!Leases : Around(k)' => Around(k)
    BY <1>0, <2>1 DEF Around
  <2>4. \A k \in Store!Leases : LeaseAge(k)' <=> LeaseAge(k)
    BY <2>1 DEF LeaseAge
  <2>5. Store!TypeOK'
    BY <2>1, <2>2
  <2> QED BY <2>1, <2>2, <2>3, <2>4, <2>5
<1> QED
  BY <1>1, <1>2, <1>3, <1>4, <1>5, <1>6, <1>7, <1>8 DEF Store!Next

\* The grants in a ledger.
Entry == [lease : Nat, at : Nat]

\* Grant g has its line: the era (how often the clock had been set back), the
\* clock's reading in the window of its lease, and a time that is the present
\* one when era and reading are.
Posted(g, iss, era, wall) ==
  /\ g.lease < saves
  /\ era[g] <= sets
  /\ wall[g] - iss[g.lease] \in 0..(Window - 1)
  /\ era[g] = sets => wall[g] <= clock
  /\ era[g] = sets /\ wall[g] = clock => g.at = time

\* The ledger: the leases that are around carry the time they were issued at,
\* every grant has its line, and no two grants of a lease share one.
Ledger(iss, era, wall) ==
  /\ \A l \in Store!Leases : Around(l) => l.issued = iss[l.id]
  /\ \A g \in grants : Posted(g, iss, era, wall)
  /\ \A g, h \in grants :
       g.lease = h.lease /\ era[g] = era[h] /\ wall[g] = wall[h] => g = h

\* There is such a ledger: it is history that the store does not keep, so the
\* invariant says that it exists.
SpentInv ==
  \E iss \in [Nat -> Nat], era, wall \in [Entry -> Nat] : Ledger(iss, era, wall)

\* Nothing was granted: the empty ledger.
LEMMA SpentInit == Store!Init => SpentInv
<1> SUFFICES ASSUME Store!Init PROVE SpentInv
  OBVIOUS
<1>1. \A l \in Store!Leases : ~Around(l)
  BY AdmissionAssumption DEF AdmissionAssumption, Store!Init, Around, Store!Leases
<1>2. Ledger([n \in Nat |-> 0], [g \in Entry |-> 0], [g \in Entry |-> 0])
  BY <1>1 DEF Ledger, Store!Init
<1>3. [n \in Nat |-> 0] \in [Nat -> Nat] /\ [g \in Entry |-> 0] \in [Entry -> Nat]
  OBVIOUS
<1> QED BY <1>2, <1>3, Zenon DEF SpentInv

\* Steps that issue no lease, carry no action and leave the clock alone.
LEMMA LedgerKept ==
  ASSUME LeaseInv, NEW iss \in [Nat -> Nat], NEW era \in [Entry -> Nat], NEW wall \in [Entry -> Nat],
         Ledger(iss, era, wall), UNCHANGED <<time, clock, sets, grants, saves>>,
         \A l \in Store!Leases : Around(l)' => Around(l)
  PROVE  Ledger(iss, era, wall)'
  BY DEF Ledger, Posted

\* A save opens a lease in the ledger, a grant adds a line, and setting the
\* clock back begins a new era.
LEMMA SpentNext == LeaseInv /\ SpentInv /\ Store!Next => SpentInv'
<1> SUFFICES ASSUME LeaseInv, SpentInv, Store!Next PROVE SpentInv'
  OBVIOUS
<1>0. /\ NoLease # Unparsable /\ NoLease \notin Store!Leases
      /\ Unparsable \notin Store!Leases
  BY AdmissionAssumption DEF AdmissionAssumption, Store!Leases
<1>a. PICK iss \in [Nat -> Nat], era \in [Entry -> Nat], wall \in [Entry -> Nat] :
        Ledger(iss, era, wall)
  BY DEF SpentInv
<1>b. /\ time \in Nat /\ clock \in Nat /\ sets \in Nat /\ saves \in Nat
      /\ grants \subseteq Entry /\ own \in [Procs -> Store!Leases \cup {NoLease}]
      /\ pc \in [Procs -> {"idle", "save", "loaded"}]
  BY DEF LeaseInv, Store!TypeOK, Entry
<1>d. \A g \in grants : /\ g \in Entry /\ g.lease \in Nat /\ g.at \in Nat
                        /\ era[g] \in Nat /\ wall[g] \in Nat /\ iss[g.lease] \in Nat
                        /\ Posted(g, iss, era, wall)
  BY <1>a, <1>b DEF Entry, Ledger
<1>c. ASSUME Ledger(iss, era, wall)' PROVE SpentInv'
  BY <1>a, <1>c, Zenon DEF SpentInv
<1>1. ASSUME NEW p \in Procs, NEW f \in Prints, Store!SaveWrite(p, f) PROVE SpentInv'
  <2>1. PICK l : l = [id |-> saves, print |-> f, issued |-> clock, passed |-> time]
    OBVIOUS
  <2>2. l \in Store!Leases /\ l.id = saves /\ l.issued = clock
    BY <1>b, <2>1 DEF Store!Leases
  <2>3. /\ own' = [own EXCEPT ![p] = l] /\ saves' = saves + 1
        /\ UNCHANGED <<time, clock, sets, file, consumed, grants>>
    BY <1>1, <2>1 DEF Store!SaveWrite
  <2>4. \A k \in Store!Leases : Around(k)' => k = l \/ (Around(k) /\ k.id < saves)
    BY <1>b, <2>3 DEF Around, LeaseInv
  <2>5. PICK new : new = [iss EXCEPT ![saves] = clock]
    OBVIOUS
  <2>6. /\ new \in [Nat -> Nat] /\ new[saves] = clock
        /\ \A n \in Nat : n < saves => new[n] = iss[n]
    BY <1>a, <1>b, <2>5
  <2>7. \A k \in Store!Leases : Around(k)' => k.issued = new[k.id]
    BY <1>a, <1>b, <2>2, <2>4, <2>6 DEF Ledger, Store!Leases
  <2>8. \A g \in grants : g.lease < saves /\ g.lease \in Nat /\ new[g.lease] = iss[g.lease]
    BY <1>d, <2>6 DEF Posted
  <2>9. \A g \in grants : Posted(g, new, era, wall)'
    <3> TAKE g \in grants
    <3> QED BY <1>b, <1>d, <2>3, <2>8 DEF Posted
  <2>10. Ledger(new, era, wall)'
    BY <1>a, <2>3, <2>7, <2>9 DEF Ledger
  <2> QED BY <1>a, <2>6, <2>10, Zenon DEF SpentInv
<1>2. ASSUME NEW p \in Procs, Store!SaveRename(p) PROVE SpentInv'
  <2>1. \A k \in Store!Leases : Around(k)' => Around(k)
    BY <1>0, <1>2, <1>b DEF Around, Store!SaveRename
  <2> QED BY <1>2, <1>a, <1>c, <2>1, LedgerKept DEF Store!SaveRename
<1>3. ASSUME NEW p \in Procs, Store!Load(p) PROVE SpentInv'
  <2>1. \A k \in Store!Leases : Around(k)' => Around(k)
    BY <1>0, <1>3, <1>b DEF Around, Store!Load
  <2> QED BY <1>3, <1>a, <1>c, <2>1, LedgerKept DEF Store!Load
<1>4. ASSUME NEW p \in Procs, NEW f \in Prints, Store!Act(p, f) PROVE SpentInv'
  <2>0. PICK l : l = own[p]
    OBVIOUS
  <2>1. PICK n : n = [lease |-> l.id, at |-> time]
    OBVIOUS
  <2>2. /\ own' = [own EXCEPT ![p] = NoLease] /\ l \in Store!Leases /\ Around(l)
        /\ UNCHANGED <<time, clock, back, sets, saves, file, consumed, crashed>>
    BY <1>4, <2>0 DEF Store!Act, LeaseInv, Around
  <2>3. \A k \in Store!Leases : Around(k)' => Around(k)
    BY <1>0, <1>b, <2>2 DEF Around
  <2>4. /\ n \in Entry /\ n.lease = l.id /\ n.at = time /\ l.issued = iss[l.id]
        /\ l.id < saves
    BY <1>a, <1>b, <2>1, <2>2 DEF Entry, Store!Leases, Ledger, LeaseInv
  <2>5. CASE grants' = grants
    BY <1>a, <1>c, <2>2, <2>3, <2>5, LedgerKept
  <2>6. CASE grants' # grants
    <3>1. grants' = grants \cup {n} /\ Store!Valid(l, f) /\ n \notin grants
      BY <1>4, <2>0, <2>1, <2>6 DEF Store!Act
    <3>2. clock - iss[l.id] \in 0..(Window - 1)
      <4>1. l.issued \in Nat /\ Window \in Nat
        BY <2>2, AdmissionAssumption DEF Store!Leases, AdmissionAssumption
      <4> QED BY <1>b, <2>4, <3>1, <4>1 DEF Store!Valid
    <3>3. PICK era2, wall2 : era2 = [era EXCEPT ![n] = sets] /\ wall2 = [wall EXCEPT ![n] = clock]
      OBVIOUS
    <3>4. /\ era2 \in [Entry -> Nat] /\ wall2 \in [Entry -> Nat]
          /\ era2[n] = sets /\ wall2[n] = clock
          /\ \A g \in grants : g \in Entry /\ g # n /\ era2[g] = era[g] /\ wall2[g] = wall[g]
      BY <1>a, <1>b, <2>4, <3>1, <3>3
    <3>5. \A g \in grants' : g = n \/ g \in grants
      BY <3>1
    <3>6. \A g \in grants : g.lease = n.lease => ~(era2[g] = sets /\ wall2[g] = clock)
      <4> SUFFICES ASSUME NEW g \in grants, g.lease = n.lease, era2[g] = sets, wall2[g] = clock
          PROVE FALSE
        OBVIOUS
      <4>1. g.at = time
        BY <1>d, <3>4 DEF Posted
      <4>2. g = n
        BY <1>b, <2>4, <4>1 DEF Entry
      <4> QED BY <3>1, <4>2
    <3>7. ASSUME NEW g \in grants' PROVE Posted(g, iss, era2, wall2)'
      <4>1. CASE g = n
        BY <1>b, <2>2, <2>4, <3>2, <3>4, <4>1 DEF Posted
      <4>2. CASE g # n
        BY <1>b, <1>d, <2>2, <3>4, <3>5, <4>2 DEF Posted
      <4> QED BY <4>1, <4>2
    <3>8. \A g, h \in grants' :
            g.lease = h.lease /\ era2[g] = era2[h] /\ wall2[g] = wall2[h] => g = h
      BY <1>a, <3>4, <3>5, <3>6 DEF Ledger
    <3>9. Ledger(iss, era2, wall2)'
      BY <1>a, <2>2, <2>3, <3>7, <3>8 DEF Ledger
    <3> QED BY <1>a, <3>4, <3>9, Zenon DEF SpentInv
  <2> QED BY <2>5, <2>6
<1>5. CASE Store!Consume
  <2>1. \A k \in Store!Leases : Around(k)' => Around(k)
    BY <1>0, <1>5, <1>b DEF Around, Store!Consume
  <2> QED BY <1>5, <1>a, <1>c, <2>1, LedgerKept DEF Store!Consume
<1>6. CASE Store!Tick
  <2>1. /\ time' = time + 1 /\ clock' = clock + 1
        /\ UNCHANGED <<back, sets, file, pc, own, saves, consumed, crashed, grants>>
    BY <1>6 DEF Store!Tick
  <2>2. \A k \in Store!Leases : Around(k)' <=> Around(k)
    BY <2>1 DEF Around
  <2>3. \A g \in grants : Posted(g, iss, era, wall)'
    <3> TAKE g \in grants
    <3> QED BY <1>b, <1>d, <2>1 DEF Posted
  <2>4. Ledger(iss, era, wall)'
    BY <1>a, <2>1, <2>2, <2>3 DEF Ledger
  <2> QED BY <1>c, <2>4
<1>7. CASE Store!SetClock
  <2>1. PICK c \in 0..MaxTime :
          /\ clock' = c
          /\ sets' = IF c < clock THEN sets + 1 ELSE sets
    BY <1>7 DEF Store!SetClock
  <2>2. UNCHANGED <<time, file, pc, own, saves, consumed, crashed, grants>>
    BY <1>7 DEF Store!SetClock
  <2>3. \A k \in Store!Leases : Around(k)' <=> Around(k)
    BY <2>2 DEF Around
  <2>5. c \in Nat
    BY AdmissionAssumption DEF AdmissionAssumption
  <2>6. ASSUME NEW g \in grants PROVE Posted(g, iss, era, wall)'
    <3>1. CASE c < clock
      BY <1>b, <1>d, <2>1, <2>2, <2>5, <3>1 DEF Posted
    <3>2. CASE ~(c < clock)
      BY <1>b, <1>d, <2>1, <2>2, <2>5, <3>2 DEF Posted
    <3> QED BY <3>1, <3>2
  <2>7. Ledger(iss, era, wall)'
    BY <1>a, <2>2, <2>3, <2>6 DEF Ledger
  <2> QED BY <1>c, <2>7
<1>8. CASE Store!HostCrash
  <2>1. \A k \in Store!Leases : Around(k)' => Around(k)
    BY <1>0, <1>8, <1>b DEF Around, Store!HostCrash
  <2> QED BY <1>8, <1>a, <1>c, <2>1, LedgerKept DEF Store!HostCrash
<1> QED
  BY <1>1, <1>2, <1>3, <1>4, <1>5, <1>6, <1>7, <1>8 DEF Store!Next

\* The store counts as FiniteSets does.
LEMMA StoreCount == ASSUME NEW S PROVE Store!Cardinality(S) = Cardinality(S)
  BY DEF Store!Cardinality, Cardinality, Store!IsFiniteSet, IsFiniteSet

\* Each line of a lease has its own reading in its own era: a lease can be
\* granted no more often than its window is long, once for each time the clock
\* was set back and once more.
LEMMA SpentSafe == LeaseInv /\ SpentInv => Store!WindowIsSpent
<1> SUFFICES ASSUME LeaseInv, SpentInv, NEW g \in grants
    PROVE  Store!Cardinality({h \in grants : h.lease = g.lease}) <= Window * (sets + 1)
  BY DEF Store!WindowIsSpent
<1>1. PICK iss \in [Nat -> Nat], era \in [Entry -> Nat], wall \in [Entry -> Nat] :
        Ledger(iss, era, wall)
  BY DEF SpentInv
<1>2. sets \in Nat /\ Window \in Nat /\ grants \subseteq Entry
  BY AdmissionAssumption DEF AdmissionAssumption, LeaseInv, Store!TypeOK, Entry
<1> DEFINE S == {h \in grants : h.lease = g.lease}
           T == (0..sets) \X (0..(Window - 1))
           F == [h \in S |-> <<era[h], wall[h] - iss[g.lease]>>]
<1>3. IsFiniteSet(T) /\ Cardinality(T) = Window * (sets + 1)
  <2>1. IsFiniteSet(0..sets) /\ Cardinality(0..sets) = sets + 1
    <3>1. 0 \in Int /\ sets \in Int /\ ~(0 > sets) /\ sets - 0 + 1 = sets + 1
      BY <1>2
    <3> QED BY <3>1, FS_Interval
  <2>2. IsFiniteSet(0..(Window - 1)) /\ Cardinality(0..(Window - 1)) = Window
    <3>1. /\ 0 \in Int /\ Window - 1 \in Int
          /\ (IF 0 > Window - 1 THEN 0 ELSE Window - 1 - 0 + 1) = Window
      BY <1>2
    <3> QED BY <3>1, FS_Interval
  <2>3. PICK A, B : A = 0..sets /\ B = 0..(Window - 1)
    OBVIOUS
  <2>4. IsFiniteSet(A \X B) /\ Cardinality(A \X B) = Cardinality(A) * Cardinality(B)
    BY <2>1, <2>2, <2>3, FS_Product
  <2>5. T = A \X B /\ Cardinality(A) * Cardinality(B) = Window * (sets + 1)
    BY <1>2, <2>1, <2>2, <2>3
  <2> QED BY <2>4, <2>5
<1>4. \A h \in S : /\ era[h] \in 0..sets /\ wall[h] \in Nat /\ iss[g.lease] \in Nat
                   /\ wall[h] - iss[g.lease] \in 0..(Window - 1)
  <2> TAKE h \in S
  <2>1. /\ h \in grants /\ h.lease = g.lease /\ h \in Entry /\ g.lease \in Nat
        /\ era[h] \in Nat /\ wall[h] \in Nat /\ iss[g.lease] \in Nat
    BY <1>1, <1>2 DEF Entry
  <2>2. Posted(h, iss, era, wall)
    BY <1>1, <2>1 DEF Ledger
  <2> QED BY <1>2, <2>1, <2>2 DEF Posted
<1>5. F \in [S -> T]
  BY <1>4
<1>6. ASSUME NEW h \in S, NEW k \in S, F[h] = F[k] PROVE h = k
  <2>1. era[h] = era[k] /\ wall[h] - iss[g.lease] = wall[k] - iss[g.lease]
    BY <1>6
  <2>2. wall[h] = wall[k]
    BY <1>4, <2>1
  <2> QED BY <1>1, <2>1, <2>2 DEF Ledger
<1>7. F \in Injection(S, T)
  BY <1>5, <1>6 DEF Injection, IsInjective
<1> HIDE DEF S, T, F
<1>8. Cardinality(S) <= Cardinality(T)
  BY <1>3, <1>7, FS_Injection
<1>9. Store!Cardinality(S) = Cardinality(S)
  BY StoreCount
<1>10. Store!Cardinality(S) <= Window * (sets + 1)
  BY <1>3, <1>8, <1>9
<1> QED BY <1>10 DEF S

\* It is what the run asks of the leases.
LEMMA LeaseSafe == LeaseInv /\ SpentInv => LeaseSound
<1> SUFFICES ASSUME LeaseInv, SpentInv PROVE LeaseSound
  OBVIOUS
<1>1. Store!WindowIsSpent
  BY SpentSafe
<1>2. Store!Sound
  BY DEF LeaseInv, Store!Sound, Store!ConsumedIsGone
<1> QED BY <1>1, <1>2 DEF LeaseSound

\* A step that is not the store's keeps it.
LEMMA LeaseStays == LeaseInv /\ SpentInv /\ UNCHANGED ofLease => LeaseInv' /\ SpentInv'
<1> SUFFICES ASSUME LeaseInv, SpentInv, UNCHANGED ofLease PROVE LeaseInv' /\ SpentInv'
  OBVIOUS
<1>1. \A l : (Around(l)' <=> Around(l)) /\ (LeaseAge(l)' <=> LeaseAge(l))
  BY DEF ofLease, Around, LeaseAge
<1>2. LeaseInv'
  BY <1>1 DEF ofLease, LeaseInv, Store!TypeOK
<1>3. PICK iss \in [Nat -> Nat], era \in [Entry -> Nat], wall \in [Entry -> Nat] :
        Ledger(iss, era, wall)
  BY DEF SpentInv
<1>4. Ledger(iss, era, wall)'
  BY <1>1, <1>3, LedgerKept DEF ofLease
<1>5. SpentInv'
  BY <1>3, <1>4, Zenon DEF SpentInv
<1> QED BY <1>2, <1>5

\* Valid lets a lease act only within its window, as far as the clock can be
\* trusted.
LEMMA ActIsFresh ==
  ASSUME LeaseInv, NEW p \in Procs, NEW f \in Prints, Store!Act(p, f), grants' # grants
  PROVE  own[p].print = f /\ f # NoPrint /\ time - own[p].passed < Window + back
<1>1. own[p] \in Store!Leases /\ Store!Valid(own[p], f)
  BY DEF Store!Act, LeaseInv
<1>2. LeaseAge(own[p])
  BY <1>1 DEF LeaseInv, Around
<1>3. /\ time \in Nat /\ clock \in Nat /\ back \in Nat /\ Window \in Nat
      /\ own[p].issued \in Nat /\ own[p].passed \in Nat
  BY <1>1, AdmissionAssumption
    DEF AdmissionAssumption, LeaseInv, Store!TypeOK, Store!Leases
<1> QED BY <1>1, <1>2, <1>3 DEF LeaseAge, Store!Valid

\* LeaseStore: for every number of processes, saves and clock changes, a
\* consumed lease never comes back unless the host crashed, and setting the
\* clock back lends a lease one more window of real time at most.
THEOREM LeaseIsSound == Spec => []LeaseSound
<1>1. Init => LeaseInv /\ SpentInv
  BY LeaseInit, SpentInit DEF Init
<1>2. LeaseInv /\ SpentInv /\ [Next]_vars => (LeaseInv /\ SpentInv)'
  BY LeaseNext, SpentNext, LeaseStays DEF Next, vars
<1>3. LeaseInv /\ SpentInv => LeaseSound
  BY LeaseSafe
<1> QED BY <1>1, <1>2, <1>3, PTL DEF Spec

\* Lease.Valid: an action is granted only to a lease that is fresh and has the
\* caller's fingerprint, which is not empty.
THEOREM GrantsAreAlwaysFresh == Spec => GrantsAreFresh
<1>1. Init => LeaseInv /\ SpentInv
  BY LeaseInit, SpentInit DEF Init
<1>2. LeaseInv /\ SpentInv /\ [Next]_vars => (LeaseInv /\ SpentInv)'
  BY LeaseNext, SpentNext, LeaseStays DEF Next, vars
<1>3. LeaseInv /\ [Next]_vars =>
        [\A p \in Procs, f \in Prints :
           Store!Act(p, f) /\ grants' # grants =>
             /\ own[p].print = f /\ f # NoPrint
             /\ time - own[p].passed < Window + back]_(Store!vars)
  BY ActIsFresh
<1> QED BY <1>1, <1>2, <1>3, PTL DEF Spec, GrantsAreFresh, Store!GrantsAreFresh
-----------------------------------------------------------------------------
\* The positions of a status in a report.
Hits(rs, s) == {n \in DOMAIN rs : rs[n] = s}

\* The parts of the type that proofs refer to.
Rule == [from : {"func", "check"}, status : TheGate!Statuses \cup {""}]
Found == SUBSET {"FAIL", "ANOMALY"}

\* What a builder says that recorded f.
Worst(f) == IF "FAIL" \in f THEN "FAIL" ELSE IF f = {} THEN "PASS" ELSE "ANOMALY"

\* Rule n says what the builder had recorded when it was wrapped.
WrappedAsIs(n) ==
  /\ rules[n].from = "func" => checks[n] = {}
  /\ rules[n].from = "check" =>
       rules[n].status = Worst(checks[n])

\* Gate: what every step keeps. Each wrapped check says what its builder had
\* recorded, the counters count the report, the report has a line for every
\* rule that ran, and nothing passes that blocks.
GateInv ==
  /\ TheGate!TypeOK
  /\ Len(checks) = Len(rules)
  /\ \A n \in 1..Len(rules) : WrappedAsIs(n)
  /\ verdict = "none" => Len(results) <= Len(rules)
  /\ verdict # "none" => Len(results) = IF policy \in TheGate!Policies THEN Len(rules)
                                        ELSE Len(rules) + 1
  /\ \A s \in TheGate!Statuses : counts[s] = Cardinality(Hits(results, s))
  /\ \A n \in 1..Len(rules) : n <= Len(results) =>
       results[n] \in {"FAIL", TheGate!Recorded(rules[n].status)}
  /\ verdict = "PASS" => policy \in TheGate!Policies /\ ~TheGate!Blocks

\* One more line of a report counts for its own status only.
LEMMA HitsAppend ==
  ASSUME NEW rs \in Seq(TheGate!Statuses), NEW s \in TheGate!Statuses
  PROVE  /\ Append(rs, s) \in Seq(TheGate!Statuses)
         /\ Len(Append(rs, s)) = Len(rs) + 1
         /\ \A n \in 1..Len(rs) : Append(rs, s)[n] = rs[n]
         /\ Append(rs, s)[Len(rs) + 1] = s
         /\ \A z \in TheGate!Statuses :
              /\ Cardinality(Hits(rs, z)) \in Nat
              /\ Cardinality(Hits(Append(rs, s), z)) =
                   IF z = s THEN Cardinality(Hits(rs, z)) + 1 ELSE Cardinality(Hits(rs, z))
<1> DEFINE a == Append(rs, s)
<1>1. /\ a \in Seq(TheGate!Statuses) /\ Len(a) = Len(rs) + 1 /\ a[Len(rs) + 1] = s
      /\ \A n \in 1..Len(rs) : a[n] = rs[n]
  BY AppendProperties
<1>2. Len(rs) \in Nat /\ DOMAIN rs = 1..Len(rs) /\ DOMAIN a = 1..(Len(rs) + 1)
  BY <1>1, LenProperties
<1> HIDE DEF a
<1>3. ASSUME NEW z \in TheGate!Statuses
      PROVE /\ Cardinality(Hits(rs, z)) \in Nat
            /\ Cardinality(Hits(a, z)) =
                   IF z = s THEN Cardinality(Hits(rs, z)) + 1 ELSE Cardinality(Hits(rs, z))
  <2>1. IsFiniteSet(Hits(rs, z))
    <3>1. IsFiniteSet(1..Len(rs))
      BY <1>2, FS_Interval
    <3> QED BY <1>2, <3>1, FS_Subset DEF Hits
  <2>2. Cardinality(Hits(rs, z)) \in Nat
    BY <2>1, FS_CardinalityType
  <2>3. Len(rs) + 1 \notin Hits(rs, z)
    BY <1>2 DEF Hits
  <2>4. CASE z = s
    <3>1. Hits(a, z) = Hits(rs, z) \cup {Len(rs) + 1}
      BY <1>1, <1>2, <2>4 DEF Hits
    <3> QED BY <2>1, <2>2, <2>3, <2>4, <3>1, FS_AddElement
  <2>5. CASE z # s
    <3>1. Hits(a, z) = Hits(rs, z)
      BY <1>1, <1>2, <2>5 DEF Hits
    <3> QED BY <2>2, <2>5, <3>1
  <2> QED BY <2>4, <2>5
<1> QED BY <1>1, <1>3 DEF a

\* The gate counts as FiniteSets does.
LEMMA GateCount == ASSUME NEW S PROVE TheGate!Cardinality(S) = Cardinality(S)
  BY DEF TheGate!Cardinality, Cardinality, TheGate!IsFiniteSet, IsFiniteSet

\* The gate's TypeOK with its parts named.
GateTyped ==
  /\ policy \in TheGate!Policies \cup {""} /\ rules \in Seq(Rule)
  /\ builder = Worst(found) /\ found \in Found /\ checks \in Seq(Found)
  /\ cancelled \in BOOLEAN /\ results \in Seq(TheGate!Statuses)
  /\ counts \in [TheGate!Statuses -> Nat] /\ verdict \in {"none", "PASS", "BLOCKED"}

\* It is the same formula, in this state and in the next.
LEMMA GateTypedIsTypeOK ==
  (TheGate!TypeOK <=> GateTyped) /\ (TheGate!TypeOK' <=> GateTyped')
  BY Zenon DEF GateTyped, TheGate!TypeOK, Rule, Found, Worst

\* The empty sequence.
LEMMA EmptyFacts == DOMAIN <<>> = {} /\ Len(<<>>) = 0 /\ \A S : <<>> \in Seq(S)
  OBVIOUS

\* Numbers next to each other.
LEMMA Between ==
  ASSUME NEW a \in Nat, NEW b \in Nat
  PROVE  /\ a <= b => a <= b + 1
         /\ a = b \/ a = b + 1 => a <= b + 1 /\ a >= b
  OBVIOUS

\* Failf outdoes Anomalyf, and Anomalyf outdoes a pass, in any order.
LEMMA WorstFacts ==
  /\ Worst({}) = "PASS"
  /\ \A f \in Found : /\ f \cup {"FAIL"} \in Found /\ Worst(f \cup {"FAIL"}) = "FAIL"
                      /\ f \cup {"ANOMALY"} \in Found
                      /\ Worst(f \cup {"ANOMALY"}) = IF Worst(f) = "FAIL" THEN "FAIL" ELSE "ANOMALY"
                      /\ Worst(f) \in TheGate!Statuses
  BY DEF Worst, Found, TheGate!Statuses

\* What the gate's types say of its sequences.
LEMMA GateTypes ==
  ASSUME TheGate!TypeOK
  PROVE  /\ rules \in Seq(Rule) /\ checks \in Seq(Found)
         /\ results \in Seq(TheGate!Statuses)
         /\ Len(rules) \in Nat /\ Len(checks) \in Nat /\ Len(results) \in Nat
         /\ DOMAIN rules = 1..Len(rules) /\ DOMAIN results = 1..Len(results)
         /\ counts \in [TheGate!Statuses -> Nat]
<1>1. /\ rules \in Seq(Rule) /\ checks \in Seq(Found)
      /\ results \in Seq(TheGate!Statuses)
      /\ counts \in [TheGate!Statuses -> Nat]
  BY Zenon DEF TheGate!TypeOK, Rule, Found
<1> HIDE DEF Rule, Found
<1> QED BY <1>1, LenProperties

\* A new gate is in such a state.
LEMMA GateInit == TheGate!Init => GateInv
<1> SUFFICES ASSUME TheGate!Init PROVE GateInv
  OBVIOUS
<1>1. cancelled \in BOOLEAN
  BY Zenon DEF TheGate!Init
<1>a. /\ results = <<>> /\ rules = <<>> /\ checks = <<>> /\ builder = "PASS"
      /\ found = {}
      /\ counts = [s \in TheGate!Statuses |-> 0] /\ verdict = "none"
      /\ policy \in TheGate!Policies \cup {""}
  BY DEF TheGate!Init
<1>b. Len(<<>>) = 0 /\ \A S : <<>> \in Seq(S)
  BY EmptyFacts
<1>2. \A s : Hits(results, s) = {}
  BY <1>a, EmptyFacts DEF Hits
<1>3. TheGate!TypeOK
  <2>1. counts \in [TheGate!Statuses -> Nat] /\ found \in Found
    BY <1>a DEF Found
  <2> QED BY <1>1, <1>a, <1>b, <2>1, WorstFacts, GateTypedIsTypeOK DEF GateTyped
<1>4. \A s \in TheGate!Statuses : counts[s] = Cardinality(Hits(results, s))
  BY <1>2, <1>a, FS_EmptySet
<1>5. Len(rules) = 0 /\ Len(checks) = 0 /\ Len(results) = 0
  BY <1>a, <1>b, Zenon
<1>6. 1..0 = {} /\ 0 <= 0
  OBVIOUS
<1>7. verdict = "none" /\ verdict # "PASS"
  BY <1>a
<1> QED BY <1>3, <1>4, <1>5, <1>6, <1>7 DEF GateInv

\* While rules are collected there is no report to disturb.
LEMMA GateAdds ==
  ASSUME GateInv, NEW r \in Rule,
         NEW c \in Found,
         rules' = Append(rules, r), checks' = Append(checks, c),
         UNCHANGED <<policy, builder, found, cancelled, results, counts, verdict>>,
         TheGate!Collecting,
         r.from = "func" => c = {},
         r.from = "check" => r.status = Worst(c)
  PROVE  GateInv'
<1>1. /\ rules \in Seq(Rule) /\ checks \in Seq(Found) /\ Len(checks) = Len(rules)
      /\ Len(rules) \in Nat
  BY GateTypes DEF GateInv
<1>2. /\ rules' \in Seq(Rule)
      /\ Len(rules') = Len(rules) + 1 /\ rules'[Len(rules) + 1] = r
      /\ \A n \in 1..Len(rules) : rules'[n] = rules[n]
  BY <1>1, AppendProperties
<1>3. /\ checks' \in Seq(Found) /\ Len(checks') = Len(checks) + 1
      /\ checks'[Len(checks) + 1] = c
      /\ \A n \in 1..Len(checks) : checks'[n] = checks[n]
  BY <1>1, AppendProperties
<1>4. TheGate!TypeOK'
  <2>1. TheGate!TypeOK
    BY DEF GateInv
  <2> QED BY <1>2, <1>3, <2>1, GateTypedIsTypeOK DEF GateTyped
<1>5. ASSUME NEW n \in 1..Len(rules') PROVE WrappedAsIs(n)'
  <2>1. CASE n = Len(rules) + 1
    BY <1>1, <1>2, <1>3, <2>1 DEF WrappedAsIs
  <2>2. CASE n # Len(rules) + 1
    <3>1. n \in 1..Len(rules) /\ n \in 1..Len(checks)
      BY <1>1, <1>2, <2>2
    <3> QED BY <1>2, <1>3, <3>1 DEF WrappedAsIs, GateInv
  <2> QED BY <2>1, <2>2
<1>6. results = <<>> /\ verdict = "none" /\ Len(results) = 0
  BY DEF TheGate!Collecting
<1>7. \A s \in TheGate!Statuses : counts'[s] = Cardinality(Hits(results', s))
  BY DEF GateInv
<1>8. Len(results') = 0
  BY <1>6
<1> QED BY <1>1, <1>2, <1>3, <1>4, <1>5, <1>6, <1>7, <1>8 DEF GateInv

\* AddRule, Failf, Anomalyf, a wrapped or a new builder, the evaluation of a
\* rule and a cancelled context keep it.
LEMMA GateNext == GateInv /\ TheGate!Next => GateInv'
<1> SUFFICES ASSUME GateInv, TheGate!Next PROVE GateInv'
  OBVIOUS
<1>0. /\ results \in Seq(TheGate!Statuses) /\ Len(results) \in Nat /\ Len(rules) \in Nat
      /\ counts \in [TheGate!Statuses -> Nat] /\ rules \in Seq(Rule)
  BY GateTypes DEF GateInv
<1>1. ASSUME NEW s \in TheGate!Statuses \cup {""}, TheGate!AddRule(s) PROVE GateInv'
  <2>1. PICK r : r = [from |-> "func", status |-> s]
    OBVIOUS
  <2>2. r \in Rule /\ r.from = "func" /\ {} \in Found
    BY <2>1 DEF Rule, Found
  <2> QED BY <1>1, <2>1, <2>2, GateAdds DEF TheGate!AddRule
<1>2. CASE TheGate!FromBuilder
  <2>1. PICK r : r = [from |-> "check", status |-> builder]
    OBVIOUS
  <2>2. PICK c : c = found
    OBVIOUS
  <2>3. /\ r \in Rule
        /\ c \in Found /\ r.from # "func"
        /\ r.status = Worst(c)
    <3>1. builder = Worst(found) /\ found \in Found
      BY GateTypedIsTypeOK DEF GateInv, GateTyped
    <3> QED BY <2>1, <2>2, <3>1, WorstFacts DEF Rule
  <2> QED BY <1>2, <2>1, <2>2, <2>3, GateAdds DEF TheGate!FromBuilder
<1>3. CASE TheGate!Failf \/ TheGate!Anomalyf \/ TheGate!NewBuilder
  <2>1. UNCHANGED <<policy, rules, checks, cancelled, results, counts, verdict>>
    BY <1>3 DEF TheGate!Failf, TheGate!Anomalyf, TheGate!NewBuilder
  <2>2. found' \in Found /\ builder' = Worst(found')
    <3>1. builder = Worst(found) /\ found \in Found
      BY GateTypedIsTypeOK DEF GateInv, GateTyped
    <3>2. {} \in Found
      BY DEF Found
    <3> QED
      BY <1>3, <3>1, <3>2, WorstFacts
        DEF TheGate!Failf, TheGate!Anomalyf, TheGate!NewBuilder
  <2>3. TheGate!TypeOK'
    BY <2>1, <2>2, GateTypedIsTypeOK DEF GateInv, GateTyped
  <2>4. TheGate!Blocks' <=> TheGate!Blocks
    BY <2>1 DEF TheGate!Blocks
  <2>5. \A n : WrappedAsIs(n)' <=> WrappedAsIs(n)
    BY <2>1 DEF WrappedAsIs
  <2> QED BY <2>1, <2>3, <2>4, <2>5 DEF GateInv
<1>4. CASE TheGate!EvaluateRule
  <2>1. PICK s : s = IF cancelled THEN "FAIL"
                     ELSE TheGate!Recorded(rules[Len(results) + 1].status)
    OBVIOUS
  <2>2. /\ verdict = "none" /\ Len(results) < Len(rules)
        /\ results' = Append(results, s)
        /\ counts' = [counts EXCEPT ![s] = counts[s] + 1]
        /\ UNCHANGED <<policy, rules, builder, found, checks, cancelled, verdict>>
    BY <1>4, <2>1 DEF TheGate!EvaluateRule
  <2>3. /\ s \in TheGate!Statuses
        /\ s \in {"FAIL", TheGate!Recorded(rules[Len(results) + 1].status)}
    <3>1. CASE cancelled
      BY <2>1, <3>1 DEF TheGate!Statuses
    <3>2. CASE ~cancelled
      BY <2>1, <3>2 DEF TheGate!Statuses, TheGate!Recorded
    <3> QED BY <3>1, <3>2
  <2>4. /\ results' \in Seq(TheGate!Statuses) /\ Len(results') = Len(results) + 1
        /\ \A n \in 1..Len(results) : results'[n] = results[n]
        /\ results'[Len(results) + 1] = s
        /\ \A z \in TheGate!Statuses :
              /\ Cardinality(Hits(results, z)) \in Nat
              /\ Cardinality(Hits(results', z)) =
                   IF z = s THEN Cardinality(Hits(results, z)) + 1
                   ELSE Cardinality(Hits(results, z))
    BY <1>0, <2>2, <2>3, HitsAppend
  <2>5. \A z \in TheGate!Statuses : counts'[z] = Cardinality(Hits(results', z))
    BY <1>0, <2>2, <2>3, <2>4 DEF GateInv
  <2>6. ASSUME NEW n \in 1..Len(rules'), n <= Len(results')
        PROVE  results'[n] \in {"FAIL", TheGate!Recorded(rules'[n].status)}
    <3>1. CASE n = Len(results) + 1
      BY <2>2, <2>3, <2>4, <3>1
    <3>2. CASE n # Len(results) + 1
      <4>1. n \in 1..Len(results) /\ n <= Len(results)
        BY <1>0, <2>4, <2>6, <3>2
      <4> QED BY <2>2, <2>4, <4>1 DEF GateInv
    <3> QED BY <3>1, <3>2
  <2>7. TheGate!TypeOK'
    <3>1. counts' \in [TheGate!Statuses -> Nat]
      BY <1>0, <2>2, <2>3
    <3> QED BY <2>2, <2>4, <3>1, GateTypedIsTypeOK DEF GateInv, GateTyped
  <2>8. \A n : WrappedAsIs(n)' <=> WrappedAsIs(n)
    BY <2>2 DEF WrappedAsIs
  <2>9. Len(results') <= Len(rules')
    BY <1>0, <2>2, <2>4
  <2> QED BY <2>2, <2>5, <2>6, <2>7, <2>8, <2>9 DEF GateInv, TheGate!Recorded
<1>5. CASE TheGate!ApplyVerdict
  <2>0. /\ verdict = "none" /\ Len(results) = Len(rules)
        /\ UNCHANGED <<policy, rules, builder, found, checks, cancelled>>
    BY <1>5 DEF TheGate!ApplyVerdict
  <2>8. \A n : WrappedAsIs(n)' <=> WrappedAsIs(n)
    BY <2>0 DEF WrappedAsIs
  <2>1. CASE policy \in TheGate!Policies
    <3>1. /\ UNCHANGED <<results, counts>>
          /\ verdict' = IF TheGate!Blocks THEN "BLOCKED" ELSE "PASS"
      BY <1>5, <2>1 DEF TheGate!ApplyVerdict
    <3>2. TheGate!Blocks' <=> TheGate!Blocks
      BY <2>0, <3>1 DEF TheGate!Blocks
    <3>3. TheGate!TypeOK'
      BY <2>0, <3>1 DEF GateInv, TheGate!TypeOK
    <3> QED BY <2>0, <2>1, <2>8, <3>1, <3>2, <3>3 DEF GateInv
  <2>2. CASE policy \notin TheGate!Policies
    <3>1. /\ results' = Append(results, "FAIL") /\ verdict' = "BLOCKED"
          /\ counts' = [counts EXCEPT !["FAIL"] = counts["FAIL"] + 1]
      BY <1>5, <2>2 DEF TheGate!ApplyVerdict
    <3>2. "FAIL" \in TheGate!Statuses
      BY DEF TheGate!Statuses
    <3>4. /\ results' \in Seq(TheGate!Statuses) /\ Len(results') = Len(results) + 1
          /\ \A n \in 1..Len(results) : results'[n] = results[n]
          /\ \A z \in TheGate!Statuses :
              /\ Cardinality(Hits(results, z)) \in Nat
              /\ Cardinality(Hits(results', z)) =
                   IF z = "FAIL" THEN Cardinality(Hits(results, z)) + 1
                   ELSE Cardinality(Hits(results, z))
      BY <1>0, <3>1, <3>2, HitsAppend
    <3>5. \A z \in TheGate!Statuses : counts'[z] = Cardinality(Hits(results', z))
      BY <1>0, <3>1, <3>2, <3>4 DEF GateInv
    <3>6. TheGate!TypeOK'
      <4>1. counts' \in [TheGate!Statuses -> Nat]
        BY <1>0, <3>1, <3>2
      <4> QED BY <2>0, <3>1, <3>4, <4>1, GateTypedIsTypeOK DEF GateInv, GateTyped
    <3>7. ASSUME NEW n \in 1..Len(rules')
          PROVE  results'[n] \in {"FAIL", TheGate!Recorded(rules'[n].status)}
      <4>1. n \in 1..Len(results) /\ n <= Len(results)
        BY <1>0, <2>0
      <4> QED BY <2>0, <3>4, <4>1 DEF GateInv
    <3>8. Len(results') = Len(rules') + 1
      BY <2>0, <3>4
    <3> QED
      BY <2>0, <2>2, <2>8, <3>1, <3>5, <3>6, <3>7, <3>8
        DEF GateInv, TheGate!Recorded
  <2> QED BY <2>1, <2>2
<1>6. CASE TheGate!Cancel
  <2>1. UNCHANGED <<policy, rules, builder, found, checks, results, counts, verdict>>
    BY <1>6 DEF TheGate!Cancel
  <2>2. cancelled' \in BOOLEAN
    BY <1>6, Zenon DEF TheGate!Cancel
  <2>3. TheGate!TypeOK'
    BY <2>1, <2>2 DEF GateInv, TheGate!TypeOK
  <2>4. TheGate!Blocks' <=> TheGate!Blocks
    BY <2>1 DEF TheGate!Blocks
  <2>5. \A n : WrappedAsIs(n)' <=> WrappedAsIs(n)
    BY <2>1 DEF WrappedAsIs
  <2> QED BY <2>1, <2>3, <2>4, <2>5 DEF GateInv
<1> QED BY <1>1, <1>2, <1>3, <1>4, <1>5, <1>6 DEF TheGate!Next

\* It is what the run asks of the gate.
LEMMA GateSafe == GateInv => GateSound
<1> SUFFICES ASSUME GateInv PROVE GateSound
  OBVIOUS
<1>0. /\ results \in Seq(TheGate!Statuses) /\ Len(results) \in Nat /\ Len(rules) \in Nat
      /\ counts \in [TheGate!Statuses -> Nat] /\ DOMAIN rules = 1..Len(rules)
      /\ DOMAIN results = 1..Len(results) /\ rules \in Seq(Rule)
  BY GateTypes DEF GateInv
<1>1. TheGate!CountsAddUp
  <2>1. \A s \in TheGate!Statuses :
          counts[s] = TheGate!Cardinality({n \in DOMAIN results : results[n] = s})
    BY GateCount, Zenon DEF GateInv, Hits
  <2>2. Len(results) <= Len(rules) + 1 /\ (verdict # "none" => Len(results) >= Len(rules))
    <3>1. CASE verdict = "none"
      <4>1. Len(results) <= Len(rules)
        BY <3>1 DEF GateInv
      <4> QED BY <1>0, <3>1, <4>1, Between
    <3>2. CASE verdict # "none"
      <4>1. Len(results) = Len(rules) \/ Len(results) = Len(rules) + 1
        BY <3>2 DEF GateInv
      <4> QED BY <1>0, <4>1, Between
    <3> QED BY <3>1, <3>2
  <2> QED BY <2>1, <2>2 DEF TheGate!CountsAddUp
<1>2. TheGate!FailsClosed
  <2> SUFFICES ASSUME verdict = "PASS", policy # "PERMISSIVE", NEW n \in 1..Len(rules)
      PROVE  /\ \/ rules[n].status \in {"PASS", "SKIPPED"}
                \/ policy = "STANDARD" /\ rules[n].status = "ANOMALY"
             /\ results[n] = rules[n].status
             /\ "FAIL" \notin checks[n]
    BY <1>0 DEF TheGate!FailsClosed
  <2>1. /\ policy \in {"STRICT", "STANDARD"} /\ ~TheGate!Blocks
        /\ Len(results) = Len(rules) /\ n \in 1..Len(results) /\ n <= Len(results)
        /\ counts["FAIL"] \in Nat /\ counts["ANOMALY"] \in Nat
    <3>1. policy \in TheGate!Policies /\ ~TheGate!Blocks /\ Len(results) = Len(rules)
      BY DEF GateInv
    <3> QED BY <1>0, <3>1 DEF TheGate!Policies, TheGate!Statuses
  <2>2. counts["FAIL"] = 0 /\ (policy = "STRICT" => counts["ANOMALY"] = 0)
    BY <2>1 DEF TheGate!Blocks
  <2>3. ASSUME NEW s \in TheGate!Statuses, counts[s] = 0 PROVE results[n] # s
    <3>1. IsFiniteSet(Hits(results, s))
      <4>1. IsFiniteSet(1..Len(results))
        BY <1>0, FS_Interval
      <4> QED BY <1>0, <4>1, FS_Subset DEF Hits
    <3>2. Hits(results, s) = {}
      BY <2>3, <3>1, FS_EmptySet DEF GateInv
    <3> QED BY <1>0, <2>1, <3>2 DEF Hits
  <2>4. results[n] # "FAIL" /\ (policy = "STRICT" => results[n] # "ANOMALY")
    BY <2>2, <2>3 DEF TheGate!Statuses
  <2>5. results[n] = TheGate!Recorded(rules[n].status)
    BY <2>1, <2>4 DEF GateInv
  <2>6. results[n] = rules[n].status /\ rules[n].status \in TheGate!Statuses
    BY <2>4, <2>5 DEF TheGate!Recorded
  <2>7. "FAIL" \notin checks[n]
    <3>1. WrappedAsIs(n) /\ rules[n].from \in {"func", "check"}
      <4>1. rules[n] \in Rule
        BY <1>0
      <4> QED BY <4>1 DEF GateInv, Rule
    <3> QED BY <2>4, <2>6, <3>1 DEF WrappedAsIs, Worst
  <2> QED BY <2>1, <2>4, <2>6, <2>7 DEF TheGate!Statuses
<1> QED BY <1>1, <1>2 DEF GateInv, GateSound, TheGate!Sound

\* A step that is not the gate's keeps it.
LEMMA GateStays == GateInv /\ UNCHANGED ofGate => GateInv'
<1> SUFFICES ASSUME GateInv, UNCHANGED ofGate PROVE GateInv'
  OBVIOUS
<1>1. /\ UNCHANGED <<policy, rules, builder, found, checks, cancelled, results, counts, verdict>>
      /\ TheGate!Blocks' <=> TheGate!Blocks
      /\ \A n : WrappedAsIs(n)' <=> WrappedAsIs(n)
  BY DEF ofGate, TheGate!Blocks, WrappedAsIs
<1>2. TheGate!TypeOK'
  BY <1>1 DEF GateInv, TheGate!TypeOK
<1> QED BY <1>1, <1>2 DEF GateInv

\* Gate: for every list of rules the report accounts for every rule, its
\* counters for every line, and a blocking policy passes only when every rule
\* ran and reported what the policy accepts, with undefined statuses, unknown
\* policies and a cancellation at any point.
THEOREM GateIsSound == Spec => []GateSound
<1>1. Init => GateInv
  BY GateInit DEF Init
<1>2. GateInv /\ [Next]_vars => GateInv'
  BY GateNext, GateStays DEF Next, vars
<1>3. GateInv => GateSound
  BY GateSafe
<1> QED BY <1>1, <1>2, <1>3, PTL DEF Spec

\* Gate, while nothing cancels it: what every step keeps besides. A line of
\* the report is what its rule said, and under a known policy the verdict is
\* what the counters of the whole report say.
AgreeInv ==
  /\ ~cancelled => \A n \in 1..Len(rules) : n <= Len(results) =>
                     results[n] = TheGate!Recorded(rules[n].status)
  /\ verdict # "none" /\ policy \in TheGate!Policies => (verdict = "PASS" <=> ~TheGate!Blocks)

\* A new gate is in such a state.
LEMMA AgreeInit == TheGate!Init => AgreeInv
<1> SUFFICES ASSUME TheGate!Init PROVE AgreeInv
  OBVIOUS
<1>1. rules = <<>> /\ verdict = "none"
  BY DEF TheGate!Init
<1>2. Len(rules) = 0
  BY <1>1, EmptyFacts, Zenon
<1>3. 1..0 = {}
  OBVIOUS
<1> QED BY <1>1, <1>2, <1>3 DEF AgreeInv

\* Rules are collected before there is a report, a rule's line is added when
\* it ran, and a context that is done stays done.
LEMMA AgreeNext == GateInv /\ AgreeInv /\ TheGate!Next => AgreeInv'
<1> SUFFICES ASSUME GateInv, AgreeInv, TheGate!Next PROVE AgreeInv'
  OBVIOUS
<1>0. /\ results \in Seq(TheGate!Statuses) /\ Len(results) \in Nat /\ Len(rules) \in Nat
      /\ rules \in Seq(Rule)
  BY GateTypes DEF GateInv
<1>1. CASE (\E s \in TheGate!Statuses \cup {""} : TheGate!AddRule(s)) \/ TheGate!FromBuilder
  <2>1. UNCHANGED results /\ UNCHANGED verdict /\ results = <<>> /\ verdict = "none"
    BY <1>1 DEF TheGate!AddRule, TheGate!FromBuilder, TheGate!Collecting
  <2>2. Len(results') = 0
    BY <2>1, EmptyFacts, Zenon
  <2>3. \A n \in 1..Len(rules') : ~(n <= 0)
    OBVIOUS
  <2> QED BY <2>1, <2>2, <2>3 DEF AgreeInv
<1>2. CASE TheGate!Failf \/ TheGate!Anomalyf \/ TheGate!NewBuilder
  <2>1. UNCHANGED <<policy, rules, cancelled, results, counts, verdict>>
    BY <1>2 DEF TheGate!Failf, TheGate!Anomalyf, TheGate!NewBuilder
  <2>2. TheGate!Blocks' <=> TheGate!Blocks
    BY <2>1 DEF TheGate!Blocks
  <2> QED BY <2>1, <2>2 DEF AgreeInv
<1>3. CASE TheGate!EvaluateRule
  <2>1. PICK s : s = IF cancelled THEN "FAIL"
                     ELSE TheGate!Recorded(rules[Len(results) + 1].status)
    OBVIOUS
  <2>2. /\ verdict = "none" /\ Len(results) < Len(rules)
        /\ results' = Append(results, s)
        /\ UNCHANGED <<policy, rules, cancelled, verdict>>
    BY <1>3, <2>1 DEF TheGate!EvaluateRule
  <2>3. s \in TheGate!Statuses
    BY <2>1 DEF TheGate!Statuses, TheGate!Recorded
  <2>4. /\ Len(results') = Len(results) + 1 /\ results'[Len(results) + 1] = s
        /\ \A n \in 1..Len(results) : results'[n] = results[n]
    BY <1>0, <2>2, <2>3, AppendProperties
  <2>5. ASSUME ~cancelled', NEW n \in 1..Len(rules'), n <= Len(results')
        PROVE  results'[n] = TheGate!Recorded(rules'[n].status)
    <3>1. CASE n = Len(results) + 1
      BY <2>1, <2>2, <2>4, <2>5, <3>1
    <3>2. CASE n # Len(results) + 1
      <4>1. n \in 1..Len(results) /\ n <= Len(results) /\ n \in 1..Len(rules)
        BY <1>0, <2>2, <2>4, <2>5, <3>2
      <4> QED BY <2>2, <2>4, <2>5, <4>1 DEF AgreeInv
    <3> QED BY <3>1, <3>2
  <2> QED BY <2>2, <2>5 DEF AgreeInv, TheGate!Recorded
<1>4. CASE TheGate!ApplyVerdict
  <2>0. /\ verdict = "none" /\ Len(results) = Len(rules)
        /\ UNCHANGED <<policy, rules, cancelled>>
    BY <1>4 DEF TheGate!ApplyVerdict
  <2>1. CASE policy \in TheGate!Policies
    <3>1. /\ UNCHANGED <<results, counts>>
          /\ verdict' = IF TheGate!Blocks THEN "BLOCKED" ELSE "PASS"
      BY <1>4, <2>1 DEF TheGate!ApplyVerdict
    <3>2. TheGate!Blocks' <=> TheGate!Blocks
      BY <2>0, <3>1 DEF TheGate!Blocks
    <3> QED BY <2>0, <3>1, <3>2 DEF AgreeInv
  <2>2. CASE policy \notin TheGate!Policies
    <3>1. results' = Append(results, "FAIL")
      BY <1>4, <2>2 DEF TheGate!ApplyVerdict
    <3>2. "FAIL" \in TheGate!Statuses
      BY DEF TheGate!Statuses
    <3>3. \A n \in 1..Len(results) : results'[n] = results[n]
      BY <1>0, <3>1, <3>2, AppendProperties
    <3>4. ASSUME ~cancelled', NEW n \in 1..Len(rules')
          PROVE  results'[n] = TheGate!Recorded(rules'[n].status)
      <4>1. n \in 1..Len(results) /\ n <= Len(results) /\ n \in 1..Len(rules)
        BY <1>0, <2>0
      <4> QED BY <2>0, <3>3, <3>4, <4>1 DEF AgreeInv
    <3> QED BY <2>0, <2>2, <3>4 DEF AgreeInv
  <2> QED BY <2>1, <2>2
<1>5. CASE TheGate!Cancel
  <2>1. UNCHANGED <<policy, rules, results, counts, verdict>> /\ cancelled'
    BY <1>5 DEF TheGate!Cancel
  <2>2. TheGate!Blocks' <=> TheGate!Blocks
    BY <2>1 DEF TheGate!Blocks
  <2> QED BY <2>1, <2>2 DEF AgreeInv
<1> QED BY <1>1, <1>2, <1>3, <1>4, <1>5 DEF TheGate!Next

\* A step that is not the gate's keeps it.
LEMMA AgreeStays == AgreeInv /\ UNCHANGED ofGate => AgreeInv'
<1> SUFFICES ASSUME AgreeInv, UNCHANGED ofGate PROVE AgreeInv'
  OBVIOUS
<1>1. /\ UNCHANGED <<policy, rules, cancelled, results, verdict>>
      /\ TheGate!Blocks' <=> TheGate!Blocks
  BY DEF ofGate, TheGate!Blocks
<1> QED BY <1>1 DEF AgreeInv

\* A severity is 0, 1 or 2, and tells the three statuses of a check apart.
LEMMA SeverityFacts ==
  /\ TheGate!severity["PASS"] = 0
  /\ TheGate!severity["ANOMALY"] = 1
  /\ TheGate!severity["FAIL"] = 2
  BY DEF TheGate!severity

\* invariant.Verdict fails when a check fails, finds an anomaly when one does
\* and none fails, and passes otherwise.
LEMMA VerdictFacts ==
  ASSUME NEW N \in Nat, NEW cs \in [1..N -> {"PASS", "ANOMALY", "FAIL"}]
  PROVE  TheGate!Verdict(cs) = IF \E n \in 1..N : cs[n] = "FAIL" THEN "FAIL"
                               ELSE IF \E n \in 1..N : cs[n] = "ANOMALY" THEN "ANOMALY"
                               ELSE "PASS"
<1> DEFINE Sev(n) == TheGate!severity[cs[n]]
           Top(n) == \A m \in DOMAIN cs : Sev(m) <= Sev(n)
           c == CHOOSE n \in DOMAIN cs : Top(n)
<1>0. /\ DOMAIN cs = 1..N
      /\ \A n \in 1..N : /\ Sev(n) \in 0..2
                         /\ cs[n] = "PASS" <=> Sev(n) = 0
                         /\ cs[n] = "ANOMALY" <=> Sev(n) = 1
                         /\ cs[n] = "FAIL" <=> Sev(n) = 2
  BY SeverityFacts
<1>v. TheGate!Verdict(cs) = IF \E n \in DOMAIN cs : Sev(n) > 0 THEN cs[c] ELSE "PASS"
  BY DEF TheGate!Verdict
<1> HIDE DEF Sev
<1>1. CASE \E n \in 1..N : cs[n] = "FAIL"
  <2>1. PICK n \in 1..N : cs[n] = "FAIL"
    BY <1>1
  <2>2. Top(n) /\ Sev(n) = 2
    BY <1>0, <2>1
  <2>3. c \in 1..N /\ Top(c)
    BY <1>0, <2>2
  <2>4. Sev(c) = 2
    BY <1>0, <2>2, <2>3
  <2> QED BY <1>0, <1>1, <1>v, <2>2, <2>3, <2>4
<1>2. CASE ~(\E n \in 1..N : cs[n] = "FAIL") /\ \E n \in 1..N : cs[n] = "ANOMALY"
  <2>1. PICK n \in 1..N : cs[n] = "ANOMALY"
    BY <1>2
  <2>2. Top(n) /\ Sev(n) = 1
    BY <1>0, <1>2, <2>1
  <2>3. c \in 1..N /\ Top(c)
    BY <1>0, <2>2
  <2>4. Sev(c) = 1
    BY <1>0, <1>2, <2>2, <2>3
  <2> QED BY <1>0, <1>2, <1>v, <2>2, <2>3, <2>4
<1>3. CASE ~(\E n \in 1..N : cs[n] = "FAIL") /\ ~(\E n \in 1..N : cs[n] = "ANOMALY")
  BY <1>0, <1>3, <1>v
<1> QED BY <1>1, <1>2, <1>3

\* A counter that is above zero is about a line of the report.
LEMMA CountFacts ==
  ASSUME GateInv, NEW s \in TheGate!Statuses
  PROVE  counts[s] \in Nat /\ (counts[s] > 0 <=> \E n \in 1..Len(results) : results[n] = s)
<1>0. /\ results \in Seq(TheGate!Statuses) /\ Len(results) \in Nat
      /\ counts \in [TheGate!Statuses -> Nat] /\ DOMAIN results = 1..Len(results)
  BY GateTypes DEF GateInv
<1>1. IsFiniteSet(Hits(results, s))
  <2>1. IsFiniteSet(1..Len(results))
    BY <1>0, FS_Interval
  <2> QED BY <1>0, <2>1, FS_Subset DEF Hits
<1>2. counts[s] = Cardinality(Hits(results, s))
  BY DEF GateInv
<1>3. counts[s] \in Nat
  BY <1>0
<1>4. counts[s] = 0 <=> Hits(results, s) = {}
  BY <1>1, <1>2, FS_EmptySet
<1>5. counts[s] > 0 <=> counts[s] # 0
  BY <1>3
<1> QED BY <1>0, <1>3, <1>4, <1>5 DEF Hits

\* The two verdicts are about the same statuses.
LEMMA AgreeSafe == GateInv /\ AgreeInv => VerdictsAgree
<1> DEFINE cs == [n \in DOMAIN rules |-> rules[n].status]
           Agrees == verdict = "PASS" <=> \/ TheGate!Verdict(cs) = "PASS"
                                          \/ policy = "STANDARD" /\ TheGate!Verdict(cs) = "ANOMALY"
<1> SUFFICES ASSUME GateInv, AgreeInv, verdict # "none", policy \in {"STRICT", "STANDARD"},
                    ~cancelled, \A n \in DOMAIN rules : rules[n].from = "check"
             PROVE  Agrees
  BY DEF VerdictsAgree, TheGate!VerdictsAgree
<1>0. /\ Len(results) \in Nat /\ Len(rules) \in Nat /\ DOMAIN rules = 1..Len(rules)
      /\ checks \in Seq(Found) /\ Len(checks) = Len(rules)
  BY GateTypes DEF GateInv
<1>1. policy \in TheGate!Policies /\ Len(results) = Len(rules)
  <2>1. policy \in TheGate!Policies
    BY DEF TheGate!Policies
  <2> QED BY <2>1 DEF GateInv
<1>2. \A n \in 1..Len(rules) : /\ rules[n].status \in {"PASS", "ANOMALY", "FAIL"}
                               /\ results[n] = rules[n].status
  <2> SUFFICES ASSUME NEW n \in 1..Len(rules)
               PROVE  /\ rules[n].status \in {"PASS", "ANOMALY", "FAIL"}
                      /\ results[n] = rules[n].status
    OBVIOUS
  <2>1. rules[n].status = Worst(checks[n])
    BY <1>0 DEF GateInv, WrappedAsIs
  <2>2. rules[n].status \in {"PASS", "ANOMALY", "FAIL"}
    BY <2>1 DEF Worst
  <2>3. n <= Len(results)
    BY <1>0, <1>1
  <2>4. results[n] = TheGate!Recorded(rules[n].status)
    BY <2>3 DEF AgreeInv
  <2> QED BY <2>2, <2>4 DEF TheGate!Recorded, TheGate!Statuses
<1>3. cs \in [1..Len(rules) -> {"PASS", "ANOMALY", "FAIL"}]
  BY <1>0, <1>2
<1>c. \A n \in 1..Len(rules) : cs[n] = results[n]
  BY <1>0, <1>2
<1>4. TheGate!Verdict(cs) = IF \E n \in 1..Len(rules) : results[n] = "FAIL" THEN "FAIL"
                            ELSE IF \E n \in 1..Len(rules) : results[n] = "ANOMALY"
                                   THEN "ANOMALY" ELSE "PASS"
  <2>1. PICK v : v = cs
    OBVIOUS
  <2>2. v \in [1..Len(rules) -> {"PASS", "ANOMALY", "FAIL"}]
    BY <1>3, <2>1
  <2>3. \A n \in 1..Len(rules) : v[n] = results[n]
    BY <1>c, <2>1
  <2>4. TheGate!Verdict(v) = IF \E n \in 1..Len(rules) : v[n] = "FAIL" THEN "FAIL"
                             ELSE IF \E n \in 1..Len(rules) : v[n] = "ANOMALY"
                                    THEN "ANOMALY" ELSE "PASS"
    BY <1>0, <2>2, VerdictFacts
  <2>5. TheGate!Verdict(v) = TheGate!Verdict(cs)
    BY <2>1
  <2> HIDE DEF cs
  <2> QED BY <2>3, <2>4, <2>5
<1>5. /\ counts["FAIL"] \in Nat /\ counts["ANOMALY"] \in Nat
      /\ counts["FAIL"] > 0 <=> \E n \in 1..Len(rules) : results[n] = "FAIL"
      /\ counts["ANOMALY"] > 0 <=> \E n \in 1..Len(rules) : results[n] = "ANOMALY"
  BY <1>1, CountFacts DEF TheGate!Statuses
<1>6. verdict = "PASS" <=> ~TheGate!Blocks
  BY <1>1 DEF AgreeInv
<1>7. counts["FAIL"] + counts["ANOMALY"] > 0 <=> counts["FAIL"] > 0 \/ counts["ANOMALY"] > 0
  BY <1>5
<1> HIDE DEF cs
<1> QED BY <1>4, <1>5, <1>6, <1>7 DEF TheGate!Blocks

\* Gate and invariant.Verdict: for every list of builders a gate under a
\* blocking policy passes exactly when the suite verdict over the same checks
\* is one that the policy accepts.
THEOREM VerdictsAlwaysAgree == Spec => []VerdictsAgree
<1>1. Init => GateInv /\ AgreeInv
  BY GateInit, AgreeInit DEF Init
<1>2. GateInv /\ AgreeInv /\ [Next]_vars => GateInv' /\ AgreeInv'
  BY GateNext, GateStays, AgreeNext, AgreeStays DEF Next, vars
<1>3. GateInv /\ AgreeInv => VerdictsAgree
  BY AgreeSafe
<1> QED BY <1>1, <1>2, <1>3, PTL DEF Spec
-----------------------------------------------------------------------------
\* A write to the file: an entry, whole or torn.
Piece == [entry : 1..MaxEntries, whole : BOOLEAN]
\* What a file holds.
Held(f) == IF f = Missing THEN <<>> ELSE f

\* f and then g are the end of what was put.
Ends(f, g) ==
  \E k \in Nat : /\ k + Len(f) + Len(g) = Len(put)
                 /\ \A n \in 1..Len(f) : f[n].entry = put[k + n]
                 /\ \A n \in 1..Len(g) : g[n].entry = put[k + Len(f) + n]

\* x pieces are all that has to be kept.
Covers(x) == x >= MaxSize \/ x >= Len(put) - forfeit

\* What was put rises, and stays below the next entry.
Rising == /\ \A m, n \in 1..Len(put) : m < n => put[m] < put[n]
          /\ \A n \in 1..Len(put) : put[n] < next

\* The places inside rotate.
Rotating == {"remove", "rename", "create", "reopenLog", "reopenBackup"}

\* The log's TypeOK with its parts named.
LogTyped ==
  /\ log \in Seq(Piece) \cup {Missing} /\ bak \in Seq(Piece) \cup {Missing}
  /\ handle \in {"log", "bak", "closed"}
  /\ handle = "log" => log # Missing
  /\ handle = "bak" => bak # Missing
  /\ written \in Nat
  /\ at \in {"down", "ready", "write"} \cup Rotating
  /\ next \in 1..(MaxEntries + 1)
  /\ put \in Seq(1..MaxEntries)
  /\ acked \in SUBSET (1..MaxEntries)
  /\ shut \in BOOLEAN
  /\ forfeit \in 0..Len(put)
  /\ faults \in Nat /\ crashes \in Nat

\* FileWriter: what every step keeps. The backup and the log, one behind the
\* other, are always the end of what was written, and they are at least as much
\* as a file is allowed to be or all that was not given up; the handle, the
\* place in rotate and the count of bytes say which of the two files may be
\* missing.
LogInv ==
  /\ LogTyped
  /\ Ends(Held(bak), Held(log))
  /\ Rising
  /\ Covers(Len(Held(bak)) + Len(Held(log)))
  /\ at \notin {"down", "ready"} => next <= MaxEntries
  /\ at \in Rotating => written >= MaxSize /\ handle = "closed"
  /\ at \in {"create", "reopenBackup"} => log = Missing /\ bak # Missing
  /\ at = "rename" => bak = Missing
  /\ handle = "bak" => at = "ready" /\ written >= MaxSize
  /\ at \in {"ready", "write", "remove", "rename", "reopenLog"} =>
       \/ Len(Held(log)) >= written
       \/ Len(put) = forfeit /\ written >= MaxSize
  /\ at = "write" => written < MaxSize
  /\ at = "write" /\ handle = "closed" => shut
  /\ at = "ready" /\ ~shut /\ handle = "closed" => written >= MaxSize

\* It is the same formula, in this state and in the next.
LEMMA LogTypedIsTypeOK == (Log!TypeOK <=> LogTyped) /\ (Log!TypeOK' <=> LogTyped')
  BY DEF Log!TypeOK, LogTyped, Piece, Rotating


\* No file is a missing file.
LEMMA MissingIsNoFile == Missing \notin Seq(Piece)
  BY AdmissionAssumption DEF AdmissionAssumption, Piece

\* A file, missing or not, holds a sequence.
LEMMA HeldFacts ==
  ASSUME NEW f \in Seq(Piece) \cup {Missing}
  PROVE  Held(f) \in Seq(Piece) /\ Len(Held(f)) \in Nat /\ Held(Missing) = <<>>
  BY EmptyFacts DEF Held

\* rotate removes the backup: the log alone is still the end.
LEMMA EndsDrop ==
  ASSUME NEW f \in Seq(Piece), NEW g \in Seq(Piece), Ends(f, g), put \in Seq(1..MaxEntries)
  PROVE  Ends(<<>>, g)
<1>1. PICK k \in Nat : /\ k + Len(f) + Len(g) = Len(put)
                       /\ \A n \in 1..Len(g) : g[n].entry = put[k + Len(f) + n]
  BY DEF Ends
<1>2. PICK j \in Nat : j = k + Len(f)
  OBVIOUS
<1>3. Len(g) \in Nat /\ j + 0 + Len(g) = Len(put)
  BY <1>1, <1>2
<1>4. \A n \in 1..Len(g) : g[n].entry = put[j + 0 + n]
  BY <1>1, <1>2
<1>5. \A n \in 1..0 : <<>>[n].entry = put[j + n]
  OBVIOUS
<1> QED BY <1>3, <1>4, <1>5, EmptyFacts DEF Ends

\* rotate renames the log: it is still the end as a backup.
LEMMA EndsShift ==
  ASSUME NEW g \in Seq(Piece), Ends(<<>>, g), put \in Seq(1..MaxEntries)
  PROVE  Ends(g, <<>>)
<1>1. PICK k \in Nat : /\ k + 0 + Len(g) = Len(put)
                       /\ \A n \in 1..Len(g) : g[n].entry = put[k + 0 + n]
  BY EmptyFacts DEF Ends
<1>3. Len(g) \in Nat /\ k + Len(g) + 0 = Len(put)
  BY <1>1
<1>4. \A n \in 1..Len(g) : g[n].entry = put[k + n]
  BY <1>1
<1>5. \A n \in 1..0 : <<>>[n].entry = put[k + Len(g) + n]
  OBVIOUS
<1> QED BY <1>3, <1>4, <1>5, EmptyFacts DEF Ends

\* The place of one more piece.
LEMMA NextPlace ==
  ASSUME NEW k \in Nat, NEW f \in Nat, NEW g \in Nat, NEW p \in Nat, k + f + g = p
  PROVE  k + f + (g + 1) = p + 1
  OBVIOUS

\* A write extends the end.
LEMMA EndsGrow ==
  ASSUME NEW f \in Seq(Piece), NEW g \in Seq(Piece), NEW p \in Piece, Ends(f, g),
         put \in Seq(1..MaxEntries), put' = Append(put, p.entry)
  PROVE  Ends(f, Append(g, p))'
<1>1. PICK k \in Nat : /\ k + Len(f) + Len(g) = Len(put)
                       /\ \A n \in 1..Len(f) : f[n].entry = put[k + n]
                       /\ \A n \in 1..Len(g) : g[n].entry = put[k + Len(f) + n]
  BY DEF Ends
<1>2. p.entry \in 1..MaxEntries
  BY DEF Piece
<1>3. /\ Len(put') = Len(put) + 1 /\ put'[Len(put) + 1] = p.entry
      /\ \A n \in 1..Len(put) : put'[n] = put[n]
  BY <1>2, AppendProperties
<1>4. PICK h : h = Append(g, p)
  OBVIOUS
<1>5. Len(h) = Len(g) + 1 /\ h[Len(g) + 1] = p /\ \A n \in 1..Len(g) : h[n] = g[n]
  BY <1>4, AppendProperties
<1>6. Len(f) \in Nat /\ Len(g) \in Nat /\ Len(put) \in Nat
  OBVIOUS
<1>7. k + Len(f) + Len(h) = Len(put')
  BY <1>1, <1>3, <1>5, <1>6
<1>8. ASSUME NEW n \in 1..Len(f) PROVE f[n].entry = put'[k + n]
  <2>1. k + n \in 1..Len(put)
    BY <1>1, <1>6
  <2> QED BY <1>1, <1>3, <2>1
<1>9. ASSUME NEW n \in 1..Len(h) PROVE h[n].entry = put'[k + Len(f) + n]
  <2>1. CASE n = Len(g) + 1
    <3>1. k + Len(f) + n = Len(put) + 1
      <4>1. PICK x \in Nat, y \in Nat, z \in Nat : x = Len(f) /\ y = Len(g) /\ z = Len(put)
        BY <1>6
      <4>2. k + x + y = z /\ n = y + 1
        BY <1>1, <2>1, <4>1
      <4>3. k + x + n = z + 1
        BY <4>2, NextPlace
      <4> QED BY <4>1, <4>3
    <3> QED BY <1>3, <1>5, <2>1, <3>1
  <2>2. CASE n # Len(g) + 1
    <3>1. n \in 1..Len(g) /\ k + Len(f) + n \in 1..Len(put)
      BY <1>1, <1>5, <1>6, <2>2
    <3> QED BY <1>1, <1>3, <1>5, <3>1
  <2> QED BY <2>1, <2>2
<1>10. Ends(f, h)'
  BY <1>7, <1>8, <1>9 DEF Ends
<1> QED BY <1>4, <1>10

\* Nothing is put, so the ends are the same.
LEMMA EndsSame ==
  ASSUME put' = put, forfeit' = forfeit
  PROVE  (\A f, g : Ends(f, g)' <=> Ends(f, g)) /\ (\A x : Covers(x)' <=> Covers(x))
  BY DEF Ends, Covers

\* An entry is put: the next one, behind all others.
LEMMA RisingGrows ==
  ASSUME Rising, put \in Seq(1..MaxEntries), next \in 1..MaxEntries,
         put' = Append(put, next), next' = next + 1
  PROVE  Rising'
<1>1. /\ Len(put') = Len(put) + 1 /\ put'[Len(put) + 1] = next /\ Len(put) \in Nat
      /\ \A n \in 1..Len(put) : put'[n] = put[n] /\ put[n] \in 1..MaxEntries
  <2>1. \A n \in 1..Len(put) : put[n] \in 1..MaxEntries
    BY ElementOfSeq
  <2>2. /\ Len(put') = Len(put) + 1 /\ put'[Len(put) + 1] = next /\ Len(put) \in Nat
        /\ \A n \in 1..Len(put) : put'[n] = put[n]
    BY AppendProperties
  <2> QED BY <2>1, <2>2
<1>2. \A n \in 1..Len(put') : n = Len(put) + 1 \/ (n \in 1..Len(put) /\ n < Len(put) + 1)
  BY <1>1
<1>3. \A n \in 1..Len(put') : put'[n] \in Nat /\ put'[n] <= next
  BY <1>1, <1>2 DEF Rising
<1>4. ASSUME NEW m \in 1..Len(put'), NEW n \in 1..Len(put'), m < n PROVE put'[m] < put'[n]
  <2>1. m \in 1..Len(put)
    BY <1>1, <1>2, <1>4
  <2>2. CASE n = Len(put) + 1
    BY <1>1, <2>1, <2>2 DEF Rising
  <2>3. CASE n \in 1..Len(put)
    BY <1>1, <1>4, <2>1, <2>3 DEF Rising
  <2> QED BY <1>2, <2>2, <2>3
<1>5. \A n \in 1..Len(put') : put'[n] < next'
  BY <1>3
<1> QED BY <1>4, <1>5 DEF Rising

\* An entry that was not written leaves the order alone.
LEMMA RisingKept ==
  ASSUME Rising, put \in Seq(1..MaxEntries), next \in Nat, put' = put,
         next' = next \/ next' = next + 1
  PROVE  Rising'
<1>1. \A n \in 1..Len(put) : put[n] \in 1..MaxEntries
  BY ElementOfSeq
<1> QED BY <1>1 DEF Rising

\* A piece with the next entry reaches the log.
LEMMA PutGrows ==
  ASSUME LogInv, at = "write", handle = "log", NEW p \in Piece, p.entry = next, Log!Put(p),
         next' = next + 1, UNCHANGED forfeit
  PROVE  /\ log' \in Seq(Piece) /\ bak' = bak /\ put' \in Seq(1..MaxEntries)
         /\ Len(put') = Len(put) + 1 /\ Len(Held(log')) = Len(Held(log)) + 1
         /\ Ends(Held(bak), Held(log))' /\ Rising'
         /\ Covers(Len(Held(bak)) + Len(Held(log)))'
<1>1. /\ log \in Seq(Piece) /\ log # Missing /\ bak \in Seq(Piece) \cup {Missing}
      /\ put \in Seq(1..MaxEntries) /\ next \in 1..MaxEntries /\ Len(put) \in Nat
      /\ forfeit \in Nat
  BY AdmissionAssumption DEF AdmissionAssumption, LogInv, LogTyped
<1>2. log' = Append(log, p) /\ bak' = bak /\ put' = Append(put, next)
  BY DEF Log!Put
<1>3. log' \in Seq(Piece) /\ log' # Missing /\ Len(log') = Len(log) + 1
  BY <1>1, <1>2, AppendProperties, MissingIsNoFile
<1>4. put' \in Seq(1..MaxEntries) /\ Len(put') = Len(put) + 1
  BY <1>1, <1>2, AppendProperties
<1>5. Held(log) = log /\ Held(log') = Append(log, p) /\ Len(log) \in Nat
  BY <1>1, <1>2, <1>3 DEF Held
<1>6. PICK b, l : b = Held(bak) /\ l = log
  OBVIOUS
<1>7. /\ b \in Seq(Piece) /\ l \in Seq(Piece) /\ Ends(b, l) /\ Len(b) \in Nat
      /\ Len(l) \in Nat
  BY <1>1, <1>5, <1>6, HeldFacts DEF LogInv
<1>8. Ends(b, Append(l, p))'
  BY <1>1, <1>2, <1>7, EndsGrow
<1>9. Ends(Held(bak), Held(log))'
  BY <1>2, <1>5, <1>6, <1>8
<1>10. Rising'
  BY <1>1, <1>2, RisingGrows DEF LogInv
<1>11. Covers(Len(Held(bak)) + Len(Held(log)))'
  <2>1. Len(b) + Len(l) >= MaxSize \/ Len(b) + Len(l) >= Len(put) - forfeit
    BY <1>5, <1>6 DEF LogInv, Covers
  <2>2. Len(Held(bak')) = Len(b) /\ Len(Held(log')) = Len(l) + 1
    BY <1>2, <1>3, <1>5, <1>6
  <2>3. MaxSize \in Nat
    BY AdmissionAssumption DEF AdmissionAssumption
  <2> QED BY <1>1, <1>4, <1>7, <2>1, <2>2, <2>3 DEF Covers
<1> QED BY <1>2, <1>3, <1>4, <1>5, <1>9, <1>10, <1>11

\* Before NewFileWriter the log is in such a state.
LEMMA LogInit == Log!Init => LogInv
<1> SUFFICES ASSUME Log!Init PROVE LogInv
  OBVIOUS
<1>1. shut \in BOOLEAN
  BY Zenon DEF Log!Init
<1>2. /\ log = Missing /\ bak = Missing /\ handle = "closed" /\ written = 0
      /\ at = "down"
      /\ next = 1 /\ put = <<>> /\ acked = {} /\ forfeit = 0 /\ faults = 0
      /\ crashes = 0
  BY DEF Log!Init
<1>3. Held(log) = <<>> /\ Held(bak) = <<>> /\ Len(put) = 0 /\ put \in Seq(1..MaxEntries)
  BY <1>2, EmptyFacts DEF Held
<1>4. LogTyped
  BY <1>1, <1>2, <1>3, AdmissionAssumption DEF AdmissionAssumption, LogTyped
<1>5. Ends(<<>>, <<>>)
  <2>1. 0 + 0 + 0 = Len(put) /\ 0 \in Nat /\ 1..0 = {}
    BY <1>3
  <2> QED BY <2>1, EmptyFacts DEF Ends
<1>6. Rising
  BY <1>3 DEF Rising
<1>7. Covers(Len(<<>>) + Len(<<>>))
  BY <1>2, <1>3, EmptyFacts DEF Covers
<1> QED BY <1>2, <1>3, <1>4, <1>5, <1>6, <1>7 DEF LogInv, Rotating

\* NewFileWriter, Log, rotate with every step of it that can fail, Close and a
\* crash keep it.
LEMMA LogNext == LogInv /\ Log!Next => LogInv'
<1> SUFFICES ASSUME LogInv, Log!Next PROVE LogInv'
  OBVIOUS
<1>0. /\ log \in Seq(Piece) \cup {Missing} /\ bak \in Seq(Piece) \cup {Missing}
      /\ put \in Seq(1..MaxEntries) /\ Len(put) \in Nat /\ written \in Nat
      /\ next \in 1..(MaxEntries + 1) /\ next \in Nat /\ forfeit \in 0..Len(put)
      /\ faults \in Nat /\ crashes \in Nat
      /\ MaxSize \in Nat \ {0} /\ MaxEntries \in Nat
  BY AdmissionAssumption DEF AdmissionAssumption, LogInv, LogTyped
<1>a. /\ Held(log) \in Seq(Piece) /\ Held(bak) \in Seq(Piece) /\ Held(Missing) = <<>>
      /\ Len(Held(log)) \in Nat /\ Len(Held(bak)) \in Nat
  BY <1>0, HeldFacts
<1>b. Held(<<>>) = <<>> /\ <<>> \in Seq(Piece) /\ <<>> # Missing /\ Len(<<>>) = 0
  BY EmptyFacts, MissingIsNoFile DEF Held
<1>c. ASSUME Log!OpenLog
      PROVE  /\ log' \in Seq(Piece) /\ log' # Missing /\ Held(log') = Held(log)
             /\ handle' = "log"
  BY <1>0, <1>b, <1>c, MissingIsNoFile DEF Log!OpenLog, Held
<1>1. CASE Log!NewFileWriter
  <2>1. /\ log' \in Seq(Piece) /\ log' # Missing /\ Held(log') = Held(log)
        /\ handle' = "log"
    BY <1>1, <1>c DEF Log!NewFileWriter
  <2>2. /\ at' = "ready" /\ written' = Len(Held(log)) /\ at = "down"
        /\ UNCHANGED <<bak, next, put, acked, forfeit, faults, crashes>>
    BY <1>1, <1>b DEF Log!NewFileWriter, Log!Bytes, Held
  <2>3. shut' \in BOOLEAN
    BY <1>1, Zenon DEF Log!NewFileWriter
  <2>4. LogTyped'
    BY <1>a, <2>1, <2>2, <2>3 DEF LogInv, LogTyped
  <2>5. /\ Ends(Held(bak), Held(log))' /\ Covers(Len(Held(bak)) + Len(Held(log)))'
        /\ Rising'
    BY <1>0, <2>1, <2>2, EndsSame, RisingKept DEF LogInv
  <2>6. Len(Held(log')) >= written'
    BY <1>a, <2>1, <2>2
  <2> QED BY <2>1, <2>2, <2>4, <2>5, <2>6 DEF LogInv, Rotating
<1>2. CASE Log!Log
  <2>1. /\ at = "ready" /\ next <= MaxEntries
        /\ \/ written >= MaxSize /\ at' = "remove" /\ handle' = "closed"
           \/ ~(written >= MaxSize) /\ at' = "write" /\ handle' = handle
        /\ UNCHANGED <<log, bak, written, next, put, acked, shut, forfeit, faults, crashes>>
    BY <1>2 DEF Log!Log
  <2>2. LogTyped'
    BY <2>1 DEF LogInv, LogTyped, Rotating
  <2>3. /\ Ends(Held(bak), Held(log))' /\ Covers(Len(Held(bak)) + Len(Held(log)))'
        /\ Rising'
    BY <1>0, <2>1, EndsSame, RisingKept DEF LogInv
  <2>4. ~(written >= MaxSize) => written < MaxSize
    BY <1>0
  <2> QED BY <2>1, <2>2, <2>3, <2>4 DEF LogInv, Rotating
<1>3. CASE Log!RotateRemove
  <2>1. /\ at = "remove" /\ bak' = Missing /\ at' = "rename"
        /\ UNCHANGED <<log, handle, written, next, put, acked, shut, forfeit, faults, crashes>>
    BY <1>3 DEF Log!RotateRemove
  <2>2. LogTyped'
    BY <2>1 DEF LogInv, LogTyped, Rotating
  <2>3. Ends(<<>>, Held(log)) /\ Held(bak') = <<>> /\ Held(log') = Held(log)
    BY <1>0, <1>a, <2>1, EndsDrop DEF LogInv
  <2>4. Covers(0 + Len(Held(log)))
    <3>1. Len(Held(log)) >= written \/ Len(put) = forfeit
      BY <2>1 DEF LogInv
    <3>2. written >= MaxSize
      BY <2>1 DEF LogInv, Rotating
    <3> QED BY <1>0, <1>a, <3>1, <3>2 DEF Covers
  <2>5. /\ Ends(Held(bak), Held(log))' /\ Covers(Len(Held(bak)) + Len(Held(log)))'
        /\ Rising'
    BY <1>0, <1>b, <2>1, <2>3, <2>4, EndsSame, RisingKept DEF LogInv
  <2> QED BY <2>1, <2>2, <2>5 DEF LogInv, Rotating
<1>4. CASE Log!RotateRename
  <2>0. /\ at = "rename" /\ bak = Missing
        /\ UNCHANGED <<handle, written, next, put, acked, shut, forfeit, crashes>>
    BY <1>4 DEF Log!RotateRename, LogInv
  <2>1. CASE /\ log # Missing /\ bak' = log /\ log' = Missing /\ at' = "create"
             /\ UNCHANGED faults
    <3>1. LogTyped'
      BY <2>0, <2>1 DEF LogInv, LogTyped, Rotating
    <3>2. /\ Held(bak') = Held(log) /\ Held(log') = <<>> /\ Ends(<<>>, Held(log))
          /\ Covers(0 + Len(Held(log)))
      BY <1>a, <1>b, <2>0, <2>1 DEF LogInv
    <3>3. Ends(Held(log), <<>>)
      BY <1>0, <1>a, <3>2, EndsShift
    <3>4. Covers(Len(Held(log)) + 0)
      BY <1>a, <3>2
    <3>5. /\ Ends(Held(bak), Held(log))'
          /\ Covers(Len(Held(bak)) + Len(Held(log)))' /\ Rising'
      BY <1>0, <1>b, <2>0, <3>2, <3>3, <3>4, EndsSame, RisingKept DEF LogInv
    <3> QED BY <2>0, <2>1, <3>1, <3>5 DEF LogInv, Rotating
  <2>2. CASE at' = "reopenLog" /\ faults' \in Nat /\ UNCHANGED <<log, bak>>
    <3>1. LogTyped'
      BY <2>0, <2>2 DEF LogInv, LogTyped, Rotating
    <3>2. /\ Ends(Held(bak), Held(log))'
          /\ Covers(Len(Held(bak)) + Len(Held(log)))' /\ Rising'
      BY <1>0, <2>0, <2>2, EndsSame, RisingKept DEF LogInv
    <3> QED BY <2>0, <2>2, <3>1, <3>2 DEF LogInv, Rotating
  <2> QED BY <1>0, <1>4, <2>1, <2>2 DEF Log!RotateRename, Log!Fails
<1>5. CASE Log!ReopenLog
  <2>0. /\ at = "reopenLog" /\ at' = "ready" /\ next' = next + 1 /\ faults' \in Nat
        /\ UNCHANGED <<acked, bak, written, put, shut, forfeit, crashes>>
    BY <1>0, <1>5 DEF Log!ReopenLog, Log!Refuse, Log!Fails
  <2>1. /\ next <= MaxEntries /\ written >= MaxSize /\ handle = "closed"
        /\ (Len(Held(log)) >= written \/ (Len(put) = forfeit /\ written >= MaxSize))
    BY <2>0 DEF LogInv, Rotating
  <2>2. /\ log' \in Seq(Piece) \cup {Missing} /\ Held(log') = Held(log)
        /\ handle' \in {"log", "closed"} /\ (handle' = "log" => log' # Missing)
    BY <1>0, <1>5, <1>c, <2>1 DEF Log!ReopenLog
  <2>3. LogTyped'
    <3>1. next' \in 1..(MaxEntries + 1)
      BY <1>0, <2>0, <2>1
    <3> QED BY <2>0, <2>2, <3>1 DEF LogInv, LogTyped
  <2>4. /\ Ends(Held(bak), Held(log))' /\ Covers(Len(Held(bak)) + Len(Held(log)))'
        /\ Rising'
    BY <1>0, <2>0, <2>2, EndsSame, RisingKept DEF LogInv
  <2> QED BY <2>0, <2>1, <2>2, <2>3, <2>4 DEF LogInv, Rotating
<1>6. CASE Log!RotateCreate
  <2>0. /\ at = "create" /\ log = Missing /\ bak # Missing /\ Held(log) = <<>>
        /\ written >= MaxSize /\ handle = "closed"
        /\ UNCHANGED <<bak, next, put, acked, shut, forfeit, crashes>>
    BY <1>6, <1>a DEF Log!RotateCreate, LogInv, Rotating
  <2>1. CASE Log!OpenLog /\ written' = 0 /\ at' = "write" /\ UNCHANGED faults
    <3>1. /\ log' \in Seq(Piece) /\ log' # Missing /\ Held(log') = Held(log)
          /\ handle' = "log"
      BY <1>c, <2>1
    <3>2. LogTyped'
      BY <2>0, <2>1, <3>1 DEF LogInv, LogTyped
    <3>3. /\ Ends(Held(bak), Held(log))'
          /\ Covers(Len(Held(bak)) + Len(Held(log)))' /\ Rising'
      BY <1>0, <2>0, <3>1, EndsSame, RisingKept DEF LogInv
    <3>4. Len(Held(log')) >= written' /\ written' < MaxSize
      BY <1>0, <1>a, <2>1, <3>1
    <3> QED BY <2>0, <2>1, <3>1, <3>2, <3>3, <3>4 DEF LogInv, Rotating
  <2>2. CASE at' = "reopenBackup" /\ faults' \in Nat /\ UNCHANGED <<log, handle, written>>
    <3>1. LogTyped'
      BY <2>0, <2>2 DEF LogInv, LogTyped, Rotating
    <3>2. /\ Ends(Held(bak), Held(log))'
          /\ Covers(Len(Held(bak)) + Len(Held(log)))' /\ Rising'
      BY <1>0, <2>0, <2>2, EndsSame, RisingKept DEF LogInv
    <3> QED BY <2>0, <2>2, <3>1, <3>2 DEF LogInv, Rotating
  <2> QED BY <1>0, <1>6, <2>1, <2>2 DEF Log!RotateCreate, Log!Fails
<1>7. CASE Log!ReopenBackup
  <2>0. /\ at = "reopenBackup" /\ at' = "ready" /\ next' = next + 1 /\ faults' \in Nat
        /\ forfeit' = Len(put) /\ handle' \in {"bak", handle}
        /\ UNCHANGED <<acked, log, bak, written, put, shut, crashes>>
    BY <1>0, <1>7 DEF Log!ReopenBackup, Log!Refuse, Log!Fails
  <2>1. next <= MaxEntries /\ written >= MaxSize /\ handle = "closed" /\ bak # Missing
    BY <2>0 DEF LogInv, Rotating
  <2>2. LogTyped'
    <3>1. next' \in 1..(MaxEntries + 1) /\ forfeit' \in 0..Len(put')
      BY <1>0, <2>0, <2>1
    <3> QED BY <2>0, <2>1, <3>1 DEF LogInv, LogTyped
  <2>3. Ends(Held(bak), Held(log))'
    BY <2>0 DEF LogInv, Ends
  <2>4. Covers(Len(Held(bak)) + Len(Held(log)))'
    BY <1>0, <1>a, <2>0 DEF Covers
  <2>5. Rising'
    BY <1>0, <2>0, RisingKept DEF LogInv
  <2> QED BY <2>0, <2>1, <2>2, <2>3, <2>4, <2>5 DEF LogInv, Rotating
<1>8. CASE Log!Write
  <2>0. /\ at = "write" /\ next' = next + 1 /\ at' = "ready" /\ faults' \in Nat
        /\ UNCHANGED <<handle, shut, forfeit, crashes>>
        /\ next \in 1..MaxEntries /\ next' \in 1..(MaxEntries + 1) /\ handle # "bak"
        /\ written < MaxSize /\ Len(Held(log)) >= written
    <3>1. at = "write" /\ next' = next + 1 /\ at' = "ready" /\ faults' \in Nat
      BY <1>0, <1>8 DEF Log!Write, Log!Refuse, Log!Fails
    <3>2. next <= MaxEntries /\ handle # "bak" /\ written < MaxSize
      BY <3>1 DEF LogInv
    <3>3. Len(Held(log)) >= written
      BY <1>0, <3>1, <3>2 DEF LogInv
    <3> QED BY <1>0, <1>8, <3>1, <3>2, <3>3 DEF Log!Write
  <2>1. acked' \in SUBSET (1..MaxEntries)
    BY <1>8, <2>0 DEF Log!Write, Log!Refuse, LogInv, LogTyped
  <2>2. CASE handle = "log" /\ \E w \in BOOLEAN : Log!Put([entry |-> next, whole |-> w])
    <3>0. PICK w \in BOOLEAN : Log!Put([entry |-> next, whole |-> w])
      BY <2>2
    <3>1. PICK p : p = [entry |-> next, whole |-> w]
      OBVIOUS
    <3>2. p \in Piece /\ p.entry = next /\ Log!Put(p)
      BY <2>0, <3>0, <3>1 DEF Piece
    <3>3. /\ log' \in Seq(Piece) /\ bak' = bak /\ put' \in Seq(1..MaxEntries)
          /\ Len(put') = Len(put) + 1 /\ Len(Held(log')) = Len(Held(log)) + 1
          /\ Ends(Held(bak), Held(log))' /\ Rising'
          /\ Covers(Len(Held(bak)) + Len(Held(log)))'
      BY <2>0, <2>2, <3>2, PutGrows
    <3>4. written' \in {written, written + 1}
      BY <1>8 DEF Log!Write
    <3>5. log' # Missing /\ forfeit' \in 0..Len(put') /\ written' \in Nat
          /\ Len(Held(log')) >= written'
      <4>1. log' # Missing
        BY <3>3, MissingIsNoFile
      <4>2. forfeit' \in 0..Len(put')
        BY <1>0, <2>0, <3>3
      <4>3. PICK x \in Nat, y \in Nat : x = Len(Held(log)) /\ y = written
        BY <1>0, <1>a
      <4>4. x >= y /\ x + 1 >= y /\ x + 1 >= y + 1
        BY <2>0, <4>3
      <4> QED BY <1>0, <3>3, <3>4, <4>1, <4>2, <4>3, <4>4
    <3>6. LogTyped'
      BY <1>0, <2>0, <2>1, <2>2, <3>3, <3>5 DEF LogInv, LogTyped
    <3> QED BY <2>0, <2>2, <3>3, <3>5, <3>6 DEF LogInv, Rotating
  <2>3. CASE UNCHANGED <<log, bak, put, written>>
    <3>1. LogTyped'
      BY <2>0, <2>1, <2>3 DEF LogInv, LogTyped
    <3>2. /\ Ends(Held(bak), Held(log))'
          /\ Covers(Len(Held(bak)) + Len(Held(log)))' /\ Rising'
      BY <1>0, <2>0, <2>3, EndsSame, RisingKept DEF LogInv
    <3>3. handle = "closed" => shut
      BY <2>0 DEF LogInv
    <3> QED BY <2>0, <2>3, <3>1, <3>2, <3>3 DEF LogInv, Rotating
  <2>4. handle # "closed" => handle = "log"
    BY <2>0 DEF LogInv, LogTyped
  <2>5. TRUE \in BOOLEAN /\ FALSE \in BOOLEAN
    OBVIOUS
  <2> QED BY <1>8, <2>2, <2>3, <2>4, <2>5, Zenon DEF Log!Write, Log!Whole, Log!Torn
<1>9. CASE Log!Close
  <2>1. /\ at = "ready" /\ at' = at /\ handle' = "closed"
        /\ UNCHANGED <<log, bak, written, next, put, acked, forfeit, faults, crashes>>
    BY <1>9 DEF Log!Close
  <2>2. shut' = TRUE /\ shut' \in BOOLEAN
    BY <1>9, Zenon DEF Log!Close
  <2>3. LogTyped'
    BY <2>1, <2>2 DEF LogInv, LogTyped
  <2>4. /\ Ends(Held(bak), Held(log))' /\ Covers(Len(Held(bak)) + Len(Held(log)))'
        /\ Rising'
    BY <1>0, <2>1, EndsSame, RisingKept DEF LogInv
  <2> QED BY <2>1, <2>2, <2>3, <2>4 DEF LogInv, Rotating
<1>10. CASE Log!Crash
  <2>0. /\ at # "down" /\ at' = "down" /\ handle' = "closed" /\ crashes' \in Nat
        /\ next' = IF at = "ready" THEN next ELSE next + 1
        /\ UNCHANGED <<written, acked, shut, forfeit, faults>>
    BY <1>0, <1>10 DEF Log!Crash
  <2>1. next' \in 1..(MaxEntries + 1) /\ (next' = next \/ next' = next + 1)
    BY <1>0, <2>0 DEF LogInv
  <2>2. CASE at = "write" /\ handle # "closed" /\ Log!Put(Log!Torn(next))
    <3>1. PICK p : p = [entry |-> next, whole |-> FALSE]
      OBVIOUS
    <3>2. handle = "log" /\ next \in 1..MaxEntries /\ next' = next + 1
      BY <1>0, <2>0, <2>2 DEF LogInv, LogTyped
    <3>3. p \in Piece /\ p.entry = next /\ Log!Put(p)
      BY <2>2, <3>1, <3>2 DEF Piece, Log!Torn
    <3>4. /\ log' \in Seq(Piece) /\ bak' = bak /\ put' \in Seq(1..MaxEntries)
          /\ Len(put') = Len(put) + 1
          /\ Ends(Held(bak), Held(log))' /\ Rising'
          /\ Covers(Len(Held(bak)) + Len(Held(log)))'
      BY <2>0, <2>2, <3>2, <3>3, PutGrows
    <3>5. forfeit' \in 0..Len(put')
      BY <1>0, <2>0, <3>4
    <3>6. LogTyped'
      BY <2>0, <2>1, <3>4, <3>5 DEF LogInv, LogTyped
    <3> QED BY <2>0, <3>4, <3>6 DEF LogInv, Rotating
  <2>3. CASE UNCHANGED <<log, bak, put>>
    <3>1. LogTyped'
      BY <2>0, <2>1, <2>3 DEF LogInv, LogTyped
    <3>2. /\ Ends(Held(bak), Held(log))'
          /\ Covers(Len(Held(bak)) + Len(Held(log)))' /\ Rising'
      BY <1>0, <2>0, <2>1, <2>3, EndsSame, RisingKept DEF LogInv
    <3> QED BY <2>0, <3>1, <3>2 DEF LogInv, Rotating
  <2> QED BY <1>10, <2>2, <2>3 DEF Log!Crash
<1> QED BY <1>1, <1>2, <1>3, <1>4, <1>5, <1>6, <1>7, <1>8, <1>9, <1>10 DEF Log!Next

\* It is what the run asks of the log.
LEMMA LogSafe == LogInv => LogSound
<1> SUFFICES ASSUME LogInv PROVE LogSound
  OBVIOUS
<1>0. /\ log \in Seq(Piece) \cup {Missing} /\ bak \in Seq(Piece) \cup {Missing}
      /\ put \in Seq(1..MaxEntries) /\ Len(put) \in Nat /\ DOMAIN put = 1..Len(put)
      /\ forfeit \in Nat /\ MaxSize \in Nat
  BY AdmissionAssumption DEF AdmissionAssumption, LogInv, LogTyped
<1>1. PICK b \in Seq(Piece), l \in Seq(Piece) : b = Held(bak) /\ l = Held(log)
  BY <1>0, HeldFacts
<1>2. /\ Len(b) \in Nat /\ DOMAIN b = 1..Len(b) /\ Len(l) \in Nat
      /\ DOMAIN l = 1..Len(l)
  BY LenProperties
<1>3. PICK k \in Nat : /\ k + Len(b) + Len(l) = Len(put)
                       /\ \A n \in 1..Len(b) : b[n].entry = put[k + n]
                       /\ \A n \in 1..Len(l) : l[n].entry = put[k + Len(b) + n]
  BY <1>1 DEF LogInv, Ends
<1>4. Log!InOrder
  <2>1. PICK all : all = b \o l
    OBVIOUS
  <2>2. /\ DOMAIN all = 1..(Len(b) + Len(l))
        /\ \A n \in 1..Len(b) : all[n] = b[n]
        /\ \A n \in (Len(b) + 1)..(Len(b) + Len(l)) : all[n] = l[n - Len(b)]
    BY <1>2, <2>1, ConcatProperties
  <2>3. ASSUME NEW n \in DOMAIN all PROVE all[n].entry = put[k + n] /\ k + n \in 1..Len(put)
    <3>1. PICK x \in Nat, y \in Nat, z \in Nat : x = Len(b) /\ y = Len(l) /\ z = Len(put)
      BY <1>0, <1>2
    <3>2. k + x + y = z /\ n \in 1..(x + y)
      BY <1>3, <2>2, <2>3, <3>1
    <3>3. k + n \in 1..z
      BY <3>2
    <3>4. CASE n <= x
      <4>1. n \in 1..Len(b)
        BY <3>1, <3>2, <3>4
      <4> QED BY <1>3, <2>2, <3>1, <3>3, <4>1
    <3>5. CASE ~(n <= x)
      <4>1. n \in (x + 1)..(x + y) /\ n - x \in 1..y /\ k + x + (n - x) = k + n
        BY <3>2, <3>5
      <4> QED BY <1>3, <2>2, <3>1, <3>3, <4>1
    <3> QED BY <3>4, <3>5
  <2>4. ASSUME NEW m \in DOMAIN all, NEW n \in DOMAIN all, m < n
        PROVE  all[m].entry < all[n].entry
    <3>1. k + m < k + n
      BY <2>2, <2>4
    <3> QED BY <2>3, <3>1 DEF LogInv, Rising
  <2>5. \A m, n \in DOMAIN (Held(bak) \o Held(log)) : m < n =>
           (Held(bak) \o Held(log))[m].entry < (Held(bak) \o Held(log))[n].entry
    BY <1>1, <2>1, <2>4
  <2> QED BY <2>5 DEF Log!InOrder, Held
<1>5. Log!RecentKept
  <2> SUFFICES ASSUME NEW m \in DOMAIN put, m > forfeit, m > Len(put) - MaxSize
      PROVE  put[m] \in Log!Entries(log) \cup Log!Entries(bak)
    BY DEF Log!RecentKept, Log!Recent
  <2>1. PICK x \in Nat, y \in Nat, z \in Nat : x = Len(b) /\ y = Len(l) /\ z = Len(put)
    BY <1>0, <1>2
  <2>2. k + x + y = z /\ m \in 1..z /\ (x + y >= MaxSize \/ x + y >= z - forfeit)
    BY <1>0, <1>1, <1>3, <2>1 DEF LogInv, Covers
  <2>3. m > k /\ m - k \in 1..(x + y)
    BY <1>0, <2>1, <2>2
  <2>4. CASE m - k <= x
    <3>1. m - k \in 1..Len(b) /\ k + (m - k) = m
      BY <2>1, <2>2, <2>3, <2>4
    <3>2. put[m] = b[m - k].entry /\ m - k \in DOMAIN b
      BY <1>2, <1>3, <3>1
    <3>3. bak # Missing /\ b = bak
      BY <1>1, <3>1, EmptyFacts DEF Held
    <3> QED BY <3>2, <3>3 DEF Log!Entries
  <2>5. CASE ~(m - k <= x)
    <3>1. m - k - x \in 1..Len(l) /\ k + x + (m - k - x) = m
      <4>1. m - k - x \in 1..y
        BY <2>2, <2>3, <2>5
      <4>2. k + x + (m - k - x) = m
        BY <2>2
      <4> QED BY <2>1, <4>1, <4>2
    <3>2. put[m] = l[m - k - x].entry /\ m - k - x \in DOMAIN l
      BY <1>2, <1>3, <2>1, <3>1
    <3>3. log # Missing /\ l = log
      BY <1>1, <3>1, EmptyFacts DEF Held
    <3> QED BY <3>2, <3>3 DEF Log!Entries
  <2> QED BY <2>4, <2>5
<1>6. Log!SelfHeals
  BY DEF LogInv, Log!SelfHeals
<1>7. Log!TypeOK
  BY LogTypedIsTypeOK DEF LogInv
<1> QED BY <1>4, <1>5, <1>6, <1>7 DEF LogSound, Log!Sound

\* A step that is not the log's keeps it.
LEMMA LogStays == LogInv /\ UNCHANGED ofLog => LogInv'
<1> SUFFICES ASSUME LogInv, UNCHANGED ofLog PROVE LogInv'
  OBVIOUS
<1>1. UNCHANGED <<log, bak, handle, written, at, next, put, acked, shut, forfeit, faults, crashes>>
  BY DEF ofLog
<1>2. /\ (\A f, g : Ends(f, g)' <=> Ends(f, g)) /\ (\A x : Covers(x)' <=> Covers(x))
      /\ (Rising' <=> Rising) /\ (LogTyped' <=> LogTyped)
  BY <1>1, EndsSame DEF Rising, LogTyped
<1> QED BY <1>1, <1>2 DEF LogInv

\* FileWriter: for every number of entries, faults and crashes, what the two
\* files hold is the latest of what was written, in order, and nothing is lost
\* but what a rotation gives up.
THEOREM LogIsSound == Spec => []LogSound
<1>1. Init => LogInv
  BY LogInit DEF Init
<1>2. LogInv /\ [Next]_vars => LogInv'
  BY LogNext, LogStays DEF Next, vars
<1>3. LogInv => LogSound
  BY LogSafe
<1> QED BY <1>1, <1>2, <1>3, PTL DEF Spec
=============================================================================
