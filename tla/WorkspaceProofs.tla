--------------------------- MODULE WorkspaceProofs ---------------------------
(***************************************************************************)
(* What MCWorkspace.tla asks of the members, the listings and the files of *)
(* a Shared Drive and of the Pulumi runner, proved of their composition    *)
(* for every value of the constants.  In each part an inductive invariant  *)
(* is shown to hold initially, to be kept by the part's own steps and by   *)
(* everybody else's, and to imply the property.                            *)
(***************************************************************************)
EXTENDS MCWorkspace, TLAPS, SequenceTheorems

\* The roles that RoleRank knows.
Roles == {"reader", "commenter", "writer", "fileOrganizer", "organizer"}

\* A permission, and a caller's record.
Permission == [id : Nat, email : Members!Spellings, role : Roles]
Calling == [pc : {"idle", "list", "update", "create", "returned", "failed"},
            email : {"", "ann", "bob"}, role : AskRoles \cup {""}, dry : BOOLEAN,
            after : Nat, seen : SUBSET Permission, target : Nat,
            did : {"", "CREATED", "UPGRADED", "UNCHANGED"}, applied : BOOLEAN, raced : BOOLEAN]

\* The rank of a role.
Rank(role) == Members!RoleRank(role)

\* What a call has done and reports.
Reports(r) ==
  /\ r.pc \in {"update", "create"} => ~r.dry
  /\ r.pc = "list" => ~r.applied
  /\ r.dry \/ r.did = "UNCHANGED" => ~r.applied
  /\ r.pc = "update" => r.did = "UPGRADED"
  /\ r.pc = "create" => r.did = "CREATED"
  /\ r.pc \in {"update", "create", "returned"} => r.did = Members!Intended(r.seen, r.email, r.role)

\* How the drive stands to what a call has seen, while nobody overtakes it.
Agrees(r) ==
  /\ r.pc = "list" => r.seen = {p \in perms : p.id <= r.after}
  /\ r.pc \in {"update", "create"} => perms = r.seen
  /\ r.pc = "update" => \E p \in Members!Of(perms, r.email) :
                          p.id = r.target /\ Rank(p.role) < Rank(r.role)
  /\ r.pc = "returned" /\ ~r.dry => /\ Members!Holds(perms, r.email, r.role)
                                    /\ Members!Changed(r.seen, perms, r)
  /\ r.pc = "returned" /\ r.dry => perms = r.seen

\* What is known of a call.
Fits(r) ==
  /\ \A p \in r.seen : p.id \in 1..made
  /\ r.pc \in {"list", "update", "create", "returned"} => r.email = "ann" /\ r.role \in Roles
  /\ Reports(r)
  /\ ~r.raced => Agrees(r)

\* EnsureDriveMembership: what every step keeps. While nobody overtakes a call,
\* what it has seen is the beginning of the drive's permissions, all of them
\* until its own change is applied, and the one that it is about to update is
\* there, is the member's and is lower than what is asked for.
MembersInv ==
  /\ made \in 0..MaxPerms /\ calls \in 0..MaxCalls
  /\ perms \subseteq Permission /\ \A p \in perms : p.id \in 1..made
  /\ \A p, q \in perms : p.id = q.id => p = q
  /\ call \in [Callers -> Calling]
  /\ \A c \in Callers : Fits(call[c])

\* Exactly the known roles have a rank.
LEMMA RankOf ==
  /\ \A role \in Roles : Rank(role) \in Nat \ {0}
  /\ \A role : role \notin Roles => Rank(role) = 0
  /\ DOMAIN Members!Ranks = Roles
<1>1. DOMAIN Members!Ranks = Roles
  BY DEF Members!Ranks, Roles
<1>2. /\ Members!Ranks["reader"] = 10 /\ Members!Ranks["commenter"] = 20
      /\ Members!Ranks["writer"] = 30 /\ Members!Ranks["fileOrganizer"] = 40
      /\ Members!Ranks["organizer"] = 50
  BY DEF Members!Ranks
<1>3. \A role \in Roles : Members!Ranks[role] \in Nat \ {0}
  BY <1>2 DEF Roles
<1> QED
  BY <1>1, <1>3 DEF Rank, Members!RoleRank

\* It holds at first.
LEMMA MembersInit == Members!Init => MembersInv
<1> SUFFICES ASSUME Members!Init PROVE MembersInv
  OBVIOUS
<1>1. PICK no \in BOOLEAN : ~no
  OBVIOUS
<1>2. Members!Idle = [pc |-> "idle", email |-> "", role |-> "", dry |-> no,
                      after |-> 0, seen |-> {}, target |-> 0, did |-> "",
                      applied |-> no, raced |-> no]
  BY <1>1 DEF Members!Idle
<1>3. /\ Members!Idle \in Calling /\ Members!Idle.pc = "idle" /\ Members!Idle.seen = {}
      /\ ~Members!Idle.applied
  BY <1>1, <1>2 DEF Calling
<1>4. call \in [Callers -> Calling] /\ \A c \in Callers : Fits(call[c])
  BY <1>3 DEF Members!Init, Fits, Reports, Agrees
<1>5. /\ perms \subseteq Permission /\ \A p \in perms : p.id \in 1..made
      /\ \A p, q \in perms : p.id = q.id => p = q
  <2>1. PICK role \in {"reader", "writer"}, who \in {"Ann", "bob"} :
          perms = {[id |-> 1, email |-> "bob", role |-> "writer"],
                   [id |-> 2, email |-> who, role |-> role]}
    BY DEF Members!Init
  <2> QED
    <3>1. PICK a, b : a = [id |-> 1, email |-> "bob", role |-> "writer"]
                      /\ b = [id |-> 2, email |-> who, role |-> role]
      OBVIOUS
    <3>2. a \in Permission /\ b \in Permission /\ a.id = 1 /\ b.id = 2
      BY <3>1 DEF Permission, Members!Spellings, Roles
    <3>3. perms = {a, b} /\ made = 2
      BY <2>1, <3>1 DEF Members!Init
    <3> QED
      BY <3>2, <3>3
<1> QED
  BY <1>4, <1>5, WorkspaceAssumption
    DEF WorkspaceAssumption, Members!Init, MembersInv

\* Caller c goes on as r and the drive stays as it is.
LEMMA CallMoves ==
  ASSUME MembersInv, NEW c \in Callers, NEW r \in Calling, Fits(r),
         call' = [call EXCEPT ![c] = r], UNCHANGED <<perms, made>>, calls' \in 0..MaxCalls
  PROVE  MembersInv'
<1>1. /\ call' \in [Callers -> Calling]
      /\ \A d \in Callers : call'[d] = IF d = c THEN r ELSE call[d]
  BY DEF MembersInv
<1>2. \A d \in Callers : Fits(call'[d])
  BY <1>1 DEF MembersInv
<1>3. \A d \in Callers : Fits(call[d])'
  BY <1>2 DEF Fits, Agrees, Reports
<1> QED
  BY <1>1, <1>3 DEF MembersInv

\* A failed call is a call whatever it found.
LEMMA CallFails ==
  ASSUME MembersInv, NEW c \in Callers, call' = [call EXCEPT ![c].pc = "failed"],
         UNCHANGED <<perms, made, calls>>
  PROVE  MembersInv'
<1>1. PICK r : r = [call[c] EXCEPT !.pc = "failed"]
  OBVIOUS
<1>2. /\ call[c] \in Calling /\ Fits(call[c]) /\ call \in [Callers -> Calling]
      /\ calls \in 0..MaxCalls
  BY DEF MembersInv
<1>3. /\ r \in Calling /\ r.pc = "failed" /\ r.seen = call[c].seen
      /\ r.dry = call[c].dry /\ r.did = call[c].did /\ r.applied = call[c].applied
      /\ call' = [call EXCEPT ![c] = r]
  BY <1>1, <1>2 DEF Calling
<1>4. Fits(r)
  BY <1>2, <1>3 DEF Fits, Reports, Agrees
<1> QED
  BY <1>2, <1>3, <1>4, CallMoves

\* A call that another overtakes.
LEMMA Overtaken ==
  ASSUME MembersInv, NEW r \in Calling, Fits(r), made' \in Nat, made <= made',
         NEW s, s = [r EXCEPT !.raced = r.raced \/ r.pc # "idle"]
  PROVE  s \in Calling /\ Fits(s)' /\ s.pc = r.pc
<1>1. PICK b \in BOOLEAN : b <=> r.raced \/ r.pc # "idle"
  OBVIOUS
<1>2. s = [r EXCEPT !.raced = b]
  BY <1>1 DEF Calling
<1>3. /\ s \in Calling /\ s.pc = r.pc /\ s.raced = b /\ s.seen = r.seen /\ s.dry = r.dry
      /\ s.email = r.email /\ s.role = r.role /\ s.did = r.did /\ s.applied = r.applied
  BY <1>2 DEF Calling
<1>4. \A p \in s.seen : p.id \in 1..made'
  BY <1>3 DEF Fits, MembersInv
<1>5. ~s.raced => s.pc = "idle"
  BY <1>1, <1>3
<1>6. Reports(s)
  BY <1>3 DEF Fits, Reports
<1> QED
  BY <1>3, <1>4, <1>5, <1>6 DEF Fits, Reports, Agrees

\* The drive changes under everybody but caller c, who goes on as r.
LEMMA DriveChanges ==
  ASSUME MembersInv, NEW c \in Callers, NEW r \in Calling, Fits(r)',
         Members!Becomes(perms', c, r), made' \in 0..MaxPerms, made <= made', calls' = calls,
         perms' \subseteq Permission, \A p \in perms' : p.id \in 1..made',
         \A p, q \in perms' : p.id = q.id => p = q
  PROVE  MembersInv'
<1>1. call' = [d \in Callers |-> IF d = c THEN r
                                 ELSE [call[d] EXCEPT !.raced = call[d].raced \/ call[d].pc # "idle"]]
  BY DEF Members!Becomes
<1>2. ASSUME NEW d \in Callers PROVE call'[d] \in Calling /\ Fits(call[d])'
  <2>1. PICK s : s = call'[d]
    OBVIOUS
  <2>2. s \in Calling /\ Fits(s)'
    <3>1. CASE d = c
      BY <1>1, <2>1, <3>1
    <3>2. CASE d # c
      <4>1. s = [call[d] EXCEPT !.raced = call[d].raced \/ call[d].pc # "idle"]
        BY <1>1, <2>1, <3>2
      <4>2. PICK o \in Calling : o = call[d] /\ Fits(o)
        BY DEF MembersInv
      <4>3. s = [o EXCEPT !.raced = o.raced \/ o.pc # "idle"] /\ made' \in Nat
        BY <4>1, <4>2
      <4> QED
        BY <4>2, <4>3, Overtaken
    <3> QED
      BY <3>1, <3>2
  <2> QED
    BY <2>1, <2>2 DEF Fits, Reports, Agrees
<1>3. call' \in [Callers -> Calling]
  <2>1. call' = [d \in Callers |-> call'[d]]
    BY <1>1
  <2> QED
    BY <1>2, <2>1
<1> QED
  BY <1>2, <1>3 DEF MembersInv

\* The argument checks of EnsureDriveMembership keep it.
LEMMA MembersBegin ==
  ASSUME MembersInv, NEW c \in Callers, NEW s \in Members!Spellings \ {"bob"}, NEW role \in AskRoles,
         NEW dry \in BOOLEAN, Members!EnsureDriveMembership(c, s, role, dry)
  PROVE  MembersInv'
<1>1. PICK no \in BOOLEAN : ~no
  OBVIOUS
<1>2. PICK m, x : /\ m = Members!Trimmed(s)
                  /\ x = IF m = "" \/ Rank(role) = 0 THEN "failed" ELSE "list"
  OBVIOUS
<1>3. m \in {"", "ann"} /\ x \in {"failed", "list"}
      /\ (x = "list" => m = "ann" /\ role \in Roles)
  BY <1>2, RankOf DEF Members!Trimmed, Members!Spellings
<1>4. PICK i : i = Members!Idle
  OBVIOUS
<1>5. PICK r : r = [i EXCEPT !.email = m, !.role = role, !.dry = dry, !.pc = x]
  OBVIOUS
<1>6. i \in Calling /\ i.after = 0 /\ i.seen = {} /\ ~i.applied /\ i.did = ""
  <2>1. i = [pc |-> "idle", email |-> "", role |-> "", dry |-> no,
             after |-> 0, seen |-> {}, target |-> 0, did |-> "",
                      applied |-> no, raced |-> no]
    BY <1>1, <1>4 DEF Members!Idle
  <2> QED
    BY <1>1, <2>1 DEF Calling
<1>7. /\ r \in Calling /\ r.pc = x /\ r.email = m /\ r.role = role /\ r.after = 0
       /\ r.seen = {} /\ ~r.applied /\ r.did = ""
  <2>1. m \in {"", "ann", "bob"} /\ role \in AskRoles \cup {""}
        /\ x \in {"idle", "list", "update", "create", "returned", "failed"}
    BY <1>3
  <2> QED
    BY <1>5, <1>6, <2>1 DEF Calling
<1>8. call' = [call EXCEPT ![c] = r]
  BY <1>2, <1>4, <1>5 DEF Members!EnsureDriveMembership, Rank
<1>9. {p \in perms : p.id <= 0} = {}
  BY DEF MembersInv
<1>10. Fits(r)
  BY <1>3, <1>7, <1>9 DEF Fits, Reports, Agrees
<1>11. UNCHANGED <<perms, made>> /\ calls' \in 0..MaxCalls
  BY WorkspaceAssumption
    DEF WorkspaceAssumption, Members!EnsureDriveMembership, MembersInv
<1> QED
  BY <1>7, <1>8, <1>10, <1>11, CallMoves

\* The listing is complete.
LEMMA Decided ==
  ASSUME MembersInv, NEW r0 \in Calling, r0.pc = "list", r0.email = "ann", r0.role \in Roles,
         ~r0.applied, \A p \in r0.seen : p.id \in 1..made,
         ~r0.raced => r0.seen = perms, NEW r \in Members!Decide(r0)
  PROVE  r \in Calling /\ Fits(r)
<1>0. /\ r0.email = "ann" /\ r0.role \in Roles /\ ~r0.applied
      /\ \A p \in r0.seen : p.id \in 1..made /\ p \in Permission
  BY DEF Calling
<1>1. PICK mine : mine = Members!Of(r0.seen, r0.email)
  OBVIOUS
<1>2. mine \subseteq r0.seen /\ (~r0.raced => mine = Members!Of(perms, r0.email))
  BY <1>1 DEF Members!Of
<1>3. CASE mine = {}
  <2>1. PICK x : x = IF r0.dry THEN "returned" ELSE "create"
    OBVIOUS
  <2>2. r = [r0 EXCEPT !.did = "CREATED", !.pc = x] /\ x \in {"returned", "create"}
        /\ (x = "returned" => r0.dry) /\ (x = "create" => ~r0.dry)
    BY <1>1, <1>3, <2>1 DEF Members!Decide
  <2>3. /\ r \in Calling /\ r.pc = x /\ r.email = r0.email /\ r.role = r0.role
        /\ r.dry = r0.dry /\ r.did = "CREATED" /\ r.applied = r0.applied
        /\ r.seen = r0.seen /\ r.raced = r0.raced
    BY <1>0, <2>2 DEF Calling
  <2>4. Members!Intended(r.seen, r.email, r.role) = "CREATED"
    <3>1. Members!Of(r.seen, r.email) = {} /\ ~Members!Holds(r.seen, r.email, r.role)
      BY <1>1, <1>3, <2>3 DEF Members!Holds
    <3> QED
      BY <3>1 DEF Members!Intended
  <2>5. Reports(r)
    BY <1>0, <2>2, <2>3, <2>4 DEF Reports
  <2>6. ~r.raced => Agrees(r)
    BY <2>2, <2>3 DEF Agrees
  <2> QED
    BY <1>0, <2>3, <2>5, <2>6 DEF Fits
<1>4. CASE mine # {}
  <2>1. PICK p \in mine : /\ Members!Current(mine, p)
                         /\ r = [r0 EXCEPT !.target = p.id,
                 !.did = IF Rank(p.role) >= Rank(r0.role) THEN "UNCHANGED" ELSE "UPGRADED",
                 !.pc = IF Rank(p.role) >= Rank(r0.role) THEN "returned"
                        ELSE IF r0.dry THEN "returned" ELSE "update"]
    BY <1>1, <1>4 DEF Members!Decide, Rank
  <2>2. PICK x, y : /\ x = IF Rank(p.role) >= Rank(r0.role) THEN "returned"
                           ELSE IF r0.dry THEN "returned" ELSE "update"
                    /\ y = IF Rank(p.role) >= Rank(r0.role) THEN "UNCHANGED" ELSE "UPGRADED"
    OBVIOUS
  <2>3. /\ x \in {"returned", "update"} /\ y \in {"UNCHANGED", "UPGRADED"}
        /\ x = "update" => ~r0.dry /\ ~(Rank(p.role) >= Rank(r0.role))
        /\ x = "returned" /\ ~r0.dry => Rank(p.role) >= Rank(r0.role)
        /\ y = "UNCHANGED" <=> Rank(p.role) >= Rank(r0.role)
        /\ r = [r0 EXCEPT !.target = p.id, !.did = y, !.pc = x]
    BY <2>1, <2>2
  <2>4. p.id \in Nat \ {0} /\ p.role \in Roles
    BY <1>0, <1>2 DEF Permission, MembersInv
  <2>5. /\ r \in Calling /\ r.pc = x /\ r.email = r0.email /\ r.role = r0.role
        /\ r.dry = r0.dry /\ r.did = y /\ r.applied = r0.applied
        /\ r.seen = r0.seen /\ r.target = p.id /\ r.raced = r0.raced
    BY <2>3, <2>4 DEF Calling
  <2>6. Rank(p.role) \in Nat /\ Rank(r0.role) \in Nat
    BY <1>0, <2>4, RankOf
  <2>7. Members!Holds(r.seen, r.email, r.role) <=> Rank(p.role) >= Rank(r0.role)
    <3>1. Rank(p.role) >= Rank(r0.role) => Members!Holds(r.seen, r.email, r.role)
      BY <1>1, <2>5 DEF Members!Holds, Rank
    <3>2. ASSUME NEW q \in mine, Rank(q.role) >= Rank(r0.role) PROVE Rank(p.role) >= Rank(r0.role)
      <4>1. Rank(q.role) < Rank(p.role) \/ Rank(q.role) = Rank(p.role)
        BY <2>1 DEF Members!Current, Rank
      <4>2. q.role \in Roles
        BY <1>0, <1>2 DEF Permission
      <4>3. Rank(q.role) \in Nat
        BY <4>2, RankOf
      <4> QED
        BY <2>6, <3>2, <4>1, <4>3
    <3> QED
      BY <1>1, <2>5, <3>1, <3>2 DEF Members!Holds, Rank
  <2>8. Members!Intended(r.seen, r.email, r.role) = y
    BY <1>1, <1>4, <2>3, <2>5, <2>7 DEF Members!Intended
  <2>9. Reports(r)
    BY <1>0, <2>3, <2>5, <2>8 DEF Reports
  <2>10. ~r.raced => perms = r.seen
    BY <2>5
  <2>11. ~r.raced => Agrees(r)
    <3>1. ~r.raced /\ r.pc = "update" => \E q \in Members!Of(perms, r.email) :
                                            q.id = r.target /\ Rank(q.role) < Rank(r.role)
      BY <1>2, <2>3, <2>5, <2>6
    <3>2. ~r.raced /\ r.pc = "returned" /\ ~r.dry => Members!Holds(perms, r.email, r.role)
      BY <2>3, <2>5, <2>7
    <3>3. ~r.raced /\ r.pc = "returned" /\ ~r.dry => Members!Changed(r.seen, perms, r)
      BY <2>3, <2>5, <2>10 DEF Members!Changed
    <3> QED
      BY <2>3, <2>5, <2>10, <3>1, <3>2, <3>3 DEF Agrees
  <2> QED
    BY <1>0, <2>5, <2>9, <2>11 DEF Fits
<1> QED
  BY <1>3, <1>4

\* A page of the listing keeps it, the last one with the decision.
LEMMA MembersList ==
  ASSUME MembersInv, NEW c \in Callers, Members!ListDriveMembers(c)
  PROVE  MembersInv'
<1>0. /\ call[c] \in Calling /\ Fits(call[c]) /\ call[c].pc = "list"
      /\ calls \in 0..MaxCalls
      /\ UNCHANGED <<perms, made, calls>> /\ call \in [Callers -> Calling]
  BY DEF MembersInv, Members!ListDriveMembers
<1>1. CASE call' = [call EXCEPT ![c].pc = "failed"]
  BY <1>0, <1>1, CallFails
<1>2. ASSUME NEW rest, rest = {p \in perms : p.id > call[c].after},
             NEW page \in SUBSET rest, \A p \in page, q \in rest \ page : p.id < q.id,
             NEW rec, call' = [call EXCEPT ![c] = rec],
             page = rest => rec \in Members!Decide([call[c] EXCEPT !.seen = @ \cup page]),
             page # rest => rec \in {[[call[c] EXCEPT !.seen = @ \cup page] EXCEPT !.after = p.id] :
                                      p \in {q \in page : \A o \in page : o.id <= q.id}}
      PROVE  MembersInv'
  <2>1. PICK s : s = call[c].seen \cup page
    OBVIOUS
  <2>2. PICK r0 : r0 = [call[c] EXCEPT !.seen = s]
    OBVIOUS
  <2>3. page \subseteq perms /\ s \in SUBSET Permission /\ \A p \in s : p.id \in 1..made
    BY <1>0, <1>2, <2>1 DEF MembersInv, Fits, Calling
  <2>4. /\ r0 \in Calling /\ r0.pc = "list" /\ r0.seen = s /\ r0.email = call[c].email
        /\ r0.role = call[c].role /\ r0.dry = call[c].dry /\ r0.applied = call[c].applied
        /\ r0.raced = call[c].raced /\ r0.after = call[c].after /\ call[c].after \in Nat
    BY <1>0, <2>2, <2>3 DEF Calling
  <2>5. \A p \in perms : p.id \in Nat
    BY DEF MembersInv
  <2>6. ~r0.raced => call[c].seen = {p \in perms : p.id <= call[c].after}
    BY <1>0, <2>4 DEF Fits, Agrees
  <2>7. /\ r0.email = "ann" /\ r0.role \in Roles /\ ~r0.applied
    BY <1>0, <2>4 DEF Fits, Reports
  <2>8. CASE page = rest
    <3>1. ~r0.raced => s = perms
      BY <1>2, <2>1, <2>4, <2>5, <2>6, <2>8
    <3>2. rec \in Members!Decide(r0)
      BY <1>2, <2>1, <2>2, <2>8
    <3>3. rec \in Calling /\ Fits(rec)
      BY <2>3, <2>4, <2>7, <3>1, <3>2, Decided
    <3> QED
      BY <1>0, <1>2, <3>3, CallMoves
  <2>9. CASE page # rest
    <3>1. PICK last \in page : /\ rec = [r0 EXCEPT !.after = last.id]
                               /\ \A o \in page : o.id <= last.id
      BY <1>2, <2>1, <2>2, <2>9
    <3>2. last.id \in Nat /\ last.id > call[c].after
      BY <1>2, <2>3, <2>5
    <3>3. /\ rec \in Calling /\ rec.pc = "list" /\ rec.seen = s /\ rec.email = r0.email
          /\ rec.role = r0.role /\ rec.dry = r0.dry /\ rec.applied = r0.applied
          /\ rec.raced = r0.raced /\ rec.after = last.id
      BY <2>4, <3>1, <3>2 DEF Calling
    <3>4. ~r0.raced => s = {p \in perms : p.id <= last.id}
      <4> SUFFICES ASSUME ~r0.raced, NEW p \in perms PROVE p \in s <=> p.id <= last.id
        BY <2>1, <2>3, <2>6
      <4>1. CASE p.id <= call[c].after
        BY <2>1, <2>4, <2>5, <2>6, <3>2, <4>1
      <4>2. CASE p.id > call[c].after
        <5>1. p \in rest /\ p \notin call[c].seen
          <6>1. p \in rest
            BY <1>2, <4>2
          <6>2. ~(p.id <= call[c].after)
            BY <2>4, <2>5, <4>2
          <6> QED
            BY <2>6, <6>1, <6>2
        <5>2. p \notin page => last.id < p.id
          BY <1>2, <5>1
        <5> QED
          BY <2>1, <2>5, <3>1, <3>2, <5>1, <5>2
      <4> QED
        BY <2>4, <2>5, <4>1, <4>2
    <3>5. Fits(rec)
      BY <2>3, <2>4, <2>7, <3>3, <3>4 DEF Fits, Reports, Agrees
    <3> QED
      BY <1>0, <1>2, <3>3, <3>5, CallMoves
  <2> QED
    BY <2>8, <2>9
<1>3. CASE ~(call' = [call EXCEPT ![c].pc = "failed"])
  <2>1. PICK rest : rest = {p \in perms : p.id > call[c].after}
    OBVIOUS
  <2>2. PICK page \in SUBSET rest :
          /\ \A p \in page, q \in rest \ page : p.id < q.id
          /\ \E rec \in IF page = rest THEN Members!Decide([call[c] EXCEPT !.seen = @ \cup page])
                         ELSE {[[call[c] EXCEPT !.seen = @ \cup page] EXCEPT !.after = p.id] :
                                 p \in {q \in page : \A o \in page : o.id <= q.id}} :
               call' = [call EXCEPT ![c] = rec]
    BY <1>3, <2>1, Zenon DEF Members!ListDriveMembers
  <2>3. PICK rec : /\ call' = [call EXCEPT ![c] = rec]
                   /\ rec \in IF page = rest THEN Members!Decide([call[c] EXCEPT !.seen = @ \cup page])
                              ELSE {[[call[c] EXCEPT !.seen = @ \cup page] EXCEPT !.after = p.id] :
                                      p \in {q \in page : \A o \in page : o.id <= q.id}}
    BY <2>2, Zenon
  <2>4. page = rest => rec \in Members!Decide([call[c] EXCEPT !.seen = @ \cup page])
    BY <2>3, Zenon
  <2>5. page # rest => rec \in {[[call[c] EXCEPT !.seen = @ \cup page] EXCEPT !.after = p.id] :
                                 p \in {q \in page : \A o \in page : o.id <= q.id}}
    BY <2>3, Zenon
  <2> QED
    BY <1>2, <2>1, <2>2, <2>3, <2>4, <2>5, ZenonT(60)
<1> QED
  BY <1>1, <1>3

\* Permissions.Update keeps it, applied or not, answered or not.
LEMMA MembersUpdate ==
  ASSUME MembersInv, NEW c \in Callers, Members!UpdatePermission(c)
  PROVE  MembersInv'
<1>0. /\ call[c] \in Calling /\ Fits(call[c]) /\ call[c].pc = "update"
      /\ made \in 0..MaxPerms /\ UNCHANGED <<made, calls>>
  BY DEF MembersInv, Members!UpdatePermission
<1>1. CASE call' = [call EXCEPT ![c].pc = "failed"] /\ UNCHANGED perms
  BY <1>0, <1>1, CallFails
<1>2. ASSUME NEW p \in perms, NEW end \in {"returned", "failed"}, p.id = call[c].target,
             Members!Becomes((perms \ {p}) \cup {[p EXCEPT !.role = call[c].role]}, c,
                             [call[c] EXCEPT !.pc = end, !.applied = TRUE])
      PROVE  MembersInv'
  <2>1. PICK new, r : /\ new = [p EXCEPT !.role = call[c].role]
                      /\ r = [call[c] EXCEPT !.pc = end, !.applied = TRUE]
    OBVIOUS
  <2>2. /\ call[c].email = "ann" /\ call[c].role \in Roles /\ ~call[c].dry
        /\ call[c].did = "UPGRADED"
        /\ call[c].did = Members!Intended(call[c].seen, call[c].email, call[c].role)
        /\ ~call[c].raced => perms = call[c].seen
    BY <1>0 DEF Fits, Reports, Agrees
  <2>3. p \in Permission /\ p.id \in 1..made
    BY DEF MembersInv
  <2>4. /\ new \in Permission /\ new.id = p.id /\ new.email = p.email
        /\ new.role = call[c].role
    BY <2>1, <2>2, <2>3 DEF Permission
  <2>5. perms' = (perms \ {p}) \cup {new} /\ Members!Becomes(perms', c, r)
    BY <1>2, <2>1 DEF Members!Becomes
  <2>6. /\ r \in Calling /\ r.pc = end /\ r.email = call[c].email
        /\ r.role = call[c].role
        /\ r.dry = call[c].dry /\ r.seen = call[c].seen /\ r.raced = call[c].raced
        /\ r.did = call[c].did
    <3>1. PICK yes \in BOOLEAN : r = [call[c] EXCEPT !.pc = end, !.applied = yes]
      BY <2>1
    <3> QED
      BY <1>0, <3>1 DEF Calling
  <2>7. /\ perms' \subseteq Permission /\ \A q \in perms' : q.id \in 1..made'
        /\ \A q, o \in perms' : q.id = o.id => q = o
    BY <1>0, <2>3, <2>4, <2>5 DEF MembersInv
  <2>8. ~call[c].raced => Members!EqualFold(p.email, "ann")
    BY <1>0, <1>2, <2>2 DEF Fits, Agrees, MembersInv, Members!Of
  <2>9. ~call[c].raced => Members!Holds(perms', "ann", call[c].role)
    <3>1. Rank(new.role) >= Rank(call[c].role)
      BY <2>2, <2>4, RankOf
    <3>2. Members!EqualFold(new.email, "ann") <=> Members!EqualFold(p.email, "ann")
      BY <2>4
    <3> QED
      BY <2>5, <2>8, <3>1, <3>2 DEF Members!Holds, Members!Of, Rank
  <2>10. Fits(r)'
    <3>1. \A q \in r.seen : q.id \in 1..made'
      BY <1>0, <2>6 DEF Fits
    <3>2. Reports(r)
      BY <2>2, <2>6 DEF Reports
    <3>3. ~r.raced => Members!Changed(r.seen, perms', r)
      <4> SUFFICES ASSUME ~r.raced PROVE Members!Changed(r.seen, perms', r)
        OBVIOUS
      <4>1. r.seen = perms /\ p \in Members!Of(r.seen, r.email)
        BY <2>2, <2>6, <2>8 DEF Members!Of
      <4>2. new \in perms' /\ perms' = (r.seen \ {p}) \cup {new}
        BY <2>5, <4>1
      <4> QED
        BY <2>2, <2>4, <2>6, <4>1, <4>2 DEF Members!Changed
    <3> QED
      BY <2>2, <2>6, <2>9, <3>1, <3>2, <3>3 DEF Fits, Reports, Agrees
  <2>11. made' \in 0..MaxPerms /\ made <= made' /\ calls' = calls
    BY <1>0
  <2> QED
    BY <2>5, <2>6, <2>7, <2>10, <2>11, DriveChanges
<1> QED
  BY <1>1, <1>2 DEF Members!UpdatePermission

\* Permissions.Create keeps it: identifiers are new.
LEMMA MembersCreate ==
  ASSUME MembersInv, NEW c \in Callers, Members!CreatePermission(c)
  PROVE  MembersInv'
<1>0. /\ call[c] \in Calling /\ Fits(call[c]) /\ call[c].pc = "create"
      /\ made < MaxPerms
      /\ made \in 0..MaxPerms /\ UNCHANGED calls
  BY DEF MembersInv, Members!CreatePermission
<1>1. CASE call' = [call EXCEPT ![c].pc = "failed"] /\ UNCHANGED <<perms, made>>
  BY <1>0, <1>1, CallFails
<1>2. ASSUME NEW end \in {"returned", "failed"}, made' = made + 1,
             Members!Becomes(perms \cup {[id |-> made + 1, email |-> call[c].email,
                                          role |-> call[c].role]},
                             c, [call[c] EXCEPT !.pc = end, !.applied = TRUE])
      PROVE  MembersInv'
  <2>1. PICK new, r : /\ new = [id |-> made + 1, email |-> call[c].email, role |-> call[c].role]
                      /\ r = [call[c] EXCEPT !.pc = end, !.applied = TRUE]
    OBVIOUS
  <2>2. /\ call[c].email = "ann" /\ call[c].role \in Roles /\ ~call[c].dry
        /\ call[c].did = "CREATED"
        /\ call[c].did = Members!Intended(call[c].seen, call[c].email, call[c].role)
        /\ ~call[c].raced => perms = call[c].seen
    BY <1>0 DEF Fits, Reports, Agrees
  <2>3. PICK n \in Nat : n = made + 1 /\ n <= MaxPerms /\ made < n
    BY <1>0, WorkspaceAssumption DEF WorkspaceAssumption
  <2>4. new \in Permission /\ new.id = n /\ new.email = "ann" /\ new.role = call[c].role
    <3>1. new = [id |-> n, email |-> "ann", role |-> call[c].role]
      BY <2>1, <2>2, <2>3
    <3> QED
      BY <2>2, <3>1 DEF Permission, Members!Spellings
  <2>5. perms' = perms \cup {new} /\ Members!Becomes(perms', c, r)
    BY <1>2, <2>1 DEF Members!Becomes
  <2>6. /\ r \in Calling /\ r.pc = end /\ r.email = call[c].email
        /\ r.role = call[c].role
        /\ r.dry = call[c].dry /\ r.seen = call[c].seen /\ r.raced = call[c].raced
        /\ r.did = call[c].did
    <3>1. PICK yes \in BOOLEAN : r = [call[c] EXCEPT !.pc = end, !.applied = yes]
      BY <2>1
    <3> QED
      BY <1>0, <3>1 DEF Calling
  <2>7. /\ perms' \subseteq Permission /\ \A q \in perms' : q.id \in 1..made'
        /\ \A q, o \in perms' : q.id = o.id => q = o
    <3>1. \A q \in perms : q \in Permission /\ q.id \in 1..made
      BY DEF MembersInv
    <3>2. \A q \in perms : q.id \in 1..n /\ q.id # n
      BY <1>0, <2>3, <3>1
    <3> QED
      BY <1>2, <2>3, <2>4, <2>5, <3>1, <3>2 DEF MembersInv
  <2>8. Members!Holds(perms', "ann", call[c].role)
    <3>1. Rank(new.role) >= Rank(call[c].role)
      BY <2>2, <2>4, RankOf
    <3>2. Members!EqualFold(new.email, "ann")
      BY <2>4 DEF Members!EqualFold, Members!Trimmed
    <3> QED
      BY <2>5, <3>1, <3>2 DEF Members!Holds, Members!Of, Rank
  <2>9. Fits(r)'
    <3>1. \A q \in r.seen : q.id \in 1..made'
      BY <1>0, <1>2, <2>6 DEF Fits
    <3>2. Reports(r)
      BY <2>2, <2>6 DEF Reports
    <3>3. ~r.raced => Members!Changed(r.seen, perms', r)
      <4> SUFFICES ASSUME ~r.raced PROVE Members!Changed(r.seen, perms', r)
        OBVIOUS
      <4>1. r.seen = perms /\ new \notin perms
        BY <1>0, <2>2, <2>3, <2>4, <2>6 DEF MembersInv
      <4>2. new \in perms' /\ perms' = r.seen \cup {new}
        BY <2>5, <4>1
      <4>3. Members!EqualFold(new.email, r.email)
        BY <2>2, <2>4, <2>6 DEF Members!EqualFold, Members!Trimmed
      <4> QED
        BY <2>2, <2>4, <2>6, <4>1, <4>2, <4>3 DEF Members!Changed
    <3> QED
      BY <2>2, <2>6, <2>8, <3>1, <3>2, <3>3 DEF Fits, Reports, Agrees
  <2>10. made' \in 0..MaxPerms /\ made <= made' /\ calls' = calls
    BY <1>0, <1>2, <2>3
  <2> QED
    BY <2>5, <2>6, <2>7, <2>9, <2>10, DriveChanges
<1> QED
  BY <1>1, <1>2 DEF Members!CreatePermission

\* An administrator's deletion keeps it.
LEMMA MembersDelete ==
  ASSUME MembersInv, NEW id \in 1..made, Members!DeleteDriveMember(id)
  PROVE  MembersInv'
<1>1. /\ perms' = {p \in perms : p.id # id} /\ UNCHANGED <<made, calls>>
      /\ call' = [d \in Callers |-> [call[d] EXCEPT !.raced = call[d].raced \/ call[d].pc # "idle"]]
  BY DEF Members!DeleteDriveMember
<1>2. ASSUME NEW d \in Callers PROVE call'[d] \in Calling /\ Fits(call[d])'
  <2>1. PICK s : s = call'[d]
    OBVIOUS
  <2>2. PICK o \in Calling : o = call[d] /\ Fits(o)
    BY DEF MembersInv
  <2>3. s = [o EXCEPT !.raced = o.raced \/ o.pc # "idle"] /\ made' \in Nat /\ made <= made'
    BY <1>1, <2>1, <2>2 DEF MembersInv
  <2>4. s \in Calling /\ Fits(s)'
    BY <2>2, <2>3, Overtaken
  <2> QED
    BY <2>1, <2>4 DEF Fits, Reports, Agrees
<1>3. call' \in [Callers -> Calling]
  <2>1. call' = [d \in Callers |-> call'[d]]
    BY <1>1
  <2> QED
    BY <1>2, <2>1
<1> QED
  BY <1>1, <1>2, <1>3 DEF MembersInv

\* Every step of the callers and of the administrator keeps it.
LEMMA MembersNext == MembersInv /\ Members!Next => MembersInv'
  BY MembersBegin, MembersList, MembersUpdate, MembersCreate, MembersDelete
    DEF Members!Next

\* Nobody loses a role by a call that saw the drive as it is.
LEMMA NobodyFalls ==
  ASSUME MembersInv, Members!Next, NEW m \in {"ann", "bob"}, NEW role \in DOMAIN Members!Ranks,
         Members!Holds(perms, m, role), ~Members!Holds(perms', m, role)
  PROVE  \/ \E p \in perms : \A q \in perms' : q.id # p.id
         \/ \E c \in Callers : call[c].pc = "update" /\ call'[c].pc # "update" /\ call[c].raced
<1>1. PICK h \in perms : Members!EqualFold(h.email, m) /\ Rank(h.role) >= Rank(role)
  BY DEF Members!Holds, Members!Of, Rank
<1>2. \A q \in perms' : Members!EqualFold(q.email, m) => ~(Rank(q.role) >= Rank(role))
  BY DEF Members!Holds, Members!Of, Rank
<1>3. h \notin perms'
  BY <1>1, <1>2
<1>4. CASE \E id \in 1..made : Members!DeleteDriveMember(id)
  BY <1>4 DEF Members!DeleteDriveMember
<1>5. CASE \E c \in Callers : Members!CreatePermission(c)
  BY <1>3, <1>5 DEF Members!CreatePermission, Members!Becomes
<1>6. CASE \E c \in Callers : Members!UpdatePermission(c)
  <2>1. PICK c \in Callers : Members!UpdatePermission(c)
    BY <1>6
  <2>2. call[c] \in Calling /\ Fits(call[c]) /\ call[c].pc = "update"
    BY <2>1 DEF MembersInv, Members!UpdatePermission
  <2>3. PICK p \in perms, end \in {"returned", "failed"} :
          /\ p.id = call[c].target
          /\ Members!Becomes((perms \ {p}) \cup {[p EXCEPT !.role = call[c].role]}, c,
                             [call[c] EXCEPT !.pc = end, !.applied = TRUE])
    BY <1>3, <2>1 DEF Members!UpdatePermission
  <2>4. PICK new : new = [p EXCEPT !.role = call[c].role]
    OBVIOUS
  <2>5. /\ perms' = (perms \ {p}) \cup {new}
        /\ call'[c] = [call[c] EXCEPT !.pc = end, !.applied = TRUE]
    BY <2>3, <2>4 DEF Members!Becomes
  <2>6. call'[c].pc # "update"
    BY <2>2, <2>5 DEF Calling
  <2>7. CASE call[c].raced
    BY <2>2, <2>6, <2>7
  <2>8. CASE ~call[c].raced
    <3>1. h = p
      BY <1>3, <2>5
    <3>2. call[c].role \in Roles /\ p \in Permission
      BY <2>2 DEF Fits, MembersInv
    <3>3. new.email = p.email /\ new.role = call[c].role /\ p.role \in Roles
      BY <2>4, <3>2 DEF Permission
    <3>4. Rank(p.role) < Rank(call[c].role)
      BY <2>2, <2>3, <2>8 DEF Fits, Agrees, MembersInv, Members!Of
    <3>5. Rank(p.role) \in Nat /\ Rank(call[c].role) \in Nat /\ Rank(role) \in Nat
      BY <3>2, <3>3, RankOf
    <3>6. Members!EqualFold(new.email, m) /\ Rank(new.role) >= Rank(role)
      BY <1>1, <3>1, <3>3, <3>4, <3>5
    <3> QED
      BY <1>2, <2>5, <3>6
  <2> QED
    BY <2>7, <2>8
<1>7. perms' # perms
  BY <1>3
<1> QED
  BY <1>4, <1>5, <1>6, <1>7 DEF Members!Next, Members!EnsureDriveMembership,
                                Members!ListDriveMembers

\* It is what the run asks of the members.
LEMMA MembersSafe == MembersInv => MembersSound
<1> SUFFICES ASSUME MembersInv PROVE MembersSound
  OBVIOUS
<1>1. \A p \in Permission : p.id \in 1..made => p \in Members!Permissions
  BY RankOf DEF Permission, Members!Permissions
<1>2. perms \subseteq Members!Permissions
  BY <1>1 DEF MembersInv
<1>3. \A c \in Callers : /\ call[c].pc \in {"idle", "list", "update", "create", "returned", "failed"}
                         /\ call[c].did \in {"", "CREATED", "UPGRADED", "UNCHANGED"}
                         /\ call[c].seen \subseteq Members!Permissions
  BY <1>1 DEF MembersInv, Calling, Fits
<1>4. Members!TypeOK
  BY <1>2, <1>3 DEF MembersInv, Members!TypeOK
<1>5. Members!EnsuredHolds
  BY DEF MembersInv, Fits, Agrees, Members!EnsuredHolds
<1>6. Members!ReportsAgree
  BY DEF MembersInv, Fits, Reports, Agrees, Members!ReportsAgree
<1> QED
  BY <1>4, <1>5, <1>6 DEF MembersSound, Members!Sound

\* A step of another part keeps it.
LEMMA MembersStays == MembersInv /\ UNCHANGED ofMembers => MembersInv'
  BY DEF ofMembers, MembersInv, Fits, Reports, Agrees

\* EnsureDriveMembership: for every number of callers, permissions and pages,
\* a dry run has nothing applied, whoever races it; a dry run and a real one
\* report what is intended for the drive that they listed; and unless somebody
\* else changed the drive meanwhile, a real one changed it by exactly what it
\* reports and the role asked for is held.
THEOREM MembersAreSound == Spec => []MembersSound
<1>1. Init => MembersInv
  BY MembersInit DEF Init
<1>2. MembersInv /\ [Next]_vars => MembersInv'
  BY MembersNext, MembersStays DEF Next, vars
<1>3. MembersInv => MembersSound
  BY MembersSafe
<1> QED
  BY <1>1, <1>2, <1>3, PTL DEF Spec

\* EnsureDriveMembership: no member ever loses a role but by a deletion or by
\* an update whose listing was overtaken, for every number of callers.
THEOREM RolesFallOnlyByRace == Spec => FallsOnlyByRace
<1>1. Init => MembersInv
  BY MembersInit DEF Init
<1>2. MembersInv /\ [Next]_vars => MembersInv'
  BY MembersNext, MembersStays DEF Next, vars
<1>3. MembersInv /\ [Next]_vars =>
        [\A m \in {"ann", "bob"}, role \in DOMAIN Members!Ranks :
           Members!Holds(perms, m, role) /\ ~Members!Holds(perms', m, role)
             => \/ \E p \in perms : \A q \in perms' : q.id # p.id
                \/ \E c \in Callers : /\ call[c].pc = "update"
                                      /\ call'[c].pc # "update"
                                      /\ call[c].raced]_(Members!vars)
  <2>1. UNCHANGED ofMembers => UNCHANGED Members!vars
    BY DEF ofMembers, Members!vars
  <2> QED
    BY NobodyFalls, <2>1 DEF Next, vars
<1> QED
  BY <1>1, <1>2, <1>3, PTL DEF Spec, FallsOnlyByRace, Members!FallsOnlyByRace
-----------------------------------------------------------------------------
\* Scan and the other listings: what every step keeps. While a listing runs,
\* its pages are full, lie one behind the other up to the token, and have
\* everything up to the token that was there all the time.
ListingInv ==
  /\ kind \in Listing!Kinds /\ size \in Nat \ {0} /\ maxPages \in Int
  /\ present \subseteq Things /\ always \subseteq present /\ present \subseteq ever
  /\ pages \in Nat /\ token \in Things \cup {0} /\ out \in Seq(SUBSET Nat)
  /\ outcome \in {"running", "nil", "error", "cancelled"}
  /\ kind # "scan" => maxPages = 0
  /\ \A i \in DOMAIN out : out[i] \subseteq ever
  /\ \A i, j \in DOMAIN out : i # j => out[i] \cap out[j] = {}
  /\ outcome = "running" =>
       /\ Len(out) = pages /\ (maxPages > 0 => pages < maxPages)
       /\ \A i \in DOMAIN out : /\ Listing!Cardinality(out[i]) = size
                                /\ \A t \in out[i] : t <= token
       /\ \A t \in always : t <= token => \E i \in DOMAIN out : t \in out[i]
  /\ outcome = "nil" =>
       \/ \A t \in always : \E i \in DOMAIN out : t \in out[i]
       \/ /\ kind = "scan" /\ pages = maxPages /\ Len(out) = maxPages
          /\ \A i \in DOMAIN out : Listing!Cardinality(out[i]) = size

\* It holds at first.
LEMMA ListingInit == Listing!Init => ListingInv
<1> SUFFICES ASSUME Listing!Init PROVE ListingInv
  OBVIOUS
<1>1. out \in Seq(SUBSET Nat) /\ Len(out) = 0 /\ DOMAIN out = {}
  BY DEF Listing!Init
<1>2. size \in Nat \ {0}
  BY WorkspaceAssumption
    DEF WorkspaceAssumption, Listing!Init, Listing!EffectiveSize,
        Listing!defaultPageSize
<1>3. maxPages \in Int /\ (kind # "scan" => maxPages = 0)
  BY WorkspaceAssumption DEF WorkspaceAssumption, Listing!Init
<1>4. \A t \in always : ~(t <= token)
  BY WorkspaceAssumption DEF WorkspaceAssumption, Listing!Init
<1> QED
  BY <1>1, <1>2, <1>3, <1>4 DEF Listing!Init, ListingInv

\* A listing goes on with another page, or part of one, collected.
LEMMA Longer ==
  ASSUME ListingInv, outcome = "running", NEW page \in SUBSET Listing!Rest,
         out' = Append(out, page), UNCHANGED <<ever, present>>
  PROVE  /\ out' \in Seq(SUBSET Nat) /\ Len(out') = Len(out) + 1 /\ Len(out) \in Nat
         /\ DOMAIN out' = DOMAIN out \cup {Len(out) + 1} /\ DOMAIN out = 1..Len(out)
         /\ out'[Len(out) + 1] = page /\ \A i \in DOMAIN out : out'[i] = out[i]
         /\ \A i \in DOMAIN out' : out'[i] \subseteq ever'
         /\ \A i, j \in DOMAIN out' : i # j => out'[i] \cap out'[j] = {}
         /\ page \subseteq Nat /\ page \subseteq present
<1>1. page \in SUBSET Nat /\ page \subseteq present /\ \A t \in page : t > token
  BY WorkspaceAssumption DEF WorkspaceAssumption, Listing!Rest, ListingInv
<1>2. PICK n \in Nat : n = Len(out) /\ DOMAIN out = 1..n
  BY DEF ListingInv
<1>3. /\ out' \in Seq(SUBSET Nat) /\ Len(out') = n + 1 /\ out'[n + 1] = page
      /\ \A i \in 1..n : out'[i] = out[i]
  BY <1>1, <1>2, AppendProperties DEF ListingInv
<1>4. DOMAIN out' = 1..(n + 1) /\ 1..(n + 1) = 1..n \cup {n + 1}
  BY <1>3
<1>5. \A i \in 1..n : out[i] \cap page = {}
  <2> SUFFICES ASSUME NEW i \in 1..n, NEW t \in out[i], t \in page PROVE FALSE
    OBVIOUS
  <2>1. t <= token /\ t \in Nat /\ token \in Int
    BY <1>1, <1>2, WorkspaceAssumption DEF WorkspaceAssumption, ListingInv
  <2> QED
    BY <1>1, <2>1
<1>6. \A i, j \in DOMAIN out' : i # j => out'[i] \cap out'[j] = {}
  <2> SUFFICES ASSUME NEW i \in 1..(n + 1), NEW j \in 1..(n + 1), i # j
               PROVE  out'[i] \cap out'[j] = {}
    BY <1>4
  <2>1. CASE i \in 1..n /\ j \in 1..n
    BY <1>2, <1>3, <2>1 DEF ListingInv
  <2>2. CASE i = n + 1
    BY <1>3, <1>5, <2>2
  <2>3. CASE j = n + 1
    BY <1>3, <1>5, <2>3
  <2> QED
    BY <1>4, <2>1, <2>2, <2>3
<1>7. \A i \in DOMAIN out' : out'[i] \subseteq ever'
  BY <1>1, <1>2, <1>3, <1>4 DEF ListingInv
<1> QED
  BY <1>1, <1>2, <1>3, <1>4, <1>6, <1>7

\* A page is taken.
LEMMA PageTaken ==
  ASSUME ListingInv, outcome = "running", NEW page \in Listing!Pages, Listing!Advance(page),
         UNCHANGED <<kind, size, maxPages, present, ever, always>>,
         outcome' = IF ~Listing!More(page) \/ (maxPages > 0 /\ pages + 1 >= maxPages)
                      THEN "nil" ELSE "running"
  PROVE  ListingInv'
<1>1. /\ page \in SUBSET Listing!Rest /\ out' = Append(out, page) /\ pages' = pages + 1
      /\ \A t \in page, u \in Listing!Rest \ page : t < u
      /\ page # Listing!Rest => Listing!Cardinality(page) = size
  BY DEF Listing!Pages, Listing!Advance
<1>2. /\ out' \in Seq(SUBSET Nat) /\ Len(out') = Len(out) + 1 /\ Len(out) \in Nat
      /\ DOMAIN out' = DOMAIN out \cup {Len(out) + 1} /\ DOMAIN out = 1..Len(out)
      /\ out'[Len(out) + 1] = page /\ \A i \in DOMAIN out : out'[i] = out[i]
      /\ \A i \in DOMAIN out' : out'[i] \subseteq ever'
      /\ \A i, j \in DOMAIN out' : i # j => out'[i] \cap out'[j] = {}
      /\ page \subseteq Nat /\ page \subseteq present
  BY <1>1, Longer
<1>3. /\ Things \subseteq Nat \ {0} /\ token \in Nat /\ present \subseteq Things
      /\ always \subseteq present
  BY WorkspaceAssumption DEF WorkspaceAssumption, ListingInv
<1>4. /\ kind' \in Listing!Kinds /\ size' \in Nat \ {0} /\ maxPages' \in Int
      /\ present' \subseteq Things /\ always' \subseteq present'
      /\ present' \subseteq ever'
      /\ pages' \in Nat /\ outcome' \in {"running", "nil", "error", "cancelled"}
      /\ kind' # "scan" => maxPages' = 0
  BY <1>1 DEF ListingInv
<1>5. \A t \in always : t <= token => \E i \in DOMAIN out' : t \in out'[i]
  BY <1>2 DEF ListingInv
<1>6. CASE page = Listing!Rest
  <2>1. outcome' = "nil" /\ token' = 0
    BY <1>6 DEF Listing!More, Listing!Advance
  <2>2. \A t \in always : \E i \in DOMAIN out' : t \in out'[i]
    <3> SUFFICES ASSUME NEW t \in always PROVE \E i \in DOMAIN out' : t \in out'[i]
      OBVIOUS
    <3>1. CASE t <= token
      BY <1>5, <3>1
    <3>2. CASE t > token
      <4>1. t \in page
        BY <1>3, <1>6, <3>2 DEF Listing!Rest
      <4> QED
        BY <1>2, <4>1
    <3> QED
      BY <1>3, <3>1, <3>2
  <2> QED
    BY <1>2, <1>4, <2>1, <2>2 DEF ListingInv
<1>7. CASE page # Listing!Rest
  <2>1. PICK last \in page : token' = last /\ \A u \in page : u <= last
    BY <1>7 DEF Listing!More, Listing!Advance
  <2>2. last \in Nat /\ token < last /\ last \in Things
    BY <1>1, <1>2, <1>3, <2>1 DEF Listing!Rest
  <2>3. \A i \in DOMAIN out' : Listing!Cardinality(out'[i]) = size'
    BY <1>1, <1>2, <1>7 DEF ListingInv
  <2>4. \A i \in DOMAIN out' : \A t \in out'[i] : t <= token'
    <3> SUFFICES ASSUME NEW i \in DOMAIN out', NEW t \in out'[i] PROVE t <= last
      BY <2>1
    <3>1. CASE i \in DOMAIN out
      <4>1. t \in out[i] /\ t \in Nat /\ t <= token
        BY <1>2, <3>1 DEF ListingInv
      <4> QED
        BY <1>3, <2>2, <4>1
    <3>2. CASE i = Len(out) + 1
      BY <1>2, <2>1, <3>2
    <3> QED
      BY <1>2, <3>1, <3>2
  <2>5. \A t \in always : t <= token' => \E i \in DOMAIN out' : t \in out'[i]
    <3> SUFFICES ASSUME NEW t \in always, t <= last PROVE \E i \in DOMAIN out' : t \in out'[i]
      BY <2>1
    <3>1. CASE t <= token
      BY <1>5, <3>1
    <3>2. CASE t > token
      <4>1. t \in Listing!Rest /\ t \in Nat
        BY <1>3, <3>2 DEF Listing!Rest
      <4>2. t \in page
        BY <1>1, <2>1, <2>2, <4>1
      <4> QED
        BY <1>2, <4>2
    <3>3. t \in Int /\ token \in Int
      BY <1>3
    <3> QED
      BY <3>1, <3>2, <3>3
  <2>6. pages \in Nat /\ maxPages \in Int /\ Len(out) = pages /\ (maxPages > 0 => pages < maxPages)
        /\ (kind # "scan" => maxPages = 0)
    BY DEF ListingInv
  <2>7. CASE maxPages > 0 /\ pages + 1 >= maxPages
    <3>1. /\ outcome' = "nil" /\ pages' = maxPages' /\ kind' = "scan"
          /\ Len(out') = maxPages'
      BY <1>1, <1>2, <2>6, <2>7
    <3> QED
      BY <1>2, <1>4, <2>1, <2>2, <2>3, <3>1 DEF ListingInv
  <2>8. CASE ~(maxPages > 0 /\ pages + 1 >= maxPages)
    <3>1. outcome' = "running" /\ Len(out') = pages' /\ (maxPages' > 0 => pages' < maxPages')
      BY <1>1, <1>2, <1>7, <2>6, <2>8 DEF Listing!More
    <3> QED
      BY <1>2, <1>4, <2>1, <2>2, <2>3, <2>4, <2>5, <3>1 DEF ListingInv
  <2> QED
    BY <2>7, <2>8
<1> QED
  BY <1>6, <1>7

\* A listing ends in an error or is cancelled with what it has.
LEMMA Broken ==
  ASSUME ListingInv, outcome' \in {"error", "cancelled"}, UNCHANGED <<token, pages, out>>,
         UNCHANGED <<kind, size, maxPages, present, ever, always>>
  PROVE  ListingInv'
  BY DEF ListingInv

\* A round of any of the listings, a change on the service and a cancelled
\* context keep it.
LEMMA ListingNext == ListingInv /\ Listing!Next => ListingInv'
<1> SUFFICES ASSUME ListingInv, Listing!Next PROVE ListingInv'
  OBVIOUS
<1>1. CASE Listing!Scan
  <2>1. outcome = "running" /\ UNCHANGED <<kind, size, maxPages, present, ever, always>>
    BY <1>1 DEF Listing!Scan
  <2>2. CASE Listing!Fail("cancelled") \/ Listing!Fail("error")
    BY <2>1, <2>2, Broken DEF Listing!Fail
  <2>3. CASE \E page \in Listing!Pages :
               /\ Listing!Advance(page)
               /\ outcome' = IF ~Listing!More(page) \/ (maxPages > 0 /\ pages + 1 >= maxPages)
                               THEN "nil" ELSE "running"
    BY <2>1, <2>3, PageTaken
  <2>4. CASE /\ \E page \in Listing!Pages : \E part \in SUBSET page : out' = Append(out, part)
             /\ outcome' = "error" /\ UNCHANGED <<token, pages>>
    <3>1. PICK part \in SUBSET Listing!Rest : out' = Append(out, part)
      BY <2>4 DEF Listing!Pages
    <3>2. /\ out' \in Seq(SUBSET Nat)
          /\ \A i \in DOMAIN out' : out'[i] \subseteq ever'
          /\ \A i, j \in DOMAIN out' : i # j => out'[i] \cap out'[j] = {}
      BY <2>1, <3>1, Longer
    <3> QED
      BY <2>1, <2>4, <3>2 DEF ListingInv
  <2> QED
    BY <1>1, <2>2, <2>3, <2>4 DEF Listing!Scan
<1>2. ASSUME NEW k \in {"drives", "filePermissions", "apis"}, Listing!Collect(k)
      PROVE  ListingInv'
  <2>1. /\ outcome = "running"
        /\ UNCHANGED <<kind, size, maxPages, present, ever, always>>
        /\ kind # "scan"
    BY <1>2 DEF Listing!Collect
  <2>2. maxPages = 0
    BY <2>1 DEF ListingInv
  <2>3. CASE Listing!Fail("error")
    BY <2>1, <2>3, Broken DEF Listing!Fail
  <2>4. CASE \E page \in Listing!Pages :
               /\ Listing!Advance(page)
               /\ outcome' = IF Listing!More(page) THEN "running" ELSE "nil"
    <3>1. PICK page \in Listing!Pages :
            /\ Listing!Advance(page)
            /\ outcome' = IF Listing!More(page) THEN "running" ELSE "nil"
      BY <2>4
    <3>2. outcome' = IF ~Listing!More(page) \/ (maxPages > 0 /\ pages + 1 >= maxPages)
                       THEN "nil" ELSE "running"
      BY <2>2, <3>1
    <3> QED
      BY <2>1, <3>1, <3>2, PageTaken
  <2> QED
    BY <1>2, <2>3, <2>4 DEF Listing!Collect
<1>3. ASSUME NEW t \in Things, Listing!Change(t) PROVE ListingInv'
  <2>1. /\ present' \subseteq Things /\ ever' = ever \cup present'
        /\ always' = always \cap present' /\ outcome = "running"
        /\ UNCHANGED <<kind, size, maxPages, token, pages, out, ctx, outcome>>
    BY <1>3 DEF Listing!Change, ListingInv
  <2> QED
    BY <2>1 DEF ListingInv
<1>4. CASE Listing!Cancel
  BY <1>4 DEF Listing!Cancel, ListingInv
<1> QED
  BY <1>1, <1>2, <1>3, <1>4 DEF Listing!Next, Listing!ListSharedDrives,
                                Listing!ListFilePermissions, Listing!CheckAPIsStatus

\* It is what the run asks of the listings.
LEMMA ListingSafe == ListingInv => ListingSound
<1> SUFFICES ASSUME ListingInv PROVE ListingSound
  OBVIOUS
<1>1. Listing!TypeOK
  BY DEF ListingInv, Listing!TypeOK
<1>2. Listing!Complete
  BY DEF ListingInv, Listing!Complete, Listing!Listed
<1> QED
  BY <1>1, <1>2 DEF ListingSound, Listing!Sound

\* A step of another part keeps it.
LEMMA ListingStays == ListingInv /\ UNCHANGED ofListing => ListingInv'
  BY DEF ofListing, ListingInv

\* Scan, ListSharedDrives, ListFilePermissions, CheckAPIsStatus: for every page
\* size, ceiling and number of things, a nil error means that everything that
\* was there all the time was delivered, once, or that Scan took exactly the
\* full pages of its ceiling.
THEOREM ListingIsSound == Spec => []ListingSound
<1>1. Init => ListingInv
  BY ListingInit DEF Init
<1>2. ListingInv /\ [Next]_vars => ListingInv'
  BY ListingNext, ListingStays DEF Next, vars
<1>3. ListingInv => ListingSound
  BY ListingSafe
<1> QED
  BY <1>1, <1>2, <1>3, PTL DEF Spec
-----------------------------------------------------------------------------
\* A folder of the drive.
Folder == [name : Files!Names, trashed : BOOLEAN, tagged : BOOLEAN]

\* A worker's record.
Job == [pc : {"rest", "absent", "found", "moving", "moved"}, folder : Nat,
        remove : SUBSET Nat, looked : BOOLEAN, overlapped : BOOLEAN]

\* The identifiers that exist.
Known == 0..Len(folders)

\* EnsureFolder, MoveFile, CreateSharedDrive: what every step keeps.
\* Identifiers are of folders that exist, and the parents that a move is going
\* to remove are the file's, as long as the move looked them up itself and no
\* other move came in between.
FilesInv ==
  /\ folders \in Seq(Folder) /\ Len(folders) <= MaxFolders
  /\ work \in [Workers -> Job]
  /\ parents \subseteq Known
  /\ \A w \in Workers : work[w].folder \in Known /\ work[w].remove \subseteq Known
  /\ \A w \in Workers : work[w].pc = "moving" /\ work[w].looked /\ ~work[w].overlapped
                          => work[w].remove = parents
  /\ Files!MoveIsExact
  /\ drives \in Seq(Files!Requests) /\ Files!OneDrivePerRequest

\* It holds at first.
LEMMA FilesInit == Files!Init => FilesInv
<1> SUFFICES ASSUME Files!Init PROVE FilesInv
  OBVIOUS
<1>1. PICK no \in BOOLEAN : ~no
  OBVIOUS
<1>2. Files!Resting = [pc |-> "rest", folder |-> 0, remove |-> {}, looked |-> no, overlapped |-> no]
  BY <1>1 DEF Files!Resting, Files!Root
<1>3. Files!Resting \in Job /\ Files!Resting.pc = "rest" /\ Files!Resting.folder = 0
      /\ Files!Resting.remove = {}
  BY <1>2 DEF Job
<1>4. folders \in Seq(Folder) /\ Len(folders) = 0
  BY DEF Files!Init
<1> QED
  BY <1>3, <1>4, WorkspaceAssumption
    DEF WorkspaceAssumption, Files!Init, FilesInv, Known, Files!MoveIsExact,
        Files!OneDrivePerRequest, Files!Requests, Files!Root

\* Worker w goes on as r, and nothing else changes but the folders, which grow.
LEMMA WorkerMoves ==
  ASSUME FilesInv, NEW w \in Workers, NEW r \in Job, work' = [work EXCEPT ![w] = r],
         folders' \in Seq(Folder), Len(folders') <= MaxFolders, Len(folders) <= Len(folders'),
         UNCHANGED <<parents, drives, answers>>,
         r.folder \in Known', r.remove \subseteq Known',
         r.pc # "moved", r.pc = "moving" /\ r.looked => r.remove = parents
  PROVE  FilesInv'
<1>1. Known \subseteq Known' /\ Len(folders) \in Nat /\ Len(folders') \in Nat
  BY DEF Known, FilesInv
<1>2. /\ work' \in [Workers -> Job]
      /\ \A v \in Workers : work'[v] = IF v = w THEN r ELSE work[v]
  BY DEF FilesInv
<1>3. /\ parents' \subseteq Known'
      /\ \A v \in Workers : work'[v].folder \in Known' /\ work'[v].remove \subseteq Known'
  BY <1>1, <1>2 DEF FilesInv
<1>4. \A v \in Workers : work'[v].pc = "moving" /\ work'[v].looked /\ ~work'[v].overlapped
                           => work'[v].remove = parents'
  BY <1>2 DEF FilesInv
<1>5. Files!MoveIsExact'
  BY <1>2 DEF FilesInv, Files!MoveIsExact
<1> QED
  BY <1>2, <1>3, <1>4, <1>5 DEF FilesInv, Files!OneDrivePerRequest

\* Finding, making, tagging and trashing a folder, both halves of a move and
\* the creation of a drive keep it.
LEMMA FilesNext == FilesInv /\ Files!Next => FilesInv'
<1> SUFFICES ASSUME FilesInv, Files!Next PROVE FilesInv'
  OBVIOUS
<1>0. /\ folders \in Seq(Folder) /\ Len(folders) \in Nat
      /\ DOMAIN folders = 1..Len(folders)
      /\ Len(folders) <= MaxFolders /\ work \in [Workers -> Job]
      /\ parents \subseteq Known
      /\ \A w \in Workers : work[w] \in Job /\ work[w].folder \in Known
                                            /\ work[w].remove \subseteq Known
  BY DEF FilesInv
<1>15. PICK rest \in Job : /\ rest = Files!Resting /\ rest.pc = "rest" /\ rest.folder = 0
                          /\ rest.remove = {}
  <2>1. PICK no \in BOOLEAN : ~no
    OBVIOUS
  <2>2. Files!Resting = [pc |-> "rest", folder |-> 0, remove |-> {}, looked |-> no,
                         overlapped |-> no]
    BY <2>1 DEF Files!Resting, Files!Root
  <2> QED
    BY <2>2 DEF Job
<1>16. Known \subseteq Nat /\ 0 \in Known /\ (folders' = folders => Known' = Known)
  BY <1>0 DEF Known
<1>17. ASSUME NEW w \in Workers, NEW r \in Job, work' = [work EXCEPT ![w] = r],
              UNCHANGED <<folders, drives, answers, parents>>, r.folder \in Known,
              r.remove \subseteq Known, r.pc # "moved",
              r.pc = "moving" /\ r.looked => r.remove = parents
       PROVE  FilesInv'
  <2>1. folders' = folders /\ drives' = drives /\ answers' = answers /\ parents' = parents
    BY <1>17
  <2>2. /\ folders' \in Seq(Folder) /\ Len(folders') <= MaxFolders
        /\ Len(folders) <= Len(folders')
    BY <1>0, <2>1
  <2>3. r.folder \in Known' /\ r.remove \subseteq Known'
    BY <1>16, <1>17, <2>1
  <2> QED
    BY <1>17, <2>1, <2>2, <2>3, WorkerMoves
<1>1. ASSUME NEW w \in Workers, NEW f \in Known, NEW x \in {"absent", "found"},
             work' = [work EXCEPT ![w].pc = x, ![w].folder = f],
             UNCHANGED <<folders, drives, answers, parents>>
      PROVE  FilesInv'
  <2>1. PICK r : r = [work[w] EXCEPT !.pc = x, !.folder = f]
    OBVIOUS
  <2>2. /\ r \in Job /\ r.pc = x /\ r.folder = f /\ r.remove = work[w].remove
        /\ work' = [work EXCEPT ![w] = r]
    <3>1. work[w] \in Job /\ f \in Nat
      BY <1>0, <1>16
    <3>2. r \in Job /\ r.pc = x /\ r.folder = f /\ r.remove = work[w].remove
      BY <2>1, <3>1 DEF Job
    <3>3. work' = [work EXCEPT ![w] = r]
      BY <1>0, <1>1, <2>1, <3>1 DEF Job
    <3> QED
      BY <3>2, <3>3
  <2> QED
    BY <1>0, <1>1, <1>17, <2>2
<1>2. ASSUME NEW w \in Workers, NEW n \in Files!Names, Files!FindFolder(w, n) PROVE FilesInv'
  <2>1. PICK f : /\ f \in IF Files!Live(n) = {} THEN {0} ELSE Files!Live(n)
                 /\ work' = [work EXCEPT ![w].pc = IF f = 0 THEN "absent" ELSE "found",
                                         ![w].folder = f]
    BY <1>2 DEF Files!FindFolder, Files!Root
  <2>2. f \in Known
    BY <1>0, <2>1 DEF Files!Live, Known
  <2> QED
    BY <1>1, <1>2, <2>1, <2>2 DEF Files!FindFolder
<1>3. ASSUME NEW w \in Workers, Files!FindFolderByProperty(w) PROVE FilesInv'
  <2>1. PICK f : /\ f \in IF Files!Tagged = {} THEN {0} ELSE Files!Tagged
                 /\ work' = [work EXCEPT ![w].pc = IF f = 0 THEN "absent" ELSE "found",
                                         ![w].folder = f]
    BY <1>3 DEF Files!FindFolderByProperty, Files!Root
  <2>2. f \in Known
    BY <1>0, <2>1 DEF Files!Tagged, Known
  <2> QED
    BY <1>1, <1>3, <2>1, <2>2 DEF Files!FindFolderByProperty
<1>4. ASSUME NEW w \in Workers, NEW n \in Files!Names, Files!CreateFolder(w, n) PROVE FilesInv'
  <2>1. PICK fate \in Files!Fates, tag \in BOOLEAN :
          /\ folders' = IF fate.done
                          THEN Append(folders, [name |-> n, trashed |-> FALSE, tagged |-> tag])
                          ELSE folders
          /\ work' = [work EXCEPT ![w] = IF fate.reply = "ok"
                                           THEN [work[w] EXCEPT !.pc = "found",
                                                                !.folder = Len(folders) + 1]
                                           ELSE Files!Resting]
    BY <1>4 DEF Files!CreateFolder
  <2>2. Len(folders) < MaxFolders /\ UNCHANGED <<drives, answers, parents>>
    BY <1>4 DEF Files!CreateFolder
  <2>3. PICK new : new = [name |-> n, trashed |-> FALSE, tagged |-> tag]
    OBVIOUS
  <2>4. new \in Folder
    BY <2>3, Zenon DEF Folder
  <2>5. fate.done => /\ folders' \in Seq(Folder) /\ Len(folders') = Len(folders) + 1
    BY <1>0, <2>1, <2>3, <2>4, AppendProperties
  <2>6. ~fate.done => folders' = folders
    BY <2>1
  <2>7. fate.reply = "ok" => fate.done
    BY DEF Files!Fates
  <2>8. /\ folders' \in Seq(Folder) /\ Len(folders') <= MaxFolders
        /\ Len(folders) <= Len(folders')
        /\ Known \subseteq Known'
    BY <1>0, <2>2, <2>5, <2>6, WorkspaceAssumption DEF WorkspaceAssumption, Known
  <2>9. CASE fate.reply = "ok"
    <3>1. PICK r : r = [work[w] EXCEPT !.pc = "found", !.folder = Len(folders) + 1]
      OBVIOUS
    <3>2. /\ r \in Job /\ r.pc = "found" /\ r.folder = Len(folders) + 1
          /\ r.remove = work[w].remove /\ work' = [work EXCEPT ![w] = r]
      <4>1. work[w] \in Job /\ Len(folders) + 1 \in Nat
        BY <1>0
      <4>2. PICK m \in Nat : m = Len(folders) + 1
        BY <4>1
      <4>3. r \in Job /\ r.pc = "found" /\ r.folder = m /\ r.remove = work[w].remove
        BY <3>1, <4>1, <4>2 DEF Job
      <4> QED
        BY <2>1, <2>9, <3>1, <4>2, <4>3
    <3>3. Len(folders) + 1 \in Known'
      BY <1>0, <2>5, <2>7, <2>9 DEF Known
    <3> QED
      BY <1>0, <2>2, <2>8, <3>2, <3>3, WorkerMoves
  <2>10. CASE fate.reply # "ok"
    <3>1. work' = [work EXCEPT ![w] = rest] /\ rest.folder \in Known'
      BY <1>0, <1>15, <2>1, <2>8, <2>10 DEF Known
    <3> QED
      BY <1>15, <2>2, <2>8, <3>1, WorkerMoves
  <2> QED
    BY <2>9, <2>10
<1>5. ASSUME NEW w \in Workers, NEW old \in {{}, {Files!Root}}, Files!MoveDiscover(w, old)
      PROVE  FilesInv'
  <2>0. UNCHANGED <<folders, drives, answers, parents>> /\ work[w].pc = "found"
    BY <1>5 DEF Files!MoveDiscover
  <2>1. PICK no \in BOOLEAN : ~no
    OBVIOUS
  <2>2. PICK rem, look : rem = (IF old = {} THEN parents ELSE old) /\ look = (old = {})
    OBVIOUS
  <2>3. rem \subseteq Known /\ look \in BOOLEAN /\ (look => rem = parents) /\ rem \subseteq Nat
    <3>1. CASE old = {}
      BY <1>0, <1>16, <2>2, <3>1
    <3>2. CASE old = {0} /\ old # {}
      BY <1>0, <1>16, <2>2, <3>2
    <3> QED
      BY <1>5, <3>1, <3>2 DEF Files!Root
  <2>4. CASE work' = [work EXCEPT ![w].pc = "moving", ![w].remove = rem, ![w].looked = look,
                                  ![w].overlapped = FALSE]
    <3>1. PICK r : r = [work[w] EXCEPT !.pc = "moving", !.remove = rem, !.looked = look,
                                       !.overlapped = no]
      OBVIOUS
    <3>2. /\ r \in Job /\ r.pc = "moving" /\ r.folder = work[w].folder /\ r.remove = rem
          /\ r.looked = look /\ work' = [work EXCEPT ![w] = r]
      BY <1>0, <2>1, <2>3, <2>4, <3>1 DEF Job
    <3> QED
      BY <1>0, <1>17, <2>0, <2>3, <3>2
  <2>5. CASE work' = [work EXCEPT ![w] = Files!Resting]
    BY <1>15, <1>16, <1>17, <2>0, <2>5
  <2> QED
    BY <1>5, <2>2, <2>4, <2>5 DEF Files!MoveDiscover
<1>6. ASSUME NEW w \in Workers, Files!MoveUpdate(w) PROVE FilesInv'
  <2>0. UNCHANGED <<folders, drives, answers>> /\ work[w].pc = "moving" /\ Known' = Known
    BY <1>6 DEF Files!MoveUpdate, Known
  <2>1. PICK fate \in Files!Fates, both \in SUBSET ({work[w].folder} \cap work[w].remove) :
          /\ parents' = IF fate.done
                          THEN ((parents \cup {work[w].folder}) \ work[w].remove)
                                 \cup (IF work[w].folder \in work[w].remove THEN both ELSE {})
                          ELSE parents
          /\ work' = [v \in Workers |->
               IF v = w
                 THEN [work[v] EXCEPT !.pc = IF fate.reply = "ok" THEN "moved" ELSE "rest"]
                 ELSE [work[v] EXCEPT !.overlapped = @ \/ fate.done,
                                      !.pc = IF @ = "moved" THEN "rest" ELSE @]]
    BY <1>6 DEF Files!MoveUpdate
  <2>2. fate.done \in BOOLEAN /\ (fate.reply = "ok" => fate.done)
    BY DEF Files!Fates
  <2>3. /\ work'[w].pc = IF fate.reply = "ok" THEN "moved" ELSE "rest"
        /\ work'[w].folder = work[w].folder /\ work'[w].remove = work[w].remove
        /\ work'[w].looked = work[w].looked /\ work'[w].overlapped = work[w].overlapped
        /\ work'[w] \in Job
    BY <1>0, <2>1 DEF Job
  <2>4. ASSUME NEW v \in Workers, v # w
        PROVE  /\ work'[v].pc = IF work[v].pc = "moved" THEN "rest" ELSE work[v].pc
               /\ work'[v].folder = work[v].folder /\ work'[v].remove = work[v].remove
               /\ work'[v].looked = work[v].looked
               /\ work'[v].overlapped <=> work[v].overlapped \/ fate.done
               /\ work'[v] \in Job
    <3>1. work'[v] = [work[v] EXCEPT !.overlapped = work[v].overlapped \/ fate.done,
                                     !.pc = IF work[v].pc = "moved" THEN "rest" ELSE work[v].pc]
      BY <2>1, <2>4
    <3>2. PICK o \in BOOLEAN : o = (work[v].overlapped \/ fate.done)
      OBVIOUS
    <3> QED
      BY <1>0, <3>1, <3>2 DEF Job
  <2>5. work' \in [Workers -> Job]
    <3>1. \A v \in Workers : work'[v] \in Job
      BY <2>3, <2>4
    <3>2. DOMAIN work' = Workers /\ work' = [v \in Workers |-> work'[v]]
      BY <2>1
    <3> QED
      BY <3>1, <3>2
  <2>6. parents' \subseteq Known'
    BY <1>0, <2>0, <2>1
  <2>7. \A v \in Workers : work'[v].folder \in Known' /\ work'[v].remove \subseteq Known'
    BY <1>0, <2>0, <2>3, <2>4
  <2>8. \A v \in Workers : work'[v].pc = "moving" /\ work'[v].looked /\ ~work'[v].overlapped
                             => work'[v].remove = parents'
    <3> SUFFICES ASSUME NEW v \in Workers, work'[v].pc = "moving", work'[v].looked,
                        ~work'[v].overlapped
                 PROVE  work'[v].remove = parents'
      OBVIOUS
    <3>1. v # w
      BY <2>3
    <3>2. ~fate.done /\ ~work[v].overlapped /\ work[v].pc = "moving" /\ work[v].looked
      BY <2>4, <3>1
    <3> QED
      BY <2>1, <2>4, <3>1, <3>2 DEF FilesInv
  <2>9. Files!MoveIsExact'
    <3> SUFFICES ASSUME NEW v \in Workers, work'[v].pc = "moved", work'[v].looked,
                        ~work'[v].overlapped, work'[v].folder \notin work'[v].remove
                 PROVE  parents' = {work'[v].folder}
      BY DEF Files!MoveIsExact
    <3>1. v = w
      BY <2>4
    <3>2. fate.done /\ work[w].remove = parents
      BY <2>0, <2>2, <2>3, <3>1 DEF FilesInv
    <3>3. parents' = (parents \cup {work[w].folder}) \ parents
      BY <2>1, <2>3, <3>1, <3>2
    <3> QED
      BY <2>3, <3>1, <3>2, <3>3
  <2> QED
    BY <1>0, <2>0, <2>5, <2>6, <2>7, <2>8, <2>9
      DEF FilesInv, Files!OneDrivePerRequest
<1>7. ASSUME NEW w \in Workers, Files!Again(w) PROVE FilesInv'
  BY <1>7, <1>15, <1>16, <1>17 DEF Files!Again
<1>8. ASSUME NEW f \in DOMAIN folders, Files!SetAppProperties(f) \/ Files!TrashFile(f)
      PROVE  FilesInv'
  <2>1. PICK yes \in BOOLEAN : yes
    OBVIOUS
  <2>2. \/ folders' = [folders EXCEPT ![f] = [folders[f] EXCEPT !.tagged = yes]]
        \/ folders' = [folders EXCEPT ![f] = [folders[f] EXCEPT !.trashed = yes]]
    BY <1>8, <2>1 DEF Files!SetAppProperties, Files!TrashFile
  <2>3. folders[f] \in Folder
    BY <1>0
  <2>4. /\ [folders[f] EXCEPT !.tagged = yes] \in Folder
        /\ [folders[f] EXCEPT !.trashed = yes] \in Folder
    BY <2>3 DEF Folder
  <2>5. folders' \in Seq(Folder) /\ Len(folders') = Len(folders)
    <3>1. PICK e \in Folder : folders' = [folders EXCEPT ![f] = e]
      BY <2>2, <2>4
    <3>2. f \in 1..Len(folders)
      BY <1>0
    <3> QED
      BY <1>0, <3>1, <3>2, ExceptSeq
  <2>6. UNCHANGED <<drives, answers, parents, work>>
    BY <1>8 DEF Files!SetAppProperties, Files!TrashFile
  <2> QED
    BY <2>5, <2>6 DEF FilesInv, Known, Files!MoveIsExact, Files!OneDrivePerRequest
<1>9. ASSUME NEW q \in Files!Requests, Files!CreateSharedDrive(q) PROVE FilesInv'
  <2>0. /\ drives \in Seq(Files!Requests) /\ UNCHANGED <<folders, parents, work>>
        /\ \A d, e \in DOMAIN drives : drives[d] = drives[e] => d = e
        /\ \A a \in answers : a.drive \in DOMAIN drives /\ drives[a.drive] = a.request
    BY <1>9 DEF FilesInv, Files!CreateSharedDrive, Files!OneDrivePerRequest
  <2>1. drives' = drives \/ (drives' = Append(drives, q) /\ \A d \in DOMAIN drives : drives[d] # q)
    BY <1>9 DEF Files!CreateSharedDrive, Files!DrivesCreate
  <2>2. /\ drives' \in Seq(Files!Requests)
        /\ \A d, e \in DOMAIN drives' : drives'[d] = drives'[e] => d = e
        /\ \A d \in DOMAIN drives : d \in DOMAIN drives' /\ drives'[d] = drives[d]
    <3>1. CASE drives' = drives
      BY <2>0, <3>1
    <3>2. CASE drives' = Append(drives, q) /\ \A d \in DOMAIN drives : drives[d] # q
      <4>1. /\ drives' \in Seq(Files!Requests) /\ Len(drives') = Len(drives) + 1
            /\ drives'[Len(drives) + 1] = q
            /\ \A d \in 1..Len(drives) : drives'[d] = drives[d]
        BY <2>0, <3>2, AppendProperties
      <4>2. /\ DOMAIN drives = 1..Len(drives) /\ Len(drives) \in Nat
            /\ DOMAIN drives' = 1..(Len(drives) + 1)
        BY <2>0, <4>1
      <4> QED
        BY <2>0, <3>2, <4>1, <4>2
    <3> QED
      BY <2>1, <3>1, <3>2
  <2>3. \/ answers' = answers
        \/ \E d \in DOMAIN drives' : /\ drives'[d] = q
                                     /\ answers' = answers \cup {[request |-> q, drive |-> d]}
    BY <1>9 DEF Files!CreateSharedDrive
  <2>4. \A a \in answers' : a.drive \in DOMAIN drives' /\ drives'[a.drive] = a.request
    BY <2>0, <2>2, <2>3
  <2>5. Files!OneDrivePerRequest'
    BY <2>2, <2>4 DEF Files!OneDrivePerRequest
  <2> QED
    BY <2>0, <2>2, <2>5 DEF FilesInv, Known, Files!MoveIsExact
<1> QED
  BY <1>2, <1>3, <1>4, <1>5, <1>6, <1>7, <1>8, <1>9 DEF Files!Next

\* It is what the run asks of the files.
LEMMA FilesSafe == FilesInv => FilesSound
<1> SUFFICES ASSUME FilesInv PROVE FilesSound
  OBVIOUS
<1>1. Known = {Files!Root} \cup DOMAIN folders
  BY DEF FilesInv, Known, Files!Root
<1>2. Files!TypeOK
  BY <1>1 DEF FilesInv, Files!TypeOK, Job
<1> QED
  BY <1>2 DEF FilesInv, FilesSound, Files!Sound

\* A step of another part keeps it.
LEMMA FilesStays == FilesInv /\ UNCHANGED ofFiles => FilesInv'
  BY DEF ofFiles, FilesInv, Known, Files!MoveIsExact, Files!OneDrivePerRequest

\* MoveFile, EnsureFolder, CreateSharedDrive: for every number of workers and
\* folders, a file whose move nobody overtook is in exactly the folder it was
\* moved to, and a request that is repeated after an error or an answer makes
\* no second Shared Drive and is answered with the first.
THEOREM FilesAreSound == Spec => []FilesSound
<1>1. Init => FilesInv
  BY FilesInit DEF Init
<1>2. FilesInv /\ [Next]_vars => FilesInv'
  BY FilesNext, FilesStays DEF Next, vars
<1>3. FilesInv => FilesSound
  BY FilesSafe
<1> QED
  BY <1>1, <1>2, <1>3, PTL DEF Spec
-----------------------------------------------------------------------------
\* The configuration keys.
Keyed == {"k1", "k2"}

\* Where a caller of the runner is.
Stage == [pc : {"idle", "set", "write", "read"}, n : 0..2, next : Nat,
          out : Seq(Operators), runs : Nat]

\* The stack selected in directory d is one of the directory's callers'.
Theirs(d) == selected[d] \in Operators /\ Stacks!Dir(selected[d]) = d

\* Whatever is selected in a directory is the stack of one of its callers.
Selects ==
  /\ selected \in [Operators -> Operators \cup {"none"}]
  /\ \A d \in Operators : selected[d] = "none" \/ Theirs(d)

\* GetRawOutputs is at its file.
Writing(c) == caller[c].pc \in {"write", "read"}

\* The steps of a command come in their order, and SetConfigs has a stack to
\* work on.
Phases ==
  /\ caller \in [Operators -> Stage]
  /\ \A c \in Operators :
       /\ caller[c].pc \in {"idle", "set"} => caller[c].n = 0
       /\ caller[c].pc = "write" => caller[c].n < 2
       /\ caller[c].pc = "read" => caller[c].n = 2
       /\ Writing(c) => Len(caller[c].out) = 1
       /\ caller[c].pc = "set" => Theirs(Stacks!Dir(c))

\* SetConfigs is just behind the last key that it has set.
Configured ==
  /\ config \in [Operators -> Seq(Keyed)]
  /\ \A c \in Operators \ Shared :
       caller[c].pc = "set" /\ caller[c].next # 1
         => /\ caller[c].next \in 2..3 /\ Len(config[c]) # 0
            /\ config[c][Len(config[c])] = <<"k1", "k2">>[caller[c].next - 1]
  /\ \A c \in Operators : caller[c].pc = "set" => caller[c].next # 0
  /\ Stacks!InOrder

\* A call of GetRawOutputs that nobody overlapped has written exactly the first
\* parts of its stack's outputs; two calls on one file overlap.
Answers ==
  /\ file = [d \in Operators |-> file[d]]
  /\ history = [alone |-> history.alone, hit |-> history.hit, got |-> history.got]
  /\ \A c, d \in Operators : c # d /\ Stacks!LogDir(c) = Stacks!LogDir(d) /\ Writing(c) /\ Writing(d)
                               => c \notin history.alone
  /\ \A c \in Operators : c \in history.alone /\ Writing(c)
       => /\ caller[c].next = caller[c].n + 1
          /\ file[Stacks!LogDir(c)] = [i \in 1..caller[c].n |-> Stacks!Chunk(caller[c].out[1], i)]
  /\ Stacks!OwnAnswer

\* pulumi/runner: what every step keeps.
StacksInv == Selects /\ Phases /\ Configured /\ Answers /\ Stacks!OwnStack

\* Only callers that share it have the same directory.
LEMMA Directories ==
  /\ \A c \in Operators : Stacks!Dir(c) \in Operators /\ Stacks!LogDir(c) \in Operators
  /\ \A c, s \in Operators : Stacks!Dir(c) = Stacks!Dir(s) => c = s \/ {c, s} \subseteq Shared
<1>1. /\ Shared # {} => (CHOOSE s \in Shared : TRUE) \in Shared
      /\ Logging # {} => (CHOOSE s \in Logging : TRUE) \in Logging
  OBVIOUS
<1> QED
  BY <1>1, WorkspaceAssumption DEF WorkspaceAssumption, Stacks!Dir, Stacks!LogDir

\* It holds at first.
LEMMA StacksInit == Stacks!Init => StacksInv
<1> SUFFICES ASSUME Stacks!Init PROVE StacksInv
  OBVIOUS
<1>1. \A c \in Operators : /\ caller[c] \in Stage /\ caller[c].pc = "idle" /\ caller[c].n = 0
  BY DEF Stacks!Init, Stacks!Idle, Stage
<1>2. Selects
  BY DEF Stacks!Init, Selects
<1>3. Phases
  BY <1>1 DEF Stacks!Init, Phases, Writing
<1>4. Configured
  BY <1>1 DEF Stacks!Init, Configured, Stacks!InOrder
<1>5. Answers
  BY <1>1 DEF Stacks!Init, Answers, Writing, Stacks!OwnAnswer
<1>6. Stacks!OwnStack
  BY DEF Stacks!Init, Stacks!OwnStack
<1> QED
  BY <1>2, <1>3, <1>4, <1>5, <1>6 DEF StacksInv

\* Caller c goes on as r, outside GetRawOutputs.
LEMMA Elsewhere ==
  ASSUME StacksInv, NEW c \in Operators, NEW r \in Stage, caller' = [caller EXCEPT ![c] = r],
         r.pc \in {"idle", "set"}, r.n = 0, file' = file,
         history'.alone = history.alone, history'.got = history.got,
         history' = [alone |-> history'.alone, hit |-> history'.hit, got |-> history'.got]
  PROVE  Answers'
<1>1. \A d \in Operators : caller'[d] = IF d = c THEN r ELSE caller[d]
  BY DEF StacksInv, Phases
<1>2. ~Writing(c)' /\ \A d \in Operators : d # c => (Writing(d)' <=> Writing(d))
  BY <1>1 DEF Writing
<1>3. Stacks!OwnAnswer'
  BY DEF StacksInv, Answers, Stacks!OwnAnswer
<1>4. file' = [d \in Operators |-> file'[d]]
  BY DEF StacksInv, Answers
<1>5. \A a, d \in Operators : a # d /\ Stacks!LogDir(a) = Stacks!LogDir(d) /\ Writing(a)' /\ Writing(d)'
                                => a \notin history'.alone
  BY <1>2 DEF StacksInv, Answers
<1>6. \A d \in Operators : d \in history'.alone /\ Writing(d)'
       => /\ caller'[d].next = caller'[d].n + 1
          /\ file'[Stacks!LogDir(d)] = [i \in 1..caller'[d].n |-> Stacks!Chunk(caller'[d].out[1], i)]
  BY <1>1, <1>2 DEF StacksInv, Answers
<1> QED
  BY <1>3, <1>4, <1>5, <1>6 DEF Answers, Stacks!LogDir

\* Caller c goes on as r; no stack's configuration changes.
LEMMA Untouched ==
  ASSUME StacksInv, NEW c \in Operators, NEW r \in Stage, caller' = [caller EXCEPT ![c] = r],
         r.pc = "set" => r.next = 1, config' = config
  PROVE  Configured'
<1>1. \A d \in Operators : caller'[d] = IF d = c THEN r ELSE caller[d]
  BY DEF StacksInv, Phases
<1> QED
  BY <1>1 DEF StacksInv, Configured, Stacks!InOrder

\* Caller c goes on as r; a caller that sets keys keeps a stack to set them on.
LEMMA Proceeds ==
  ASSUME StacksInv, NEW c \in Operators, NEW r \in Stage, caller' = [caller EXCEPT ![c] = r],
         \A d \in Operators : Theirs(d) => Theirs(d)',
         r.pc \in {"idle", "set"} => r.n = 0, r.pc = "write" => r.n < 2, r.pc = "read" => r.n = 2,
         r.pc \in {"write", "read"} => Len(r.out) = 1,
         r.pc = "set" => Theirs(Stacks!Dir(c))
  PROVE  Phases'
<1>1. \A d \in Operators : caller'[d] = IF d = c THEN r ELSE caller[d]
  BY DEF StacksInv, Phases
<1>2. caller' \in [Operators -> Stage]
  BY DEF StacksInv, Phases
<1>3. \A d \in Operators : caller'[d].pc = "set" => Theirs(Stacks!Dir(d))'
  <2>1. ASSUME NEW d \in Operators, caller'[d].pc = "set" PROVE Theirs(Stacks!Dir(d))'
    <3>1. Theirs(Stacks!Dir(d)) /\ Stacks!Dir(d) \in Operators
      BY <1>1, <2>1, Directories DEF StacksInv, Phases
    <3>2. PICK e \in Operators : e = Stacks!Dir(d) /\ e = Stacks!Dir(d)'
      BY <3>1 DEF Stacks!Dir
    <3>3. Theirs(e)'
      BY <3>1, <3>2
    <3> QED
      BY <3>2, <3>3 DEF Theirs
  <2> QED
    BY <2>1
<1>4. \A d \in Operators :
       /\ caller'[d].pc \in {"idle", "set"} => caller'[d].n = 0
       /\ caller'[d].pc = "write" => caller'[d].n < 2
       /\ caller'[d].pc = "read" => caller'[d].n = 2
       /\ Writing(d)' => Len(caller'[d].out) = 1
  BY <1>1 DEF StacksInv, Phases, Writing
<1> QED
  BY <1>2, <1>3, <1>4 DEF Phases

\* The directory has another or the same stack selected.
LEMMA Chosen ==
  ASSUME StacksInv, NEW c \in Operators,
         selected' = selected \/ selected' = [selected EXCEPT ![Stacks!Dir(c)] = c]
  PROVE  Selects' /\ \A d \in Operators : Theirs(d) => Theirs(d)'
<1>1. PICK e \in Operators : e = Stacks!Dir(c)
  BY Directories
<1>2. CASE selected' = selected
  BY <1>2 DEF StacksInv, Selects, Theirs
<1>3. CASE selected' = [selected EXCEPT ![Stacks!Dir(c)] = c]
  <2>1. selected' = [selected EXCEPT ![e] = c]
    BY <1>1, <1>3
  <2>2. /\ selected' \in [Operators -> Operators \cup {"none"}]
        /\ \A d \in Operators : selected'[d] = IF d = e THEN c ELSE selected[d]
    BY <2>1 DEF StacksInv, Selects
  <2>3. \A d \in Operators : d # e => (Theirs(d) <=> Theirs(d)')
    BY <2>2 DEF Theirs
  <2>4. Theirs(e)'
    BY <1>1, <2>2 DEF Theirs
  <2> QED
    BY <2>2, <2>3, <2>4 DEF StacksInv, Selects
<1> QED
  BY <1>2, <1>3

\* A caller reaches the stack that is selected in its directory, or its own.
LEMMA Reaches ==
  ASSUME StacksInv, NEW c \in Operators, NEW s, s = c \/ (s \in Operators /\ Stacks!Dir(s) = Stacks!Dir(c)),
         history' = [history EXCEPT !.hit = @ \cup {<<c, s>>}]
  PROVE  /\ Stacks!OwnStack' /\ history'.alone = history.alone
         /\ history'.got = history.got
         /\ history' = [alone |-> history'.alone, hit |-> history'.hit, got |-> history'.got]
<1>1. history = [alone |-> history.alone, hit |-> history.hit, got |-> history.got]
  BY DEF StacksInv, Answers
<1>2. history' = [alone |-> history.alone, hit |-> history.hit \cup {<<c, s>>}, got |-> history.got]
  BY <1>1
<1>3. c # s => {c, s} \subseteq Shared
  BY Directories
<1>4. \A h \in history'.hit : h[1] # h[2] => {h[1], h[2]} \subseteq Shared
  BY <1>2, <1>3 DEF StacksInv, Stacks!OwnStack
<1> QED
  BY <1>2, <1>4 DEF Stacks!OwnStack

\* What a caller's record is when it begins a command.
LEMMA Begun ==
  ASSUME StacksInv, NEW c \in Operators, NEW pc \in {"idle", "set"}, Stacks!Begins(c), Stacks!Begin(c, pc)
  PROVE  \E r \in Stage : /\ caller' = [caller EXCEPT ![c] = r] /\ r.pc = pc /\ r.n = 0
                          /\ r.next = 1
<1>1. PICK r : r = [caller[c] EXCEPT !.pc = pc, !.runs = @ + 1, !.next = 1]
  OBVIOUS
<1>2. caller[c] \in Stage /\ caller[c].n = 0 /\ caller \in [Operators -> Stage]
  BY DEF StacksInv, Phases, Stacks!Begins, Stacks!At
<1>3. r \in Stage /\ r.pc = pc /\ r.n = 0 /\ r.next = 1
  <2>1. PICK more \in Nat : more = caller[c].runs + 1
    BY <1>2 DEF Stage
  <2>2. r = [caller[c] EXCEPT !.pc = pc, !.runs = more, !.next = 1]
    BY <1>1, <2>1
  <2> QED
    BY <1>2, <2>2 DEF Stage
<1>4. caller' = [caller EXCEPT ![c] = r]
  BY <1>1, <1>2 DEF Stacks!Begin
<1> QED
  BY <1>3, <1>4

\* Every command of every caller keeps it.
LEMMA StacksNext == StacksInv /\ Stacks!Next => StacksInv'
<1> SUFFICES ASSUME StacksInv, NEW c \in Operators,
                    \/ Stacks!Select(c) \/ Stacks!SetConfigs(c) \/ Stacks!SetConfig(c)
                    \/ Stacks!Up(c, TRUE) \/ Stacks!Up(c, FALSE) \/ Stacks!Destroy(c)
                    \/ Stacks!Open(c) \/ Stacks!Write(c) \/ Stacks!Read(c)
             PROVE  StacksInv'
  BY DEF Stacks!Next
<1>0. /\ Selects /\ Phases /\ Configured /\ Answers /\ Stacks!OwnStack
      /\ caller \in [Operators -> Stage] /\ caller[c] \in Stage
      /\ history = [alone |-> history.alone, hit |-> history.hit, got |-> history.got]
      /\ Stacks!Dir(c) \in Operators /\ Stacks!LogDir(c) \in Operators
  BY Directories DEF StacksInv, Phases, Answers
<1>1. selected[Stacks!Dir(c)] # "none" => Theirs(Stacks!Dir(c))
  BY <1>0 DEF Selects
<1>2. Theirs(Stacks!Dir(c)) => /\ selected[Stacks!Dir(c)] \in Operators
                               /\ Stacks!Dir(selected[Stacks!Dir(c)]) = Stacks!Dir(c)
  BY DEF Theirs
<1>3. CASE Stacks!Select(c)
  <2>1. PICK r \in Stage : caller' = [caller EXCEPT ![c] = r] /\ r.pc = "idle" /\ r.n = 0
    BY <1>3, Begun DEF Stacks!Select
  <2>2. /\ UNCHANGED <<config, deployed, file, history>>
        /\ selected' = [selected EXCEPT ![Stacks!Dir(c)] = c]
    BY <1>3 DEF Stacks!Select
  <2>3. Selects' /\ \A d \in Operators : Theirs(d) => Theirs(d)'
    BY <2>2, Chosen
  <2>4. Phases'
    BY <2>1, <2>3, Proceeds
  <2>5. Configured'
    BY <2>1, <2>2, Untouched
  <2>6. Answers'
    BY <1>0, <2>1, <2>2, Elsewhere
  <2>7. Stacks!OwnStack'
    BY <1>0, <2>2 DEF Stacks!OwnStack
  <2> QED
    BY <2>3, <2>4, <2>5, <2>6, <2>7 DEF StacksInv
<1>4. ASSUME selected' = selected
      PROVE  Selects' /\ \A d \in Operators : Theirs(d) => Theirs(d)'
  BY <1>4, Chosen
<1>5. CASE Stacks!SetConfigs(c)
  <2>1. PICK r \in Stage : caller' = [caller EXCEPT ![c] = r] /\ r.pc = "set" /\ r.n = 0 /\ r.next = 1
    BY <1>5, Begun DEF Stacks!SetConfigs
  <2>2. UNCHANGED <<selected, config, deployed, file, history>> /\ Theirs(Stacks!Dir(c))
    BY <1>1, <1>5 DEF Stacks!SetConfigs
  <2>3. Selects' /\ \A d \in Operators : Theirs(d) => Theirs(d)'
    BY <1>4, <2>2
  <2>4. Phases'
    BY <2>1, <2>2, <2>3, Proceeds
  <2>5. Configured'
    BY <2>1, <2>2, Untouched
  <2>6. Answers'
    BY <1>0, <2>1, <2>2, Elsewhere
  <2>7. Stacks!OwnStack'
    BY <1>0, <2>2 DEF Stacks!OwnStack
  <2> QED
    BY <2>3, <2>4, <2>5, <2>6, <2>7 DEF StacksInv
<1>6. ASSUME NEW s, s = c \/ (s \in Operators /\ Stacks!Dir(s) = Stacks!Dir(c)),
             Stacks!Begins(c), Stacks!Begin(c, "idle"),
             history' = [history EXCEPT !.hit = @ \cup {<<c, s>>}],
             UNCHANGED <<selected, config, file>>
      PROVE  StacksInv'
  <2>1. PICK r \in Stage : caller' = [caller EXCEPT ![c] = r] /\ r.pc = "idle" /\ r.n = 0
    BY <1>6, Begun
  <2>2. /\ Stacks!OwnStack' /\ history'.alone = history.alone
        /\ history'.got = history.got
        /\ history' = [alone |-> history'.alone, hit |-> history'.hit, got |-> history'.got]
    BY <1>6, Reaches
  <2>3. Selects' /\ \A d \in Operators : Theirs(d) => Theirs(d)'
    BY <1>4, <1>6
  <2>4. Phases'
    BY <2>1, <2>3, Proceeds
  <2>5. Configured'
    BY <1>6, <2>1, Untouched
  <2>6. Answers'
    BY <1>6, <2>1, <2>2, Elsewhere
  <2> QED
    BY <2>2, <2>3, <2>4, <2>5, <2>6 DEF StacksInv
<1>7. CASE Stacks!Up(c, TRUE)
  BY <1>6, <1>7 DEF Stacks!Up
<1>8. CASE Stacks!Up(c, FALSE)
  BY <1>1, <1>2, <1>6, <1>8 DEF Stacks!Up
<1>9. CASE Stacks!Destroy(c)
  BY <1>1, <1>2, <1>6, <1>9 DEF Stacks!Destroy
<1>10. CASE Stacks!SetConfig(c)
  <2>0. caller[c].pc = "set" /\ UNCHANGED <<selected, deployed, file>> /\ Theirs(Stacks!Dir(c))
        /\ caller[c].n = 0
    BY <1>0, <1>10 DEF Stacks!SetConfig, Stacks!At, Phases
  <2>1. Selects' /\ \A d \in Operators : Theirs(d) => Theirs(d)'
    BY <1>4, <2>0
  <2>2. CASE Stacks!Goto(c, "idle") /\ UNCHANGED <<config, history>>
    <3>1. PICK r : r = [caller[c] EXCEPT !.pc = "idle"]
      OBVIOUS
    <3>2. r \in Stage /\ r.pc = "idle" /\ r.n = 0 /\ caller' = [caller EXCEPT ![c] = r]
      BY <1>0, <2>0, <2>2, <3>1 DEF Stage, Stacks!Goto
    <3>3. Phases'
      BY <2>1, <3>2, Proceeds
    <3>4. Configured'
      BY <2>2, <3>2, Untouched
    <3>5. Answers'
      BY <1>0, <2>0, <2>2, <3>2, Elsewhere
    <3>6. Stacks!OwnStack'
      BY <1>0, <2>2 DEF Stacks!OwnStack
    <3> QED
      BY <2>1, <3>3, <3>4, <3>5, <3>6 DEF StacksInv
  <2>3. CASE /\ caller[c].next <= Len(<<"k1", "k2">>)
             /\ config' = [config EXCEPT ![selected[Stacks!Dir(c)]]
                                           = Append(@, <<"k1", "k2">>[caller[c].next])]
             /\ history' = [history EXCEPT !.hit = @ \cup {<<c, selected[Stacks!Dir(c)]>>}]
             /\ caller' = [caller EXCEPT ![c].next = @ + 1]
    <3>1. PICK s \in Operators : s = selected[Stacks!Dir(c)] /\ Stacks!Dir(s) = Stacks!Dir(c)
      BY <1>2, <2>0
    <3>2. PICK r : r = [caller[c] EXCEPT !.next = @ + 1]
      OBVIOUS
    <3>3. /\ r \in Stage /\ r.pc = "set" /\ r.n = 0 /\ r.next = caller[c].next + 1
          /\ caller' = [caller EXCEPT ![c] = r]
      <4>1. PICK more \in Nat : more = caller[c].next + 1
        BY <1>0 DEF Stage
      <4>2. r = [caller[c] EXCEPT !.next = more]
        BY <3>2, <4>1
      <4>3. r \in Stage /\ r.pc = "set" /\ r.n = 0 /\ r.next = more
        BY <1>0, <2>0, <4>2 DEF Stage
      <4> QED
        BY <1>0, <2>3, <3>2, <4>1, <4>3
    <3>4. /\ Stacks!OwnStack' /\ history'.alone = history.alone
          /\ history'.got = history.got
          /\ history' = [alone |-> history'.alone, hit |-> history'.hit, got |-> history'.got]
      BY <2>3, <3>1, Reaches
    <3>5. Phases'
      BY <2>0, <2>1, <3>3, Proceeds
    <3>6. Answers'
      BY <2>0, <3>3, <3>4, Elsewhere
    <3>7. Configured'
      <4>1. PICK m \in 1..2 : m = caller[c].next
        <5>1. caller[c].next \in Nat /\ caller[c].next # 0 /\ Len(<<"k1", "k2">>) = 2
          BY <1>0, <2>0 DEF Configured, Stage
        <5>2. PICK q \in Nat : q = caller[c].next
          BY <5>1
        <5> QED
          BY <2>3, <5>1, <5>2
      <4>2. PICK k \in Keyed : k = <<"k1", "k2">>[m] /\ (m = 1 => k = "k1") /\ (m = 2 => k = "k2")
        BY <4>1 DEF Keyed
      <4>3. config' = [config EXCEPT ![s] = Append(config[s], k)]
        BY <2>3, <3>1, <4>1, <4>2
      <4>4. /\ config \in [Operators -> Seq(Keyed)] /\ config[s] \in Seq(Keyed)
            /\ Len(config[s]) \in Nat
        BY <1>0 DEF Configured
      <4>5. PICK l \in Nat : l = Len(config[s])
        BY <4>4
      <4>6. PICK new \in Seq(Keyed) : /\ new = Append(config[s], k) /\ Len(new) = l + 1
                                      /\ new[l + 1] = k
                                      /\ \A i \in 1..l : new[i] = config[s][i]
        <5>1. /\ Append(config[s], k) \in Seq(Keyed)
              /\ Len(Append(config[s], k)) = Len(config[s]) + 1
              /\ Append(config[s], k)[Len(config[s]) + 1] = k
              /\ \A i \in 1..Len(config[s]) : Append(config[s], k)[i] = config[s][i]
          BY <4>4, AppendProperties
        <5> QED
          BY <4>5, <5>1
      <4>7. /\ config' \in [Operators -> Seq(Keyed)]
            /\ \A t \in Operators : config'[t] = IF t = s THEN new ELSE config[t]
        BY <4>3, <4>4, <4>6
      <4>8. s \notin Shared \/ c \notin Shared => s = c
        BY <3>1, Directories
      <4>9. \A d \in Operators : caller'[d] = IF d = c THEN r ELSE caller[d]
        BY <1>0, <3>3
      <4>10. ASSUME NEW d \in Operators \ Shared, caller'[d].pc = "set", caller'[d].next # 1
             PROVE  /\ caller'[d].next \in 2..3 /\ Len(config'[d]) # 0
                    /\ config'[d][Len(config'[d])] = <<"k1", "k2">>[caller'[d].next - 1]
        <5>1. CASE d = c
          <6>1. s = c /\ config'[d] = new /\ caller'[d].next = m + 1
            BY <3>3, <4>1, <4>7, <4>8, <4>9, <5>1
          <6> QED
            BY <4>1, <4>2, <4>5, <4>6, <6>1
        <5>2. CASE d # c
          <6>1. d # s
            BY <4>8, <4>10, <5>2
          <6> QED
            BY <1>0, <4>7, <4>9, <4>10, <5>2, <6>1 DEF Configured
        <5> QED
          BY <5>1, <5>2
      <4>11. Stacks!InOrder'
        <5> SUFFICES ASSUME NEW t \in Operators \ Shared, NEW i \in DOMAIN config'[t]
                     PROVE  \/ config'[t][i] = <<"k1", "k2">>[1]
                            \/ i > 1 /\ \E j \in 2..Len(<<"k1", "k2">>) :
                                 /\ config'[t][i] = <<"k1", "k2">>[j]
                                 /\ config'[t][i - 1] = <<"k1", "k2">>[j - 1]
          BY DEF Stacks!InOrder
        <5>1. CASE t # s
          <6>1. config'[t] = config[t] /\ i \in DOMAIN config[t]
            BY <4>7, <5>1
          <6>2. \/ config[t][i] = <<"k1", "k2">>[1]
                \/ i > 1 /\ \E j \in 2..Len(<<"k1", "k2">>) :
                     /\ config[t][i] = <<"k1", "k2">>[j]
                     /\ config[t][i - 1] = <<"k1", "k2">>[j - 1]
            BY <1>0, <6>1 DEF Configured, Stacks!InOrder
          <6> QED
            BY <6>1, <6>2
        <5>2. CASE t = s
          <6>1. config'[t] = new /\ s = c /\ s \notin Shared /\ i \in 1..(l + 1)
            BY <4>6, <4>7, <4>8, <5>2
          <6>2. CASE i <= l
            <7>1. i \in DOMAIN config[s] /\ new[i] = config[s][i] /\ (i > 1 => new[i - 1] = config[s][i - 1])
              BY <4>4, <4>5, <4>6, <6>1, <6>2
            <7>2. \/ config[s][i] = <<"k1", "k2">>[1]
                  \/ i > 1 /\ \E j \in 2..Len(<<"k1", "k2">>) :
                       /\ config[s][i] = <<"k1", "k2">>[j]
                       /\ config[s][i - 1] = <<"k1", "k2">>[j - 1]
              BY <1>0, <6>1, <7>1 DEF Configured, Stacks!InOrder
            <7> QED
              BY <6>1, <7>1, <7>2
          <6>3. CASE i = l + 1
            <7>1. CASE m = 1
              BY <4>2, <4>6, <6>1, <6>3, <7>1
            <7>2. CASE m = 2
              <8>1. l # 0 /\ config[s][l] = "k1"
                <9>1. /\ c \in Operators \ Shared /\ caller[c].pc = "set"
                      /\ caller[c].next # 1
                  BY <2>0, <4>1, <6>1, <7>2
                <9>2. /\ Len(config[c]) # 0
                      /\ config[c][Len(config[c])] = <<"k1", "k2">>[caller[c].next - 1]
                  BY <1>0, <9>1 DEF Configured
                <9>3. caller[c].next - 1 = 1
                  BY <4>1, <7>2
                <9> QED
                  BY <4>5, <6>1, <9>2, <9>3
              <8>2. new[l] = "k1" /\ i > 1 /\ i - 1 = l
                BY <4>5, <4>6, <6>3, <8>1
              <8> QED
                BY <4>2, <4>6, <6>1, <6>3, <7>2, <8>2
            <7> QED
              BY <4>1, <7>1, <7>2
          <6> QED
            BY <4>5, <6>1, <6>2, <6>3
        <5> QED
          BY <5>1, <5>2
      <4>12. \A d \in Operators : caller'[d].pc = "set" => caller'[d].next # 0
        BY <1>0, <3>3, <4>1, <4>9 DEF Configured
      <4> QED
        BY <4>7, <4>10, <4>11, <4>12 DEF Configured
    <3> QED
      BY <2>1, <3>4, <3>5, <3>6, <3>7 DEF StacksInv
  <2> QED
    BY <1>10, <2>2, <2>3 DEF Stacks!SetConfig
<1>11. CASE Stacks!Open(c)
  <2>0. /\ caller[c].pc = "idle" /\ caller[c].n = 0
        /\ UNCHANGED <<selected, config, deployed>>
        /\ selected[Stacks!Dir(c)] \in Operators
    BY <1>0, <1>1, <1>2, <1>11 DEF Stacks!Open, Stacks!Begins, Stacks!At, Phases
  <2>1. PICK r : r = [caller[c] EXCEPT !.pc = "write", !.runs = @ + 1, !.next = 1,
                                       !.out = <<selected[Stacks!Dir(c)]>>]
    OBVIOUS
  <2>2. /\ r \in Stage /\ r.pc = "write" /\ r.n = 0 /\ r.next = 1 /\ Len(r.out) = 1
        /\ caller' = [caller EXCEPT ![c] = r]
    <3>1. PICK more \in Nat : more = caller[c].runs + 1
      BY <1>0 DEF Stage
    <3>2. PICK o \in Seq(Operators) : o = <<selected[Stacks!Dir(c)]>> /\ Len(o) = 1
      <4>1. PICK x \in Operators : x = selected[Stacks!Dir(c)]
        BY <2>0
      <4>2. <<x>> \in Seq(Operators) /\ Len(<<x>>) = 1
        OBVIOUS
      <4> QED
        BY <4>1, <4>2
    <3>3. r = [caller[c] EXCEPT !.pc = "write", !.runs = more, !.next = 1, !.out = o]
      BY <2>1, <3>1, <3>2
    <3>4. r \in Stage /\ r.pc = "write" /\ r.n = 0 /\ r.next = 1 /\ r.out = o
      BY <1>0, <2>0, <3>3 DEF Stage
    <3>5. caller' = [caller EXCEPT ![c] = r]
      BY <1>0, <1>11, <2>1 DEF Stacks!Open
    <3> QED
      BY <3>2, <3>4, <3>5
  <2>3. Selects' /\ \A d \in Operators : Theirs(d) => Theirs(d)'
    BY <1>4, <2>0
  <2>4. Phases'
    <3>1. 0 < 2
      OBVIOUS
    <3> QED
      BY <2>2, <2>3, <3>1, Proceeds
  <2>5. Configured'
    BY <2>0, <2>2, Untouched
  <2>6. PICK solo : solo = IF Stacks!Busy(c) = {} THEN history.alone \cup {c}
                                         ELSE history.alone \ (Stacks!Busy(c) \cup {c})
    OBVIOUS
  <2>7. history' = [alone |-> solo, hit |-> history.hit, got |-> history.got]
    BY <1>0, <1>11, <2>6 DEF Stacks!Open
  <2>8. PICK e \in Operators : e = Stacks!LogDir(c)
    BY <1>0
  <2>9. file' = [file EXCEPT ![e] = <<>>] /\ file = [d \in Operators |-> file[d]]
    BY <1>0, <1>11, <2>8 DEF Stacks!Open, Answers
  <2>10. Answers'
    <3>1. \A d \in Operators : caller'[d] = IF d = c THEN r ELSE caller[d]
      BY <1>0, <2>2
    <3>2. \A d \in Operators : file'[d] = IF d = e THEN <<>> ELSE file[d]
      BY <2>9
    <3>3. \A d \in Operators \ {c} : /\ Writing(d)' <=> Writing(d)
                                     /\ d \in solo => d \in history.alone
                                     /\ d \in solo /\ Stacks!LogDir(d) = e => ~Writing(d)
      BY <2>6, <2>8, <3>1 DEF Writing, Stacks!Busy
    <3>4. c \in solo => \A d \in Operators \ {c} : Stacks!LogDir(d) = e => ~Writing(d)
      BY <2>6, <2>8 DEF Writing, Stacks!Busy
    <3>5. \A a, d \in Operators : a # d /\ Stacks!LogDir(a) = Stacks!LogDir(d) /\ Writing(a)' /\ Writing(d)'
                                    => a \notin solo
      BY <1>0, <2>8, <3>3, <3>4 DEF Answers
    <3>6. ASSUME NEW d \in Operators, d \in solo, Writing(d)'
          PROVE  /\ caller'[d].next = caller'[d].n + 1
                 /\ file'[Stacks!LogDir(d)] = [i \in 1..caller'[d].n |-> Stacks!Chunk(caller'[d].out[1], i)]
      <4>1. CASE d = c
        <5>1. caller'[d].next = 1 /\ caller'[d].n = 0 /\ file'[Stacks!LogDir(d)] = <<>>
          BY <2>2, <2>8, <3>1, <3>2, <4>1
        <5>2. [i \in 1..0 |-> Stacks!Chunk(caller'[d].out[1], i)] = <<>>
          OBVIOUS
        <5> QED
          BY <5>1, <5>2
      <4>2. CASE d # c
        <5>1. /\ Stacks!LogDir(d) # e /\ d \in history.alone /\ Writing(d)
              /\ Stacks!LogDir(d) \in Operators
          BY <3>3, <3>6, <4>2, Directories
        <5>2. caller'[d] = caller[d] /\ file'[Stacks!LogDir(d)] = file[Stacks!LogDir(d)]
          BY <3>1, <3>2, <4>2, <5>1
        <5>3. /\ caller[d].next = caller[d].n + 1
              /\ file[Stacks!LogDir(d)] = [i \in 1..caller[d].n |-> Stacks!Chunk(caller[d].out[1], i)]
          BY <1>0, <5>1 DEF Answers
        <5> QED
          BY <5>2, <5>3
      <4> QED
        BY <4>1, <4>2
    <3>7. Stacks!OwnAnswer'
      BY <1>0, <2>7 DEF Answers, Stacks!OwnAnswer
    <3>8. file' = [d \in Operators |-> file'[d]]
      BY <2>9
    <3>9. /\ history'.alone = solo
          /\ history' = [alone |-> history'.alone, hit |-> history'.hit, got |-> history'.got]
      BY <2>7
    <3> QED
      BY <3>5, <3>6, <3>7, <3>8, <3>9 DEF Answers, Stacks!LogDir
  <2>11. Stacks!OwnStack'
    BY <1>0, <2>7 DEF Stacks!OwnStack
  <2> QED
    BY <2>3, <2>4, <2>5, <2>10, <2>11 DEF StacksInv
<1>12. ASSUME caller' = [caller EXCEPT ![c].pc = "idle", ![c].n = 0, ![c].out = <<>>],
              UNCHANGED <<selected, config, file>>
       PROVE  \E r \in Stage : /\ caller' = [caller EXCEPT ![c] = r] /\ r.pc = "idle" /\ r.n = 0
                               /\ Selects' /\ Phases' /\ Configured'
  <2>1. PICK r : r = [caller[c] EXCEPT !.pc = "idle", !.n = 0, !.out = <<>>]
    OBVIOUS
  <2>2. r \in Stage /\ r.pc = "idle" /\ r.n = 0 /\ caller' = [caller EXCEPT ![c] = r]
    <3>1. PICK o \in Seq(Operators) : o = <<>>
      <4>1. <<>> \in Seq(Operators)
        OBVIOUS
      <4> QED
        BY <4>1
    <3>2. r = [caller[c] EXCEPT !.pc = "idle", !.n = 0, !.out = o]
      BY <2>1, <3>1
    <3>3. r \in Stage /\ r.pc = "idle" /\ r.n = 0
      <4>1. 0 \in 0..2
        OBVIOUS
      <4> QED
        BY <1>0, <3>2, <4>1 DEF Stage
    <3> QED
      BY <1>0, <1>12, <2>1, <3>3
  <2>3. Selects' /\ \A d \in Operators : Theirs(d) => Theirs(d)'
    BY <1>4, <1>12
  <2>4. Phases'
    BY <2>2, <2>3, Proceeds
  <2>5. Configured'
    BY <1>12, <2>2, Untouched
  <2> QED
    BY <2>2, <2>3, <2>4, <2>5
<1>13. CASE Stacks!Write(c)
  <2>0. caller[c].pc = "write" /\ UNCHANGED <<selected, config, deployed, history>>
        /\ caller[c].n \in 0..1 /\ Len(caller[c].out) = 1
    BY <1>0, <1>13 DEF Stacks!Write, Stacks!At, Phases, Stage, Writing
  <2>1. Stacks!OwnStack'
    BY <1>0, <2>0 DEF Stacks!OwnStack
  <2>2. CASE caller' = [caller EXCEPT ![c].pc = "idle", ![c].n = 0, ![c].out = <<>>] /\ UNCHANGED file
    <3>1. PICK r \in Stage : /\ caller' = [caller EXCEPT ![c] = r] /\ r.pc = "idle" /\ r.n = 0
                             /\ Selects' /\ Phases' /\ Configured'
      BY <1>12, <2>0, <2>2
    <3>2. Answers'
      BY <1>0, <2>0, <2>2, <3>1, Elsewhere
    <3> QED
      BY <2>1, <3>1, <3>2 DEF StacksInv
  <2>3. CASE /\ file' = [file EXCEPT ![Stacks!LogDir(c)] =
                                  Stacks!Written(@, caller[c].next,
                                                 Stacks!Chunk(caller[c].out[1], caller[c].n + 1))]
             /\ caller' = [caller EXCEPT ![c].next = @ + 1, ![c].n = @ + 1,
                                         ![c].pc = IF caller[c].n = 1 THEN "read" ELSE "write"]
    <3>1. PICK r : r = [caller[c] EXCEPT !.next = @ + 1, !.n = @ + 1,
                                         !.pc = IF caller[c].n = 1 THEN "read" ELSE "write"]
      OBVIOUS
    <3>2. /\ r \in Stage /\ r.pc = (IF caller[c].n = 1 THEN "read" ELSE "write")
          /\ r.n = caller[c].n + 1 /\ r.next = caller[c].next + 1
          /\ r.out = caller[c].out
          /\ caller' = [caller EXCEPT ![c] = r]
      <4>1. PICK more \in Nat, n \in 0..2, pc \in {"read", "write"} :
              /\ more = caller[c].next + 1 /\ n = caller[c].n + 1
              /\ pc = IF caller[c].n = 1 THEN "read" ELSE "write"
        <5>1. caller[c].next + 1 \in Nat /\ caller[c].n + 1 \in 0..2
          BY <1>0, <2>0 DEF Stage
        <5>2. (IF caller[c].n = 1 THEN "read" ELSE "write") \in {"read", "write"}
          OBVIOUS
        <5> QED
          BY <5>1, <5>2
      <4>2. r = [caller[c] EXCEPT !.next = more, !.n = n, !.pc = pc]
        BY <3>1, <4>1
      <4>3. /\ r \in Stage /\ r.pc = pc /\ r.n = n /\ r.next = more
            /\ r.out = caller[c].out
        BY <1>0, <4>1, <4>2 DEF Stage
      <4> QED
        BY <1>0, <2>3, <3>1, <4>1, <4>3
    <3>3. Selects' /\ \A d \in Operators : Theirs(d) => Theirs(d)'
      BY <1>4, <2>0
    <3>4. Phases'
      <4>1. /\ r.pc \in {"write", "read"} /\ Len(r.out) = 1
            /\ r.pc = "write" => r.n < 2
            /\ r.pc = "read" => r.n = 2
        BY <2>0, <3>2
      <4> QED
        BY <3>2, <3>3, <4>1, Proceeds
    <3>5. Configured'
      BY <2>0, <3>2, Untouched
    <3>6. PICK e \in Operators : e = Stacks!LogDir(c)
      BY <1>0
    <3>7. PICK new : new = Stacks!Written(file[e], caller[c].next,
                                          Stacks!Chunk(caller[c].out[1], caller[c].n + 1))
      OBVIOUS
    <3>8. file' = [file EXCEPT ![e] = new] /\ file = [d \in Operators |-> file[d]]
      BY <1>0, <2>3, <3>6, <3>7 DEF Answers
    <3>9. \A d \in Operators : /\ caller'[d] = IF d = c THEN r ELSE caller[d]
                               /\ file'[d] = IF d = e THEN new ELSE file[d]
                               /\ Writing(d)' <=> Writing(d)
      BY <1>0, <2>0, <3>2, <3>8 DEF Writing
    <3>10. ASSUME NEW d \in Operators, d \in history.alone, Writing(d)'
           PROVE  /\ caller'[d].next = caller'[d].n + 1
                  /\ file'[Stacks!LogDir(d)] = [i \in 1..caller'[d].n |-> Stacks!Chunk(caller'[d].out[1], i)]
      <4>1. CASE d = c
        <5>1. PICK n \in 0..1 : n = caller[c].n
          BY <2>0
        <5>2. PICK o : o = caller[c].out[1]
          OBVIOUS
        <5>3. caller[c].next = n + 1 /\ file[e] = [i \in 1..n |-> Stacks!Chunk(o, i)]
          BY <1>0, <3>6, <3>9, <3>10, <4>1, <5>1, <5>2 DEF Answers
        <5>4. Len(file[e]) = n
          BY <5>1, <5>3
        <5>5. new = [i \in 1..(n + 1) |-> IF i = n + 1 THEN Stacks!Chunk(o, n + 1)
                                          ELSE IF i <= n THEN file[e][i] ELSE Stacks!Chunk("hole", 0)]
          BY <3>7, <5>1, <5>2, <5>3, <5>4 DEF Stacks!Written
        <5>6. new = [i \in 1..(n + 1) |-> Stacks!Chunk(o, i)]
          BY <5>1, <5>3, <5>5
        <5>7. file'[Stacks!LogDir(d)] = new /\ caller'[d].n = n + 1 /\ caller'[d].next = n + 2
              /\ caller'[d].out[1] = o
          BY <3>2, <3>6, <3>9, <4>1, <5>1, <5>2, <5>3
        <5> QED
          BY <5>1, <5>6, <5>7
      <4>2. CASE d # c
        <5>1. Writing(c) /\ Writing(d)
          BY <2>0, <3>9, <3>10 DEF Writing
        <5>2. Stacks!LogDir(d) # e /\ Stacks!LogDir(d) \in Operators
          BY <1>0, <3>6, <3>10, <4>2, <5>1, Directories DEF Answers
        <5>3. caller'[d] = caller[d] /\ file'[Stacks!LogDir(d)] = file[Stacks!LogDir(d)]
          BY <3>9, <4>2, <5>2
        <5>4. /\ caller[d].next = caller[d].n + 1
              /\ file[Stacks!LogDir(d)] = [i \in 1..caller[d].n |-> Stacks!Chunk(caller[d].out[1], i)]
          BY <1>0, <3>10, <5>1 DEF Answers
        <5> QED
          BY <5>3, <5>4
      <4> QED
        BY <4>1, <4>2
    <3>11. Answers'
      <4>1. \A a, d \in Operators : a # d /\ Stacks!LogDir(a) = Stacks!LogDir(d) /\ Writing(a)' /\ Writing(d)'
                                      => a \notin history'.alone
        BY <1>0, <2>0, <3>9 DEF Answers
      <4>2. file' = [d \in Operators |-> file'[d]]
        BY <3>8
      <4>3. Stacks!OwnAnswer' /\ history' = history
        BY <1>0, <2>0 DEF Answers, Stacks!OwnAnswer
      <4> QED
        BY <1>0, <3>10, <4>1, <4>2, <4>3 DEF Answers, Stacks!LogDir
    <3> QED
      BY <2>1, <3>3, <3>4, <3>5, <3>11 DEF StacksInv
  <2> QED
    BY <1>13, <2>2, <2>3 DEF Stacks!Write
<1>14. CASE Stacks!Read(c)
  <2>0. /\ caller[c].pc = "read" /\ UNCHANGED <<selected, config, deployed, file>>
        /\ caller[c].n = 2
    BY <1>0, <1>14 DEF Stacks!Read, Stacks!At, Phases
  <2>1. PICK r \in Stage : /\ caller' = [caller EXCEPT ![c] = r] /\ r.pc = "idle" /\ r.n = 0
                           /\ Selects' /\ Phases' /\ Configured'
    BY <1>12, <1>14, <2>0 DEF Stacks!Read
  <2>2. PICK b \in BOOLEAN : b = (c \in history.alone)
    <3>1. (c \in history.alone) \in BOOLEAN
      OBVIOUS
    <3> QED
      BY <3>1, Zenon
  <2>3. PICK g : g = [by |-> c, stack |-> caller[c].out[1], alone |-> b, data |-> file[Stacks!LogDir(c)]]
    OBVIOUS
  <2>4. history' = [alone |-> history.alone, hit |-> history.hit, got |-> history.got \cup {g}]
    BY <1>0, <1>14, <2>2, <2>3 DEF Stacks!Read
  <2>5. b => g.data = <<Stacks!Chunk(g.stack, 1), Stacks!Chunk(g.stack, 2)>>
    <3>1. b => file[Stacks!LogDir(c)] = [i \in 1..2 |-> Stacks!Chunk(caller[c].out[1], i)]
      BY <1>0, <2>0, <2>2 DEF Answers, Writing
    <3>2. PICK o : o = caller[c].out[1]
      OBVIOUS
    <3>3. [i \in 1..2 |-> Stacks!Chunk(o, i)] = <<Stacks!Chunk(o, 1), Stacks!Chunk(o, 2)>>
      OBVIOUS
    <3> QED
      BY <2>3, <3>1, <3>2, <3>3
  <2>6. Stacks!OwnAnswer'
    <3>1. g.alone = b
      BY <2>3
    <3> QED
      BY <1>0, <2>4, <2>5, <3>1 DEF Answers, Stacks!OwnAnswer
  <2>7. Stacks!OwnStack'
    BY <1>0, <2>4 DEF Stacks!OwnStack
  <2>8. Answers'
    <3>1. \A d \in Operators : caller'[d] = IF d = c THEN r ELSE caller[d]
      BY <1>0, <2>1
    <3>2. ~Writing(c)' /\ \A d \in Operators : d # c => (Writing(d)' <=> Writing(d))
      BY <2>1, <3>1 DEF Writing
    <3>3. history'.alone = history.alone /\ file' = file
          /\ history' = [alone |-> history'.alone, hit |-> history'.hit, got |-> history'.got]
      BY <2>0, <2>4
    <3>4. \A a, d \in Operators : a # d /\ Stacks!LogDir(a) = Stacks!LogDir(d) /\ Writing(a)' /\ Writing(d)'
                                    => a \notin history'.alone
      BY <1>0, <3>2, <3>3 DEF Answers
    <3>5. \A d \in Operators : d \in history'.alone /\ Writing(d)'
           => /\ caller'[d].next = caller'[d].n + 1
              /\ file'[Stacks!LogDir(d)] = [i \in 1..caller'[d].n |-> Stacks!Chunk(caller'[d].out[1], i)]
      BY <1>0, <3>1, <3>2, <3>3 DEF Answers
    <3>6. file' = [d \in Operators |-> file'[d]]
      BY <1>0, <3>3 DEF Answers
    <3> QED
      BY <2>6, <3>3, <3>4, <3>5, <3>6 DEF Answers, Stacks!LogDir
  <2> QED
    BY <2>1, <2>7, <2>8 DEF StacksInv
<1> QED
  BY <1>3, <1>5, <1>7, <1>8, <1>9, <1>10, <1>11, <1>13, <1>14

\* It is what the run asks of the runner.
LEMMA StacksSafe == StacksInv => StacksSound
  BY DEF StacksInv, StacksSound, Stacks!RunnerSound, Answers, Configured

\* A step of another part keeps it.
LEMMA StacksStays == StacksInv /\ UNCHANGED ofStacks => StacksInv'
<1> SUFFICES ASSUME StacksInv, UNCHANGED ofStacks PROVE StacksInv'
  OBVIOUS
<1>1. Selects' /\ Phases'
  BY DEF ofStacks, StacksInv, Selects, Phases, Theirs, Writing
<1>2. Configured'
  BY DEF ofStacks, StacksInv, Configured, Stacks!InOrder
<1>3. Answers' /\ Stacks!OwnStack'
  BY DEF ofStacks, StacksInv, Answers, Writing, Stacks!OwnAnswer, Stacks!OwnStack
<1> QED
  BY <1>1, <1>2, <1>3 DEF StacksInv

\* pulumi/runner: for every number of callers, an answer of GetRawOutputs that
\* no other call on the same log directory overlapped, of whichever project, is
\* the whole output of its stack,
\* only callers of one project directory reach each other's stacks, and a
\* stack's configuration is set in the order of the keys.
THEOREM StacksAreSound == Spec => []StacksSound
<1>1. Init => StacksInv
  BY StacksInit DEF Init
<1>2. StacksInv /\ [Next]_vars => StacksInv'
  BY StacksNext, StacksStays DEF Next, vars
<1>3. StacksInv => StacksSound
  BY StacksSafe
<1> QED
  BY <1>1, <1>2, <1>3, PTL DEF Spec
=============================================================================
