---------------------------- MODULE DriveMembers ----------------------------
(***************************************************************************)
(* google/workspace/drive: the members of one Shared Drive.                *)
(* EnsureDriveMembership pages through the permissions, picks the member's *)
(* highest one, and updates or creates; every API call is a step of its    *)
(* own, so that callers and administrators interleave with it.             *)
(***************************************************************************)
EXTENDS Naturals, FiniteSets

CONSTANTS
  Callers,   \* goroutines or processes that call EnsureDriveMembership
  AskRoles,  \* the roles they ask for, known to RoleRank or not
  PageSize,  \* defaultAdminPageSize
  MaxPerms,  \* bound: permissions ever created
  MaxCalls   \* bound: calls of EnsureDriveMembership

\* Addresses as callers write them and as the API returns them.
Spellings == {"ann", " Ann", "Ann", "bob", " "}

VARIABLES
  perms,   \* the drive's permissions, listed by identifier
  made,    \* permissions created so far: the source of identifiers
  calls,   \* calls begun so far
  call     \* caller -> the call it is in

vars == <<perms, made, calls, call>>

Ranks == [reader |-> 10, commenter |-> 20, writer |-> 30,
          fileOrganizer |-> 40, organizer |-> 50]

RoleRank(role) == IF role \in DOMAIN Ranks THEN Ranks[role] ELSE 0

\* strings.ToLower(strings.TrimSpace(s)).
Trimmed(s) == CASE s \in {"ann", " Ann", "Ann"} -> "ann"
                [] s = " " -> ""
                [] OTHER -> s

\* strings.EqualFold; addresses in the API carry no blanks.
EqualFold(s, email) == Trimmed(s) = email

Idle == [pc |-> "idle", email |-> "", role |-> "", dry |-> FALSE,
         after |-> 0, seen |-> {}, target |-> 0, did |-> "",
         applied |-> FALSE, raced |-> FALSE]

Of(ps, email) == {p \in ps : EqualFold(p.email, email)}

\* Whether the member has the role or a higher one.
Holds(ps, email, role) == \E p \in Of(ps, email) : RoleRank(p.role) >= RoleRank(role)

Init == /\ \E role \in {"reader", "writer"}, who \in {"Ann", "bob"} :
             perms = {[id |-> 1, email |-> "bob", role |-> "writer"],
                      [id |-> 2, email |-> who, role |-> role]}
        /\ made = 2 /\ calls = 0
        /\ call = [c \in Callers |-> Idle]

\* The permissions become ps: every other call still under way or just
\* returned works on a listing that is no longer the drive's.
Becomes(ps, c, rec) ==
  /\ perms' = ps
  /\ call' = [d \in Callers |->
                IF d = c THEN rec
                ELSE [call[d] EXCEPT !.raced = @ \/ call[d].pc # "idle"]]
-----------------------------------------------------------------------------
\* Up to the first List: an empty address and an unknown role are refused.
EnsureDriveMembership(c, spelling, role, dry) ==
  /\ call[c].pc \in {"idle", "returned", "failed"}
  /\ calls < MaxCalls /\ calls' = calls + 1
  /\ call' = [call EXCEPT ![c] =
       [Idle EXCEPT !.email = Trimmed(spelling), !.role = role, !.dry = dry,
                    !.pc = IF Trimmed(spelling) = "" \/ RoleRank(role) = 0
                           THEN "failed" ELSE "list"]]
  /\ UNCHANGED <<perms, made>>

\* The loop over the member's permissions settles on p: the first of the
\* highest rank.
Current(mine, p) ==
  \A q \in mine : \/ RoleRank(q.role) < RoleRank(p.role)
                  \/ RoleRank(q.role) = RoleRank(p.role) /\ p.id <= q.id

\* Mutation of Decide: the branch of the upgrade forgets dryRun.
DecideWet(rec) ==
  LET mine == Of(rec.seen, rec.email)
  IN IF mine = {}
     THEN {[rec EXCEPT !.did = "CREATED",
                       !.pc = IF rec.dry THEN "returned" ELSE "create"]}
     ELSE {[rec EXCEPT !.target = p.id,
                       !.did = IF RoleRank(p.role) >= RoleRank(rec.role)
                               THEN "UNCHANGED" ELSE "UPGRADED",
                       !.pc = IF RoleRank(p.role) >= RoleRank(rec.role)
                              THEN "returned" ELSE "update"] :
             p \in {q \in mine : Current(mine, q)}}

\* Mutation of Decide: any other role than the one asked for is replaced.
DecideDiffers(rec) ==
  LET mine == Of(rec.seen, rec.email)
      change == IF rec.dry THEN "returned" ELSE "update"
  IN IF mine = {}
     THEN {[rec EXCEPT !.did = "CREATED",
                       !.pc = IF rec.dry THEN "returned" ELSE "create"]}
     ELSE {[rec EXCEPT !.target = p.id,
                       !.did = IF p.role = rec.role THEN "UNCHANGED" ELSE "UPGRADED",
                       !.pc = IF p.role = rec.role THEN "returned" ELSE change] :
             p \in {q \in mine : Current(mine, q)}}

\* How the call goes on with a complete listing, and the Action of its result.
Decide(rec) ==
  LET mine == Of(rec.seen, rec.email)
      change == IF rec.dry THEN "returned" ELSE "update"
  IN IF mine = {}
     THEN {[rec EXCEPT !.did = "CREATED",
                       !.pc = IF rec.dry THEN "returned" ELSE "create"]}
     ELSE {[rec EXCEPT !.target = p.id,
                       !.did = IF RoleRank(p.role) >= RoleRank(rec.role)
                               THEN "UNCHANGED" ELSE "UPGRADED",
                       !.pc = IF RoleRank(p.role) >= RoleRank(rec.role)
                              THEN "returned" ELSE change] :
             p \in {q \in mine : Current(mine, q)}}

\* One page: the first of what follows the last permission seen.  The last
\* page ends the listing; an error ends the call.
ListDriveMembers(c) ==
  /\ call[c].pc = "list"
  /\ \/ LET rest == {p \in perms : p.id > call[c].after} IN
        \E page \in SUBSET rest :
          /\ \A p \in page, q \in rest \ page : p.id < q.id
          /\ Cardinality(page) <= PageSize
          /\ page # rest => Cardinality(page) = PageSize
          /\ \E rec \in LET seen == [call[c] EXCEPT !.seen = @ \cup page] IN
                IF page = rest THEN Decide(seen)
                ELSE {[seen EXCEPT !.after = p.id] :
                        p \in {q \in page : \A o \in page : o.id <= q.id}} :
               call' = [call EXCEPT ![c] = rec]
     \/ call' = [call EXCEPT ![c].pc = "failed"]
  /\ UNCHANGED <<perms, made, calls>>

\* Permissions.Update of the permission that was found.  The request may
\* fail before or after the service applied it, and does when the permission
\* is gone.
UpdatePermission(c) ==
  /\ call[c].pc = "update"
  /\ \/ \E p \in perms, end \in {"returned", "failed"} :
          /\ p.id = call[c].target
          /\ Becomes((perms \ {p}) \cup {[p EXCEPT !.role = call[c].role]}, c,
                     [call[c] EXCEPT !.pc = end, !.applied = TRUE])
     \/ /\ call' = [call EXCEPT ![c].pc = "failed"]
        /\ UNCHANGED perms
  /\ UNCHANGED <<made, calls>>

\* Permissions.Create; the code reckons with several permissions of a member.
CreatePermission(c) ==
  /\ call[c].pc = "create" /\ made < MaxPerms
  /\ \/ /\ made' = made + 1
        /\ \E end \in {"returned", "failed"} :
             Becomes(perms \cup {[id |-> made + 1, email |-> call[c].email,
                                 role |-> call[c].role]},
                     c, [call[c] EXCEPT !.pc = end, !.applied = TRUE])
     \/ /\ call' = [call EXCEPT ![c].pc = "failed"]
        /\ UNCHANGED <<perms, made>>
  /\ UNCHANGED calls

\* An administrator removes a permission.
DeleteDriveMember(id) ==
  /\ \E p \in perms : p.id = id
  /\ perms' = {p \in perms : p.id # id}
  /\ call' = [d \in Callers |->
                [call[d] EXCEPT !.raced = @ \/ call[d].pc # "idle"]]
  /\ UNCHANGED <<made, calls>>

Next == \/ \E c \in Callers :
             \/ \E s \in Spellings \ {"bob"}, r \in AskRoles, d \in BOOLEAN :
                  EnsureDriveMembership(c, s, r, d)
             \/ ListDriveMembers(c)
             \/ UpdatePermission(c)
             \/ CreatePermission(c)
        \/ \E id \in 1..made : DeleteDriveMember(id)

Spec == Init /\ [][Next]_vars
-----------------------------------------------------------------------------
\* Every variable has the type the code gives it, and permissions are told
\* apart by identifier.
Permissions == [id : 1..made, email : Spellings, role : DOMAIN Ranks]
TypeOK ==
  /\ made \in 0..MaxPerms /\ calls \in 0..MaxCalls
  /\ perms \subseteq Permissions
  /\ \A p, q \in perms : p.id = q.id => p = q
  /\ \A c \in Callers :
       /\ call[c].pc \in {"idle", "list", "update", "create", "returned",
                          "failed"}
       /\ call[c].did \in {"", "CREATED", "UPGRADED", "UNCHANGED"}
       /\ call[c].seen \subseteq Permissions

\* EnsureDriveMembership "ensures that the target member holds at least the
\* specified role": so it is when the call returned and nobody else changed
\* the drive since it began, however many pages the listing had and however
\* the address was written.
EnsuredHolds ==
  \A c \in Callers :
    (call[c].pc = "returned" /\ ~call[c].dry /\ ~call[c].raced)
      => Holds(perms, call[c].email, call[c].role)

\* What the documentation promises for a drive with the permissions ps.
Intended(ps, email, role) ==
  CASE Of(ps, email) = {} -> "CREATED"
    [] Holds(ps, email, role) -> "UNCHANGED"
    [] OTHER -> "UPGRADED"

\* The drive went from ps to qs by exactly the change that call r reports.
Changed(ps, qs, r) ==
  CASE r.did = "CREATED" ->
         \E q \in qs : /\ q \notin ps /\ qs = ps \cup {q}
                      /\ EqualFold(q.email, r.email) /\ q.role = r.role
    [] r.did = "UPGRADED" ->
         \E p \in Of(ps, r.email), q \in qs :
           /\ qs = (ps \ {p}) \cup {q}
           /\ q.id = p.id /\ q.email = p.email /\ q.role = r.role
    [] OTHER -> qs = ps

\* "In dryRun mode, the result reflects the intended change without mutating
\* the Drive": a dry run has nothing applied, whoever races it, and neither
\* has a call that reports UNCHANGED; every call that returns, dry or real,
\* reports what is intended for the drive it listed; and unless somebody else
\* changed the drive since it began, the drive is what a dry run listed, and
\* what a real one listed with exactly the reported change.
ReportsAgree ==
  \A c \in Callers :
    LET r == call[c] IN
    /\ r.dry \/ r.did = "UNCHANGED" => ~r.applied
    /\ r.pc = "returned" => r.did = Intended(r.seen, r.email, r.role)
    /\ r.pc = "returned" /\ ~r.raced =>
         IF r.dry THEN perms = r.seen ELSE Changed(r.seen, perms, r)

Sound == TypeOK /\ EnsuredHolds /\ ReportsAgree

\* "If the member already has an equal or higher role, it is left unchanged":
\* no member loses a role that it held except by a deletion, or by an update
\* whose listing was overtaken by another caller's.
FallsOnlyByRace ==
  [][\A m \in {"ann", "bob"}, role \in DOMAIN Ranks :
       Holds(perms, m, role) /\ ~Holds(perms', m, role)
         => \/ \E p \in perms : \A q \in perms' : q.id # p.id
            \/ \E c \in Callers : /\ call[c].pc = "update"
                                  /\ call'[c].pc # "update"
                                  /\ call[c].raced]_vars
=============================================================================
