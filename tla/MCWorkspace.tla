----------------------------- MODULE MCWorkspace -----------------------------
(***************************************************************************)
(* Programs that change what a remote service keeps, for TLC: members,     *)
(* listings and files of a Shared Drive, spreadsheets kept in step with    *)
(* their specification, and infrastructure stacks driven through the       *)
(* Pulumi CLI.  Several callers are at it, calls fail or lose their reply, *)
(* and contexts end.  The parts share nothing, so a behaviour exercises    *)
(* one of them.                                                            *)
(***************************************************************************)
EXTENDS Integers, Sequences, FiniteSets
LOCAL INSTANCE TLC

CONSTANTS
  Callers, AskRoles, PageSize, MaxPerms, MaxCalls,   \* DriveMembers
  Things, PageSizes, Ceilings, MaxChanges,           \* Paging
  Workers, MaxFolders, MaxDrives, MaxMoves,          \* DriveFiles
  Procs, Specs, Start, MaxFaults, MaxSyncs, MaxIds,  \* SheetSync
  Operators, Shared, Logging, MaxRuns                \* PulumiRunner

ASSUME WorkspaceAssumption ==
  /\ PageSize \in Nat \ {0} /\ MaxPerms \in Nat \ {0, 1} /\ MaxCalls \in Nat
  /\ Things \subseteq Nat \ {0} /\ PageSizes \subseteq Int
  /\ Ceilings \subseteq Int /\ MaxChanges \in Nat
  /\ MaxFolders \in Nat /\ MaxDrives \in Nat /\ MaxMoves \in Nat
  /\ MaxFaults \in Nat /\ MaxSyncs \in Nat /\ MaxIds \in Nat
  /\ Shared \subseteq Operators /\ Logging \subseteq Operators /\ MaxRuns \in Nat

VARIABLES
  active,   \* the part this behaviour is about
  perms, made, calls, call,
  kind, size, maxPages, present, ever, always, changes, token, pages, out,
  ctx, outcome,
  folders, drives, answers, parents, work, moves,
  docs, nextId, faults, syncs, proc,
  selected, config, deployed, file, caller, history

ofMembers == <<perms, made, calls, call>>
ofListing == <<kind, size, maxPages, present, ever, always, changes, token,
               pages, out, ctx, outcome>>
ofFiles == <<folders, drives, answers, parents, work, moves>>
ofSheets == <<docs, nextId, faults, syncs, proc>>
ofStacks == <<selected, config, deployed, file, caller, history>>
vars == <<active, ofMembers, ofListing, ofFiles, ofSheets, ofStacks>>

\* A TabSpec; title or gid may be left out.
Tab(title, gid, create, skip, data, big, batches) ==
  [title |-> title, gid |-> gid, create |-> create, skip |-> skip,
   data |-> data, big |-> big, batches |-> batches]

\* A pruning sync of two tabs, one of them by gid; a sync of one long tab; one
\* that makes its spreadsheet; one without tabs; and one whose tabs share a
\* title.
MCSpecs ==
  {[tabs |-> <<Tab("a", 0, FALSE, FALSE, "new", TRUE, 2),
               Tab("", 2, FALSE, TRUE, "ids", FALSE, 1)>>,
    prune |-> TRUE, create |-> FALSE],
   [tabs |-> <<Tab("c", 0, FALSE, FALSE, "other", TRUE, 2)>>,
    prune |-> FALSE, create |-> FALSE],
   [tabs |-> <<Tab("a", 0, TRUE, FALSE, "new", FALSE, 1)>>,
    prune |-> TRUE, create |-> TRUE],
   [tabs |-> <<>>, prune |-> FALSE, create |-> TRUE],
   [tabs |-> <<Tab("", 0, TRUE, TRUE, "", FALSE, 1), Tab("Sheet1", 0, TRUE, TRUE, "", FALSE, 1)>>,
    prune |-> FALSE, create |-> TRUE]}

\* Sheets with older values, one of them longer than what is synced.
Old(title, rows, bands) ==
  [title |-> title, content |-> {<<"old", n>> : n \in rows}, big |-> FALSE,
   bands |-> bands, links |-> ""]
MCStart == <<Old("a", {1, 3}, {5}), Old("b", {1}, {}), Old("z", {1}, {})>>

\* Callers, workers and processes are interchangeable.
Symmetry == Permutations(Callers) \cup Permutations(Workers) \cup Permutations(Procs)

Members == INSTANCE DriveMembers
Listing == INSTANCE Paging
Files == INSTANCE DriveFiles
Sheets == INSTANCE SheetSync
Stacks == INSTANCE PulumiRunner WITH Callers <- Operators, Keys <- <<"k1", "k2">>

\* Specifications and sheets are what the API takes; the sheets of a document
\* have titles of their own.  (The provers do not know the first fact.)
ASSUME SheetsAssumption ==
  /\ "" \in STRING /\ Sheets!DefaultSheetTitle \in STRING
  /\ Specs \subseteq Sheets!DocumentSpec
  /\ Start \in [DOMAIN Start -> Sheets!Sheet]
  /\ DOMAIN Start \subseteq 0..(Sheets!FirstId - 1)
  /\ \A m, n \in DOMAIN Start : Start[m].title = Start[n].title => m = n

\* The parts that this behaviour is not about stay in one initial state.
Init ==
  /\ active \in {"members", "listing", "files", "sheets", "stacks"}
  /\ Members!Init /\ \/ active = "members"
                     \/ [id |-> 2, email |-> "bob", role |-> "reader"] \in perms
  /\ Listing!Init /\ \/ active = "listing"
                     \/ kind = "apis" /\ present = {} /\ size = Listing!EffectiveSize(0)
  /\ Files!Init /\ Sheets!Init /\ Stacks!Init

Next ==
  \/ /\ active = "members" /\ Members!Next
     /\ UNCHANGED <<active, ofListing, ofFiles, ofSheets, ofStacks>>
  \/ /\ active = "listing" /\ Listing!Next
     /\ UNCHANGED <<active, ofMembers, ofFiles, ofSheets, ofStacks>>
  \/ /\ active = "files" /\ Files!Next
     /\ UNCHANGED <<active, ofMembers, ofListing, ofSheets, ofStacks>>
  \/ /\ active = "sheets" /\ Sheets!Next
     /\ UNCHANGED <<active, ofMembers, ofListing, ofFiles, ofStacks>>
  \/ /\ active = "stacks" /\ Stacks!Next
     /\ UNCHANGED <<active, ofMembers, ofListing, ofFiles, ofSheets>>

Spec == Init /\ [][Next]_vars
-----------------------------------------------------------------------------
\* EnsureDriveMembership: unless somebody else changed the drive meanwhile, the
\* role asked for is held when the call returns and the drive has exactly the
\* change that was reported; whoever changes it, a dry run has nothing applied
\* and reports by the same rule as a real one.
MembersSound == Members!Sound
\* EnsureDriveMembership: a member's role is lowered only by a deletion or by
\* an update whose listing was overtaken.
FallsOnlyByRace == Members!FallsOnlyByRace

\* Scan and the other listings: a nil error means that everything that was
\* there all the time was delivered, once.
ListingSound == Listing!Sound

\* MoveFile, EnsureFolder, CreateSharedDrive: a file that was moved is in one
\* folder, and a request that is repeated after an error or an answer makes no
\* second Shared Drive and is answered with the first.
FilesSound == Files!Sound

\* SyncDocument: a sync that returns nil left exactly what its specification
\* says, whatever earlier syncs left half done, and repeating one never fails
\* for what they left.
SheetsSound == Sheets!Sound

\* pulumi/runner: an answer of GetRawOutputs is the stack's own unless
\* another call on the same log directory overlapped, of the same project or
\* of another, and only callers of one project directory reach each other's
\* stacks.
StacksSound == Stacks!RunnerSound
=============================================================================
