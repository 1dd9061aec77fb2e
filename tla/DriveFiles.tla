----------------------------- MODULE DriveFiles -----------------------------
(***************************************************************************)
(* google/workspace/drive: folders, files and Shared Drives.  Workers find *)
(* or create a folder and move a file into it.  A request may be lost on   *)
(* the way there or on the way back: the caller gets an error either way   *)
(* and may ask again.                                                      *)
(***************************************************************************)
EXTENDS Naturals, Sequences, FiniteSets, FiniteSetsExt

CONSTANTS
  Workers,
  MaxFolders,  \* bound: folders ever created
  MaxDrives,   \* bound: Shared Drives ever made
  MaxMoves     \* bound: calls of MoveFile

Root == 0

VARIABLES
  folders,  \* id -> [name, trashed, tagged]; all below Root
  drives,   \* Shared Drives, in the order they were made: the request of each
  answers,  \* what CreateSharedDrive returned: [request, drive]
  parents,  \* the parents of the one file that is moved around
  work,     \* worker -> what it is doing and the folder it found or made
  moves

vars == <<folders, drives, answers, parents, work, moves>>

Names == {"inbox"}
Requests == {1}
Resting == [pc |-> "rest", folder |-> Root, remove |-> {}, looked |-> FALSE,
            overlapped |-> FALSE]

Init == /\ folders = <<>> /\ drives = <<>> /\ answers = {}
        /\ parents \in {{Root}, {}}
        /\ work = [w \in Workers |-> Resting]
        /\ moves = 0

\* How a request ends for its caller, and whether the service carried it out.
Fates == [reply : {"ok"}, done : {TRUE}] \cup
         [reply : {"error"}, done : BOOLEAN]

Live(name) == {f \in DOMAIN folders :
                 folders[f].name = name /\ ~folders[f].trashed}
Tagged == {f \in DOMAIN folders : folders[f].tagged /\ ~folders[f].trashed}
-----------------------------------------------------------------------------
\* FindFolder: a live folder of the name, or the empty string (Root).
FindFolder(w, name) ==
  /\ work[w].pc = "rest"
  /\ \E f \in IF Live(name) = {} THEN {Root} ELSE Live(name) :
       work' = [work EXCEPT ![w].pc = IF f = Root THEN "absent" ELSE "found",
                            ![w].folder = f]
  /\ UNCHANGED <<folders, drives, answers, parents, moves>>

FindFolderByProperty(w) ==
  /\ work[w].pc = "rest"
  /\ \E f \in IF Tagged = {} THEN {Root} ELSE Tagged :
       work' = [work EXCEPT ![w].pc = IF f = Root THEN "absent" ELSE "found",
                            ![w].folder = f]
  /\ UNCHANGED <<folders, drives, answers, parents, moves>>

\* CreateFolder: every request that arrives makes a folder of its own.
CreateFolder(w, name) ==
  /\ work[w].pc = "absent" /\ Len(folders) < MaxFolders
  /\ \E fate \in Fates, tag \in BOOLEAN :
       /\ folders' = IF fate.done
                       THEN Append(folders, [name |-> name, trashed |-> FALSE,
                                             tagged |-> tag])
                       ELSE folders
       /\ work' = [work EXCEPT
                     ![w] = IF fate.reply = "ok"
                              THEN [@ EXCEPT !.pc = "found",
                                             !.folder = Len(folders) + 1]
                              ELSE Resting]
  /\ UNCHANGED <<drives, answers, parents, moves>>

\* SetAppProperties and TrashFile change one folder.
SetAppProperties(f) ==
  /\ ~folders[f].tagged
  /\ folders' = [folders EXCEPT ![f].tagged = TRUE]
  /\ UNCHANGED <<drives, answers, parents, work, moves>>

TrashFile(f) ==
  /\ ~folders[f].trashed
  /\ folders' = [folders EXCEPT ![f].trashed = TRUE]
  /\ UNCHANGED <<drives, answers, parents, work, moves>>

\* External: what drives.create leaves behind when it is carried out.  The
\* service makes a drive for a request identifier that it has not seen, and
\* none for one that it has.
DrivesCreate(request) ==
  IF \E d \in DOMAIN drives : drives[d] = request THEN drives
  ELSE Append(drives, request)

\* CreateSharedDrive: one call of drives.create with the caller's identifier.
\* The call may fail before or after it was carried out, and a repeat may be
\* answered with an error; the caller may repeat the identifier after that.
CreateSharedDrive(request) ==
  /\ Len(drives) < MaxDrives
  /\ \E fate \in Fates :
       /\ drives' = IF fate.done THEN DrivesCreate(request) ELSE drives
       /\ \/ fate.reply = "error" /\ UNCHANGED answers
          \/ /\ fate.reply = "ok"
             /\ \E d \in DOMAIN drives' :
                  /\ drives'[d] = request
                  /\ answers' = answers \cup {[request |-> request, drive |-> d]}
  /\ UNCHANGED <<folders, parents, work, moves>>

\* Mutation of MoveDiscover: the existing parents are not looked up.
MoveBlind(w, old) ==
  /\ work[w].pc = "found" /\ moves < MaxMoves
  /\ moves' = moves + 1
  /\ work' = [work EXCEPT ![w].pc = "moving", ![w].remove = old,
                          ![w].looked = (old = {}), ![w].overlapped = FALSE]
  /\ UNCHANGED <<folders, drives, answers, parents>>

\* MoveFile, up to the update: the parents to remove are the caller's, or are
\* looked up, which may fail.
MoveDiscover(w, old) ==
  /\ work[w].pc = "found" /\ moves < MaxMoves
  /\ moves' = moves + 1
  /\ \/ work' = [work EXCEPT ![w].pc = "moving",
                             ![w].remove = IF old = {} THEN parents ELSE old,
                             ![w].looked = (old = {}),
                             ![w].overlapped = FALSE]
     \/ old = {} /\ work' = [work EXCEPT ![w] = Resting]
  /\ UNCHANGED <<folders, drives, answers, parents>>

\* Files.Update with AddParents and RemoveParents.  A folder that is in both
\* may be kept or not: nothing in the code says which.
MoveUpdate(w) ==
  /\ work[w].pc = "moving"
  /\ \E fate \in Fates, both \in SUBSET ({work[w].folder} \cap work[w].remove) :
       /\ parents' = IF fate.done
                       THEN ((parents \cup {work[w].folder}) \ work[w].remove)
                              \cup (IF work[w].folder \in work[w].remove
                                    THEN both ELSE {})
                       ELSE parents
       /\ work' = [v \in Workers |->
            IF v = w
              THEN [work[v] EXCEPT !.pc = IF fate.reply = "ok" THEN "moved"
                                          ELSE "rest"]
              ELSE [work[v] EXCEPT !.overlapped = @ \/ fate.done,
                                   !.pc = IF @ = "moved" THEN "rest" ELSE @]]
  /\ UNCHANGED <<folders, drives, answers, moves>>

\* The worker starts over.
Again(w) ==
  /\ work[w].pc \in {"moved", "found"}
  /\ work' = [work EXCEPT ![w] = Resting]
  /\ UNCHANGED <<folders, drives, answers, parents, moves>>

Next ==
  \/ \E w \in Workers :
       \/ \E n \in Names : FindFolder(w, n) \/ CreateFolder(w, n)
       \/ FindFolderByProperty(w)
       \/ \E old \in {{}, {Root}} : MoveDiscover(w, old)
       \/ MoveUpdate(w) \/ Again(w)
  \/ \E f \in DOMAIN folders : SetAppProperties(f) \/ TrashFile(f)
  \/ \E r \in Requests : CreateSharedDrive(r)

Spec == Init /\ [][Next]_vars
-----------------------------------------------------------------------------
\* Every variable has the type the code gives it.
TypeOK ==
  /\ parents \subseteq {Root} \cup DOMAIN folders
  /\ Len(folders) <= MaxFolders
  /\ \A w \in Workers :
       /\ work[w].pc \in {"rest", "absent", "found", "moving", "moved"}
       /\ work[w].folder \in {Root} \cup DOMAIN folders

\* MoveFile "moves a file while safely removing previous parents": a move that
\* looked the parents up, and that no other move came between, leaves exactly
\* the new one, unless the file was there already.
MoveIsExact ==
  \A w \in Workers :
    (work[w].pc = "moved" /\ work[w].looked /\ ~work[w].overlapped
       /\ work[w].folder \notin work[w].remove)
      => parents = {work[w].folder}

\* CreateSharedDrive "creates a new Google Shared Drive idempotently using
\* requestID": however often a request is repeated, after answers and after
\* errors whose request was carried out or not, there is one drive for it at
\* most, and all its answers name that drive.
OneDrivePerRequest ==
  /\ \A d, e \in DOMAIN drives : drives[d] = drives[e] => d = e
  /\ \A a \in answers : a.drive \in DOMAIN drives /\ drives[a.drive] = a.request

Sound == TypeOK /\ MoveIsExact /\ OneDrivePerRequest
=============================================================================
