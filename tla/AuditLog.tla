------------------------------ MODULE AuditLog ------------------------------
(***************************************************************************)
(* observability/audit/file: FileWriter, an append-only JSONL log with one *)
(* backup.  Log runs under w.mu from its size check to its write, so one   *)
(* call at a time is on its way; each system call is a step, may fail      *)
(* where Failing allows it, and the process may die between any two.       *)
(*                                                                         *)
(* A file is a sequence of pieces in the order they were written; a piece  *)
(* is an entry, and it is whole when all of its bytes, the newline         *)
(* included, are in the file.  Every entry has size one.                   *)
(***************************************************************************)
EXTENDS Naturals, Sequences, SequencesExt

CONSTANTS
  MaxSize,     \* w.maxLogSize, in entries
  Failing,     \* the system calls that may fail: a subset of Calls
  MaxEntries,  \* bound: calls of Log
  MaxFaults,   \* bound: failing system calls
  MaxCrashes,  \* bound: crashes of the process
  Missing      \* no file at a name

Calls == {"rename", "create", "reopen", "write"}

VARIABLES
  log, bak,   \* the files at path and at path.1, or Missing
  handle,     \* what w.file refers to: "log", "bak" or "closed"
  written,    \* w.written
  pc,         \* the writer: "down", "ready", or a step of Log
  next,       \* the entry of the next call of Log
  put,        \* history: entries with bytes in some file, in order
  acked,      \* history: entries whose Log returned nil
  shut,       \* history: Close was called on this writer
  forfeit,    \* history: entries put before the latest fall back to path.1
  faults, crashes

vars == <<log, bak, handle, written, pc, next, put, acked, shut, forfeit,
          faults, crashes>>

Whole(e) == [entry |-> e, whole |-> TRUE]
Torn(e) == [entry |-> e, whole |-> FALSE]

Init == /\ log = Missing /\ bak = Missing
        /\ handle = "closed" /\ written = 0
        /\ pc = "down"
        /\ next = 1 /\ put = <<>> /\ acked = {} /\ shut = FALSE
        /\ forfeit = 0
        /\ faults = 0 /\ crashes = 0

\* The system call c fails.
Fails(c) == c \in Failing /\ faults < MaxFaults /\ faults' = faults + 1

Bytes(f) == IF f = Missing THEN 0 ELSE Len(f)

\* Mutation of OpenLog: O_TRUNC in place of O_APPEND.
OpenTruncated == log' = <<>> /\ handle' = "log"

\* os.OpenFile(w.path, O_APPEND|O_CREATE|O_WRONLY)
OpenLog == /\ log' = IF log = Missing THEN <<>> ELSE log
           /\ handle' = "log"

-----------------------------------------------------------------------------
\* NewFileWriter: the log is opened, or created, and measured.
NewFileWriter ==
  /\ pc = "down"
  /\ OpenLog
  /\ written' = Bytes(log)
  /\ pc' = "ready" /\ shut' = FALSE
  /\ UNCHANGED <<bak, next, put, acked, forfeit, faults, crashes>>

\* Log: a full log is rotated first, and rotateLocked closes it.
Log ==
  /\ pc = "ready"
  /\ next <= MaxEntries
  /\ IF written >= MaxSize
       THEN pc' = "remove" /\ handle' = "closed"
       ELSE pc' = "write" /\ UNCHANGED handle
  /\ UNCHANGED <<log, bak, written, next, put, acked, shut, forfeit, faults,
                 crashes>>

\* rotateLocked: os.Remove of the old backup, its error ignored.
RotateRemove ==
  /\ pc = "remove"
  /\ bak' = Missing
  /\ pc' = "rename"
  /\ UNCHANGED <<log, handle, written, next, put, acked, shut, forfeit,
                 faults, crashes>>

\* rotateLocked: os.Rename of the log onto the backup.
RotateRename ==
  /\ pc = "rename"
  /\ \/ /\ log # Missing
        /\ bak' = log /\ log' = Missing
        /\ pc' = "create"
        /\ UNCHANGED faults
     \/ /\ \/ log = Missing /\ UNCHANGED faults
           \/ Fails("rename")
        /\ pc' = "reopenLog"
        /\ UNCHANGED <<log, bak>>
  /\ UNCHANGED <<handle, written, next, put, acked, shut, forfeit, crashes>>

\* Log returns an error; the entry is the caller's problem.
Refuse == pc' = "ready" /\ next' = next + 1 /\ UNCHANGED acked

\* rotateLocked, rename failed: reopen the original file.
ReopenLog ==
  /\ pc = "reopenLog"
  /\ \/ OpenLog /\ UNCHANGED faults
     \/ Fails("reopen") /\ UNCHANGED <<log, handle>>
  /\ Refuse
  /\ UNCHANGED <<bak, written, put, shut, forfeit, crashes>>

\* rotateLocked: create the new log; only then is the size counted anew.
RotateCreate ==
  /\ pc = "create"
  /\ \/ /\ OpenLog
        /\ written' = 0
        /\ pc' = "write"
        /\ UNCHANGED faults
     \/ /\ Fails("create")
        /\ pc' = "reopenBackup"
        /\ UNCHANGED <<log, handle, written>>
  /\ UNCHANGED <<bak, next, put, acked, shut, forfeit, crashes>>

\* rotateLocked, create failed: go on with the backup.
ReopenBackup ==
  /\ pc = "reopenBackup"
  /\ \/ handle' = "bak" /\ UNCHANGED faults
     \/ Fails("reopen") /\ UNCHANGED handle
  /\ Refuse
  /\ forfeit' = Len(put)
  /\ UNCHANGED <<log, bak, written, put, shut, crashes>>

\* The bytes of a piece reach the open file.
Put(piece) ==
  /\ log' = IF handle = "log" THEN Append(log, piece) ELSE log
  /\ bak' = IF handle = "bak" THEN Append(bak, piece) ELSE bak
  /\ put' = Append(put, piece.entry)

\* Log: one write of entry and newline.  It may fail with none or some of the
\* bytes written; a closed file takes nothing.
Write ==
  /\ pc = "write"
  /\ \/ /\ handle # "closed"
        /\ Put(Whole(next))
        /\ written' = written + 1
        /\ acked' = acked \cup {next}
        /\ pc' = "ready" /\ next' = next + 1
        /\ UNCHANGED faults
     \/ /\ handle # "closed" /\ Fails("write")
        /\ Put(Torn(next)) \/ UNCHANGED <<log, bak, put>>
        /\ Refuse
        /\ UNCHANGED written
     \/ /\ handle = "closed"
        /\ Refuse
        /\ UNCHANGED <<log, bak, written, put, faults>>
  /\ UNCHANGED <<handle, shut, forfeit, crashes>>

\* Close: later calls of Log find the file closed.
Close ==
  /\ pc = "ready"
  /\ handle' = "closed" /\ shut' = TRUE
  /\ UNCHANGED <<log, bak, written, pc, next, put, acked, forfeit, faults,
                 crashes>>

\* The process dies; in the middle of a write part of the entry may be there.
Crash ==
  /\ pc # "down"
  /\ crashes < MaxCrashes
  /\ crashes' = crashes + 1
  /\ \/ pc = "write" /\ handle # "closed" /\ Put(Torn(next))
     \/ UNCHANGED <<log, bak, put>>
  /\ next' = IF pc = "ready" THEN next ELSE next + 1
  /\ handle' = "closed" /\ pc' = "down"
  /\ UNCHANGED <<written, acked, shut, forfeit, faults>>

Next == \/ NewFileWriter \/ Log \/ RotateRemove \/ RotateRename \/ ReopenLog
        \/ RotateCreate \/ ReopenBackup \/ Write \/ Close \/ Crash

Spec == Init /\ [][Next]_vars
-----------------------------------------------------------------------------
\* ReadScorecard, Reader: a line is what lies between two newlines, and it
\* counts when it is one whole entry.
Line(f, n) == f[n].whole /\ (n = 1 \/ f[n - 1].whole)

Readable(f) == IF f = Missing THEN {}
               ELSE {f[n].entry : n \in {m \in DOMAIN f : Line(f, m)}}

Entries(f) == IF f = Missing THEN {} ELSE {f[n].entry : n \in DOMAIN f}

\* Every variable has the type the code gives it (FileWriter), and w.file is
\* open at the name the writer thinks it is.
TypeOK ==
  LET File == Seq([entry : 1..MaxEntries, whole : BOOLEAN]) \cup {Missing}
  IN  /\ log \in File /\ bak \in File
      /\ handle \in {"log", "bak", "closed"}
      /\ handle = "log" => log # Missing
      /\ handle = "bak" => bak # Missing
      /\ written \in Nat
      /\ pc \in {"down", "ready", "write", "remove", "rename", "create",
                 "reopenLog", "reopenBackup"}
      /\ next \in 1..(MaxEntries + 1)
      /\ put \in Seq(1..MaxEntries)
      /\ acked \in SUBSET (1..MaxEntries)
      /\ shut \in BOOLEAN
      /\ forfeit \in 0..Len(put)
      /\ faults \in Nat /\ crashes \in Nat

\* The last MaxSize entries with bytes in a file, of those after the first n.
Recent(n) == {put[m] : m \in {k \in DOMAIN put : k > n /\ k > Len(put) - MaxSize}}

\* Rotation keeps one backup and loses nothing younger: the last MaxSize
\* entries written are in the log or in the backup at every moment, also
\* between the steps of a rotation and after a crash inside one.  Exempt is
\* what was there when rotateLocked fell back to the backup.
RecentKept == Recent(forfeit) \subseteq Entries(log) \cup Entries(bak)

\* The same without the exemption: rotateLocked falls back to the backup
\* "to keep logging going on backup file", so a failed create should cost no
\* entry that is already written.
FallbackKeepsEntries == Recent(0) \subseteq Entries(log) \cup Entries(bak)

\* Log and backup hold entries in the order of the calls, the backup the older
\* ones, none twice.
InOrder ==
  LET file(f) == IF f = Missing THEN <<>> ELSE f
      all == file(bak) \o file(log)
  IN  \A m, n \in DOMAIN all : m < n => all[m].entry < all[n].entry

\* rotateLocked, fallback self-healing: a writer nobody closed is never stuck
\* with a closed file; if both opens failed, the next Log rotates again.
SelfHeals == pc = "ready" /\ ~shut /\ handle = "closed" => written >= MaxSize

\* ReadScorecard: a malformed line, such as a torn write from a crash in the
\* middle of an append, is skipped without affecting later entries.
AckedReadable ==
  acked \cap Entries(log) \subseteq Readable(log)

\* The writer's bookkeeping: its types, and entries in order in the two files.
Sound == TypeOK /\ InOrder
=============================================================================
