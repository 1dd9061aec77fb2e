------------------------------- MODULE RunLock -------------------------------
(***************************************************************************)
(* platform/runstate: Locker, one lock file per subject created with       *)
(* O_CREATE|O_EXCL and removed by the release or by a goroutine that waits *)
(* for SIGINT and SIGTERM.  A run is one call of Acquire: it has a release *)
(* and a signal goroutine of its own.  A process may have several runs at  *)
(* once, for different subjects or one after the other; a signal is        *)
(* delivered to all channels its process has registered, and kills a       *)
(* process that has none.                                                  *)
(***************************************************************************)
EXTENDS Naturals, FiniteSets

CONSTANTS
  Procs, Subjects,
  None,        \* no lock file
  MaxCalls,    \* bound: calls of Acquire per process and subject
  MaxRuns,     \* bound: calls of Acquire in all
  MaxSignals,  \* bound: signals sent
  MaxKills     \* bound: processes killed hard

Runs == Procs \X Subjects \X (1..MaxCalls)
Proc(r) == r[1]
Subject(r) == r[2]

VARIABLES
  onSignal,    \* Locker.OnSignal is set
  file,        \* the lock file of each subject: the run that created it
  pc,          \* Acquire and release of each run
  handler,     \* the signal goroutine of each run
  registered,  \* runs whose channel signal.Notify delivers to
  pending,     \* runs with a signal in their channel (capacity one)
  removed,     \* runs whose removeOnce has fired
  fate,        \* "up", "interrupted" by a signal, or "killed" hard
  signals, kills

vars == <<onSignal, file, pc, handler, registered, pending, removed, fate,
          signals, kills>>

Up(r) == fate[Proc(r)] = "up"

Init == /\ onSignal \in BOOLEAN
        /\ file = [s \in Subjects |-> None]
        /\ pc = [r \in Runs |-> "idle"]
        /\ handler = [r \in Runs |-> "none"]
        /\ registered = {} /\ pending = {} /\ removed = {}
        /\ fate = [p \in Procs |-> "up"]
        /\ signals = 0 /\ kills = 0

-----------------------------------------------------------------------------
\* Calls are numbered in the order they are made.
Started == {r \in Runs : pc[r] # "idle"}
MayStart(r) == /\ r \notin Started
               /\ Cardinality(Started) < MaxRuns
               /\ \A n \in 1..(r[3] - 1) : <<Proc(r), Subject(r), n>> \in Started

\* Acquire up to the exclusive create; an existing file is ErrLocked.
Create(r) ==
  /\ Up(r) /\ MayStart(r)
  /\ IF file[Subject(r)] = None
       THEN /\ file' = [file EXCEPT ![Subject(r)] = r]
            /\ pc' = [pc EXCEPT ![r] = "created"]
       ELSE /\ pc' = [pc EXCEPT ![r] = "refused"]
            /\ UNCHANGED file
  /\ UNCHANGED <<onSignal, handler, registered, pending, removed, fate,
                 signals, kills>>

\* Acquire: signal.Notify and the goroutine; the caller is inside.
Notify(r) ==
  /\ Up(r) /\ pc[r] = "created"
  /\ pc' = [pc EXCEPT ![r] = "held"]
  /\ handler' = [handler EXCEPT ![r] = "waiting"]
  /\ registered' = registered \cup {r}
  /\ UNCHANGED <<onSignal, file, pending, removed, fate, signals, kills>>

\* remove: os.Remove(path), whoever's file that is, but at most once per run.
Remove(r) ==
  /\ file' = IF r \in removed THEN file ELSE [file EXCEPT ![Subject(r)] = None]
  /\ removed' = removed \cup {r}

\* The release function: signal.Stop and close(sig), once ...
ReleaseStop(r) ==
  /\ Up(r) /\ pc[r] = "held"
  /\ pc' = [pc EXCEPT ![r] = "stopped"]
  /\ registered' = registered \ {r}
  /\ UNCHANGED <<onSignal, file, handler, pending, removed, fate, signals,
                 kills>>

\* ... and then remove.
ReleaseRemove(r) ==
  /\ Up(r) /\ pc[r] = "stopped"
  /\ pc' = [pc EXCEPT ![r] = "released"]
  /\ Remove(r)
  /\ UNCHANGED <<onSignal, handler, registered, pending, fate, signals, kills>>

-----------------------------------------------------------------------------
\* The kernel and the Go runtime deliver a signal to process p.
Deliver(p) ==
  LET mine == {r \in registered : Proc(r) = p}
  IN  /\ pending' = pending \cup mine
      /\ fate' = IF mine = {} THEN [fate EXCEPT ![p] = "interrupted"] ELSE fate

\* Somebody presses Ctrl-C.
Signal(p) ==
  /\ fate[p] = "up"
  /\ signals < MaxSignals
  /\ signals' = signals + 1
  /\ Deliver(p)
  /\ UNCHANGED <<onSignal, file, pc, handler, registered, removed, kills>>

\* Mutation of HandlerReceive: the signal is raised again without a remove.
HandlerRaisesFirst(r) ==
  /\ Up(r) /\ handler[r] = "waiting"
  /\ r \in pending
  /\ pending' = pending \ {r}
  /\ handler' = [handler EXCEPT ![r] = "removed"]
  /\ UNCHANGED <<onSignal, file, pc, registered, removed, fate, signals,
                 kills>>

\* The goroutine receives a signal, also one that was in the channel when it
\* was closed; a closed and empty channel ends it.
HandlerReceive(r) ==
  /\ Up(r) /\ handler[r] = "waiting"
  /\ \/ /\ r \in pending
        /\ pending' = pending \ {r}
        /\ handler' = [handler EXCEPT ![r] = "signalled"]
     \/ /\ r \notin pending
        /\ pc[r] \in {"stopped", "released"}
        /\ handler' = [handler EXCEPT ![r] = "exited"]
        /\ UNCHANGED pending
  /\ UNCHANGED <<onSignal, file, pc, registered, removed, fate, signals,
                 kills>>

HandlerRemove(r) ==
  /\ Up(r) /\ handler[r] = "signalled"
  /\ handler' = [handler EXCEPT ![r] = "removed"]
  /\ Remove(r)
  /\ UNCHANGED <<onSignal, pc, registered, pending, fate, signals, kills>>

\* Mutation of HandlerStop: the goroutine ends without raising the signal.
HandlerSwallows(r) ==
  /\ Up(r) /\ handler[r] = "removed"
  /\ handler' = [handler EXCEPT ![r] = "exited"]
  /\ registered' = registered \ {r}
  /\ UNCHANGED <<onSignal, file, pc, pending, removed, fate, signals, kills>>

\* OnSignal is called instead of the rest, or the channel is unregistered.
HandlerStop(r) ==
  /\ Up(r) /\ handler[r] = "removed"
  /\ IF onSignal
       THEN /\ handler' = [handler EXCEPT ![r] = "exited"]
            /\ UNCHANGED registered
       ELSE /\ handler' = [handler EXCEPT ![r] = "raising"]
            /\ registered' = registered \ {r}
  /\ UNCHANGED <<onSignal, file, pc, pending, removed, fate, signals, kills>>

\* reraise on Unix: the process signals itself.
HandlerRaise(r) ==
  /\ Up(r) /\ handler[r] = "raising"
  /\ handler' = [handler EXCEPT ![r] = "exited"]
  /\ Deliver(Proc(r))
  /\ UNCHANGED <<onSignal, file, pc, registered, removed, signals, kills>>

\* The process is killed hard and cleans up nothing.
Kill(p) ==
  /\ fate[p] = "up"
  /\ kills < MaxKills
  /\ kills' = kills + 1
  /\ fate' = [fate EXCEPT ![p] = "killed"]
  /\ UNCHANGED <<onSignal, file, pc, handler, registered, pending, removed,
                 signals>>

HandlerStep(r) == \/ HandlerReceive(r) \/ HandlerRemove(r)
                  \/ HandlerStop(r) \/ HandlerRaise(r)

Next == \/ \E r \in Runs : \/ Create(r) \/ Notify(r)
                           \/ ReleaseStop(r) \/ ReleaseRemove(r)
                           \/ HandlerStep(r)
        \/ \E p \in Procs : Signal(p) \/ Kill(p)

Spec == Init /\ [][Next]_vars

\* Goroutines are scheduled; nothing forces a run to start or to end.
Fairness == \A r \in Runs : WF_vars(HandlerStep(r))

FairSpec == Spec /\ Fairness
-----------------------------------------------------------------------------
\* Every variable has the type the code gives it (Locker.Acquire); only the
\* channel of a held lock is registered, the others may be closed.
TypeOK ==
  /\ onSignal \in BOOLEAN
  /\ file \in [Subjects -> Runs \cup {None}]
  /\ pc \in [Runs -> {"idle", "created", "refused", "held", "stopped",
                      "released"}]
  /\ handler \in [Runs -> {"none", "waiting", "signalled", "removed", "raising",
                           "exited"}]
  /\ registered \subseteq {r \in Runs : pc[r] = "held"}
  /\ pending \in SUBSET Runs
  /\ removed \in SUBSET Runs
  /\ fate \in [Procs -> {"up", "interrupted", "killed"}]
  /\ signals \in Nat
  /\ kills \in Nat

\* The lock is nobody else's to remove: a run whose own remove has not fired
\* finds its file in place, so two runs are inside one subject only after an
\* interrupted one gave its file up (Locker, removeOnce).
KeepsOwnFile ==
  \A r \in Runs : pc[r] \in {"created", "held", "stopped"} /\ r \notin removed
                    => file[Subject(r)] = r

\* An interrupt leaves a lock behind only in two places: between the create
\* and signal.Notify, and between signal.Stop and the remove of a release;
\* however many locks the process holds.
StrayOnlyAtTheEdges ==
  \A r \in Runs : fate[Proc(r)] = "interrupted" /\ file[Subject(r)] = r
                    => pc[r] \in {"created", "stopped"}

\* reraise: the signal is not swallowed.  A process whose goroutine caught one
\* ends, even when its run is released in the meantime or other runs of the
\* process still listen; only an OnSignal hook may keep it alive.
SignalEndsProcess ==
  \A r \in Runs : r \in pending \/ handler[r] \in {"signalled", "removed", "raising"}
                    ~> fate[Proc(r)] # "up" \/ onSignal

\* The locks' bookkeeping: their types, and nobody removes another run's file.
Sound == TypeOK /\ KeepsOwnFile
=============================================================================
