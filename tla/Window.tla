------------------------------- MODULE Window -------------------------------
(***************************************************************************)
(* What a coordination.Waiter promises its callers, with no mention of the *)
(* files an adapter keeps (platform/coordination/coordination.go): one     *)
(* caller at a time inside the window of a subject, and a fence that every *)
(* occupancy finds strictly higher than all earlier ones.                  *)
(***************************************************************************)
EXTENDS Naturals

CONSTANTS Procs,   \* the callers of Acquire
          Nobody   \* the window is free; not a caller

VARIABLES occupant,   \* who is inside, or Nobody
          issued      \* the highest fence handed out so far

wvars == <<occupant, issued>>

Init == occupant = Nobody /\ issued = 0

\* Acquire returns to p with a nil error: the window was free and the fence
\* is one that nobody was given before.
Enter(p) == /\ occupant = Nobody
            /\ occupant' = p
            /\ issued' \in Nat /\ issued' > issued

\* The release function runs, or the occupant's process is gone.
Leave(p) == /\ occupant = p
            /\ occupant' = Nobody
            /\ UNCHANGED issued

Next == \E p \in Procs : Enter(p) \/ Leave(p)

Spec == Init /\ [][Next]_wvars
=============================================================================
