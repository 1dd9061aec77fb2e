----------------------------- MODULE BatchBuffer -----------------------------
(***************************************************************************)
(* platform/async: BatchBuffer.  Add and Flush swap the slice out under    *)
(* b.mu and call onFlush after unlocking, so several batches can be on     *)
(* their way at once.  A batch whose callback fails belongs to the caller  *)
(* from then on (FlushError.Items).                                        *)
(***************************************************************************)
EXTENDS Naturals, Sequences, FiniteSets, SequencesExt

CONSTANTS
  Items,     \* what is added, each by one call of Add
  Flushers,  \* goroutines that call Flush, any number of times
  Limit      \* b.limit

Callers == Items \cup Flushers

VARIABLES
  items,      \* b.items
  call,       \* "idle", "flushing" or (Add only) "returned"
  batch,      \* the slice a caller swapped out and is passing to onFlush
  delivered,  \* batches onFlush accepted, in the order it returned
  handed,     \* batches given back in a FlushError
  added       \* history: all items in the order Add took them

vars == <<items, call, batch, delivered, handed, added>>

Init == /\ items = <<>>
        /\ call = [c \in Callers |-> "idle"]
        /\ batch = [c \in Callers |-> <<>>]
        /\ delivered = <<>> /\ handed = {}
        /\ added = <<>>

\* Add, up to the unlock: append, and swap the slice out at the limit.
Add(i) ==
  /\ call[i] = "idle"
  /\ added' = Append(added, i)
  /\ IF Len(items) + 1 >= Limit
       THEN /\ batch' = [batch EXCEPT ![i] = Append(items, i)]
            /\ items' = <<>>
            /\ call' = [call EXCEPT ![i] = "flushing"]
       ELSE /\ items' = Append(items, i)
            /\ call' = [call EXCEPT ![i] = "returned"]
            /\ UNCHANGED batch
  /\ UNCHANGED <<delivered, handed>>

\* Mutation of Flush: the slice is copied, not swapped out.
FlushCopy(f) ==
  /\ call[f] = "idle"
  /\ items # <<>>
  /\ batch' = [batch EXCEPT ![f] = items]
  /\ call' = [call EXCEPT ![f] = "flushing"]
  /\ UNCHANGED <<items, delivered, handed, added>>

\* Flush, up to the unlock; an empty buffer is left alone.
Flush(f) ==
  /\ call[f] = "idle"
  /\ items # <<>>
  /\ batch' = [batch EXCEPT ![f] = items]
  /\ items' = <<>>
  /\ call' = [call EXCEPT ![f] = "flushing"]
  /\ UNCHANGED <<delivered, handed, added>>

\* onFlush returns: nil, or an error that makes Add or Flush return the batch.
FlushReturns(c) ==
  /\ call[c] = "flushing"
  /\ \/ /\ delivered' = Append(delivered, batch[c])
        /\ UNCHANGED handed
     \/ /\ handed' = handed \cup {batch[c]}
        /\ UNCHANGED delivered
  /\ batch' = [batch EXCEPT ![c] = <<>>]
  /\ call' = [call EXCEPT ![c] = IF c \in Flushers THEN "idle" ELSE "returned"]
  /\ UNCHANGED <<items, added>>

Next == \/ \E i \in Items : Add(i)
        \/ \E f \in Flushers : Flush(f)
        \/ \E c \in Callers : FlushReturns(c)

Spec == Init /\ [][Next]_vars
-----------------------------------------------------------------------------
\* Every variable has the type the code gives it (BatchBuffer, FlushError), and
\* onFlush is never called with an empty batch.
TypeOK ==
  /\ items \in Seq(Items)
  /\ call \in [Callers -> {"idle", "flushing", "returned"}]
  /\ batch \in [Callers -> Seq(Items)]
  /\ \A c \in Callers : call[c] = "flushing" <=> batch[c] # <<>>
  /\ delivered \in Seq(Seq(Items))
  /\ handed \in SUBSET Seq(Items)
  /\ added \in Seq(Items)

\* Where items can be: in the buffer, in a batch in flight, delivered or back
\* with the caller.
Lots == {items} \cup {batch[c] : c \in Callers} \cup ToSet(delivered) \cup handed

\* The places that item i is in; a repetition in the buffer is two places.
Places(i) ==
  {<<"buffer", n>> : n \in {m \in DOMAIN items : items[m] = i}}
  \cup {<<"flight", c>> : c \in {d \in Callers : Contains(batch[d], i)}}
  \cup {<<"delivered", n>> : n \in {m \in DOMAIN delivered : Contains(delivered[m], i)}}
  \cup {<<"handed", b>> : b \in {l \in handed : Contains(l, i)}}

\* The failure contract: concurrent Adds and Flushes neither lose nor repeat
\* an item; a batch is delivered or handed back, never both.
Conservation ==
  \A i \in Items : IF Contains(added, i) THEN \E p \in Places(i) : Places(i) = {p}
                                         ELSE Places(i) = {}

\* b is the piece of what was added that begins behind position k.
Piece(b, k) == k + Len(b) <= Len(added) /\ \A n \in DOMAIN b : b[n] = added[k + n]

\* A batch never exceeds the limit and never mixes up the order of Adds: it
\* is a contiguous piece of what was added, and what waits in the buffer is
\* the newest piece, shorter than the limit.
Segments ==
  /\ Len(items) < Limit
  /\ Len(items) <= Len(added) /\ Piece(items, Len(added) - Len(items))
  /\ \A b \in Lots : Len(b) <= Limit /\ \E k \in 0..Len(added) : Piece(b, k)

\* The buffer's bookkeeping: its types, no item lost or repeated, and batches
\* that are contiguous pieces within the limit (Add, Flush).
Sound == TypeOK /\ Conservation /\ Segments
=============================================================================
