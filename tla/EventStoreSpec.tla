---------------------------- MODULE EventStoreSpec ----------------------------
(* The memory store, with every write at once, whole or not at all: what a  *)
(* store with transactions implements (storage/types.ts).  The class        *)
(* MemoryEventStore does PutBatch for batches of one event; its putMany()   *)
(* awaits between the puts of a longer batch, so that it is a sequence of   *)
(* such steps, and others may see and write between them.  The deletion     *)
(* state is kept in canonical form (Canon).                                 *)
EXTENDS MemoryIndex

CONSTANTS
  Batches,    \* sequences of events given to putMany()
  Removals,   \* sets of ids given to remove()
  Bounds      \* values given to setOutboxBound()

VARIABLES stored, del, bound

Index == [EmptyIndex EXCEPT !.stored = stored, !.del = del]
Becomes(st) == stored' = st.stored /\ del' = Canon(st.del)

\* A store starts with events that it may hold together.
Init ==
  /\ \A ev \in stored : ~Covers(del, ev)
  /\ \A x, y \in stored : x # y => x.id # y.id /\ (x.addr = y.addr => x.addr = Nothing)
  /\ bound = Nothing

\* put(), or a batch of puts in input order and at once.
PutBatch(batch) == Becomes(PutMany(Index, batch)) /\ UNCHANGED bound
RemoveBatch(ids) == Becomes(RemoveIds(Index, ids)) /\ UNCHANGED bound
ClearAll == stored' = {} /\ del' = NoDeletion /\ bound' = Nothing
SetBound(b) == bound' = b /\ UNCHANGED <<stored, del>>

Next == \/ \E batch \in Batches : PutBatch(batch)
        \/ \E ids \in Removals : RemoveBatch(ids)
        \/ ClearAll
        \/ \E b \in Bounds : SetBound(b)

Spec == Init /\ [][Next]_<<stored, del, bound>>

=============================================================================
