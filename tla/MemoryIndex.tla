----------------------------- MODULE MemoryIndex -----------------------------
(* storage/memory-index.ts as functions of its state, and the memory store  *)
(* (storage/memory.ts), its facade without caps and evictions.  The state   *)
(* is [stored, del, marks, fifo]: the events, the deletion state, the       *)
(* watermarks of evicted winners, oldest first, and the tombstones, oldest  *)
(* first.  The per-author, per-kind and per-tag sets and the map from       *)
(* address to holder are functions of stored and are not kept.              *)
EXTENDS StorePolicy, SeqFilter

CONSTANTS
  MaxTombstones,   \* cap on each kind of tombstone, Nothing for none
  MaxWatermarks    \* cap on watermarks, 0 for none

EmptyIndex == [stored |-> {}, del |-> NoDeletion, marks |-> <<>>, fifo |-> <<>>]

DropMarks(st, ids, addrs) ==
  [st EXCEPT !.marks = Only(@, {m \in ToSet(@) : m.id \notin ids /\ m.addr \notin addrs})]

Current(st, addr) == IF ByAddr(st.stored, addr) = {} THEN Nothing
                     ELSE CHOOSE ev \in ByAddr(st.stored, addr) : TRUE

\* getReplaceable(): the stored holder of each address, or its watermark.
Holder(st) ==
  [c \in Addrs |->
     LET ev == Current(st, c)
         marked == {n \in DOMAIN st.marks : st.marks[n].addr = c}
     IN IF ev # Nothing THEN [id |-> ev.id, at |-> ev.at, evicted |-> FALSE]
        ELSE IF marked = {} THEN Nothing
        ELSE LET m == st.marks[Min(marked)] IN [id |-> m.id, at |-> m.at, evicted |-> TRUE]]

IndexInsert(st, ev) ==
  [DropMarks(st, {}, {ev.addr}) EXCEPT !.stored = @ \cup {ev}]
IndexRemove(st, ids) ==
  [DropMarks(st, ids, {}) EXCEPT !.stored = Sans(@, ids)]

-----------------------------------------------------------------------------
(* Tombstones in the order they were made.  Absorbing an address again      *)
(* makes it the newest; trimming an id forgets what waits for it too.       *)
Marked(del) == {<<"id", i>> : i \in del.ids} \cup {<<"pending", i>> : i \in DOMAIN del.pending}
               \cup {<<"until", c>> : c \in DOMAIN del.until}

Trimmed(st, again) ==
  IF MaxTombstones = Nothing THEN st ELSE
  LET marked == Marked(st.del)
      kept   == Only(st.fifo, marked \ again)
      all    == kept \o SetToSeq(marked \ ToSet(kept))
      of(k)  == Only(all, {t \in marked : t[1] = k})
      old(k) == {of(k)[n][2] : n \in 1..(Len(of(k)) - MaxTombstones)}
      \* ids first: an id that goes takes its pending entry along
      pend   == Only(all, {<<"pending", i>> : i \in DOMAIN st.del.pending \ old("id")})
      oldp   == {pend[n][2] : n \in 1..(Len(pend) - MaxTombstones)}
      del    == [ids     |-> st.del.ids \ old("id"),
                 pending |-> Without(st.del.pending, old("id") \cup oldp),
                 until   |-> Without(st.del.until, old("until"))]
  IN [stored |-> st.stored, del |-> del, marks |-> st.marks, fifo |-> Only(all, Marked(del))]

-----------------------------------------------------------------------------
(* put(): decidePut(), applyPutMemory() and the trim.  A deletion drops the *)
(* watermarks of the ids it waits for and of all its addresses.             *)
Put(st, ev) ==
  LET d == Decide(ev, st.del, st.stored, Holder(st))
      unmarked == DropMarks(st, DOMAIN d.plan.pending, DOMAIN d.plan.until)
      waiting == [st.del EXCEPT !.pending = Without(@, {ev.id})]
      absorbed == [Absorb(waiting, d.plan) EXCEPT !.ids = @ \cup d.coords]
  IN CASE d.action = "skip" -> Trimmed(st, {})
       [] d.action = "tombstone" ->
            Trimmed([st EXCEPT !.del = Tombstone(@, {ev.id})], {})
       [] d.action = "delete" ->
            Trimmed(IndexInsert(IndexRemove([unmarked EXCEPT !.del = absorbed],
                                            d.plan.remove \cup d.coords), ev),
                    {<<"until", c>> : c \in DOMAIN d.plan.until})
       [] d.action = "insert" -> IndexInsert(IndexRemove(st, d.drop), ev)

PutMany(st, batch) == FoldLeft(Put, st, batch)

RemoveIds(st, ids) ==
  Trimmed([IndexRemove(st, ids) EXCEPT !.del = Tombstone(@, ids)], {})

EvictOne_NoMark(st, id) == IndexRemove(st, {id})
\* evict(): no tombstone; a winner leaves a watermark, newest last.
EvictOne(st, id) ==
  LET ev   == ById(st.stored, id)
      out  == IndexRemove(st, {id})
      mark == [addr |-> ev.addr, id |-> id, at |-> ev.at]
      all  == Append(DropMarks(out, {}, {ev.addr}).marks, mark)
  IN IF ev = Nothing THEN st
     ELSE IF ev.addr = Nothing \/ MaxWatermarks = 0 THEN out
     ELSE [out EXCEPT !.marks =
             SubSeq(all, Max({1, Len(all) - MaxWatermarks + 1}), Len(all))]
Evict(st, ids) == FoldLeft(EvictOne, st, ids)

-----------------------------------------------------------------------------
(* Reads: get(), getByAddress(), isDeleted(), matchedEvents() for a filter  *)
(* given as the set of events it matches, and the bound an author's and     *)
(* kind's events have when none was stored.                                 *)
Get(st, id) == IF id \in st.del.ids THEN Nothing ELSE ById(st.stored, id)
GetByAddress(st, addr) ==
  LET ev == Current(st, addr)
  IN IF ev # Nothing /\ ev.id \in st.del.ids THEN Nothing ELSE ev
Visible(st) == {ev \in st.stored : ~Covers(st.del, ev)}
\* The first n by NIP-01 order.
Newest(evs, n) == {ev \in evs : Cardinality({x \in evs : IsWinner(x, ev)}) < n}
Query(st, matching, limit) == Newest(Visible(st) \cap matching, limit)
IsDeletedAddress(st, addr) ==
  /\ addr \in DOMAIN st.del.until
  /\ LET ev == Current(st, addr) IN ev = Nothing \/ ev.at <= st.del.until[addr]
DeriveBound(st, by, kind) ==
  LET ats == {ev.at : ev \in {x \in Visible(st) : x.by = by /\ x.kind = kind}}
  IN IF ats = {} THEN Nothing ELSE [oldest |-> Min(ats), newest |-> Max(ats)]

=============================================================================
