---------------------------- MODULE IndexedDbStore ----------------------------
(* storage/indexeddb.ts with idb-helpers.ts and idb-schema.ts: the tables,  *)
(* the tombstones kept in memory beside them, and one write transaction at  *)
(* a time whose requests interleave with everything else.                   *)
(*   db      committed tables [stored, rows, del, bound]; rows maps an      *)
(*           address to its holder                                          *)
(*   cache   the DeletionState in memory, which decides every put           *)
(*   conn    "closed", "open", or "yielded" to a newer version              *)
(*   opening, loading   open() calls and cache loads not yet done           *)
(*   writer  the write in progress, or Idle: its op, the events left, its   *)
(*           view of the tables, the cache to restore, the loads before it  *)
(* The id of every row of tag_refs is the id of a stored event and written  *)
(* with it; the map of replaceable ids in memory is never read.  Both are   *)
(* left out.                                                                *)
EXTENDS MemoryIndex

CONSTANTS
  Batches, Removals, Bounds,   \* the arguments of the writes
  Legacy,      \* sets of events a version 1 database may hold
  Careful,     \* the application awaits open() before it writes, and the
               \* write before it closes
  WritesAbort  \* operations whose transaction may abort

VARIABLES db, cache, conn, opening, loading, writer

idbVars == <<db, cache, conn, opening, loading, writer>>

Idle == [op |-> Nothing]
MaxOpens == 2     \* bound: open() calls at a time

Ops == {[kind |-> "put", arg |-> b] : b \in Batches}
       \cup {[kind |-> "remove", arg |-> ids] : ids \in Removals}
       \cup {[kind |-> "bound", arg |-> b] : b \in Bounds}
       \cup {[kind |-> "clear", arg |-> Nothing]}

ASSUME WritesAssumption ==
  /\ Batches \subseteq Seq(Events) /\ Removals \subseteq SUBSET Ids
  /\ Legacy \subseteq SUBSET Events
  /\ Nothing \notin Ops

EmptyTables == [stored |-> {}, rows |-> <<>>, del |-> NoDeletion, bound |-> Nothing]

-----------------------------------------------------------------------------
\* The upgrade from version 1: requests apply in created_at order, what they
\* cover goes, and one winner per address stays and gets a row.
AbsorbAll(del, req, valid) ==
  LET plan == Plan(req, valid)
      gone == {ev \in valid : /\ ev.kind # "delete"
                              /\ ev.addr \in DOMAIN plan.until
                              /\ ev.at <= plan.until[ev.addr]}
  IN [Absorb(del, plan) EXCEPT !.ids = @ \cup {ev.id : ev \in gone}]

Latest(reqs) ==
  CHOOSE x \in reqs : \A y \in reqs \ {x} : y.at < x.at \/ (y.at = x.at /\ y.id < x.id)
AbsorbRequests(valid) ==
  MapThenFoldSet(LAMBDA req, del : AbsorbAll(del, req, valid), NoDeletion,
                 LAMBDA req : req, Latest, {ev \in valid : ev.kind = "delete"})

Migrate(legacy) ==
  LET valid == {ev \in legacy : ev.kind # "invalid"}
      del   == AbsorbRequests(valid)
      kept  == {ev \in valid : ~Covers(del, ev)}
      won   == {ev \in kept : ev.addr = Nothing
                              \/ \A x \in ByAddr(kept, ev.addr) : ~IsWinner(x, ev)}
      held  == {ev \in won : ev.addr # Nothing}
  IN [EmptyTables EXCEPT !.stored = won, !.del = del,
        !.rows = [c \in {ev.addr : ev \in held} |->
                    LET ev == CHOOSE x \in held : x.addr = c IN [id |-> ev.id, at |-> ev.at]]]

-----------------------------------------------------------------------------
(* One event of a putMany(): decided with the tables of the transaction and *)
(* the tombstones in memory, applied to both.                               *)
RowHolder(t) ==
  [c \in Addrs |-> IF c \in DOMAIN t.rows
                   THEN [id |-> t.rows[c].id, at |-> t.rows[c].at, evicted |-> FALSE]
                   ELSE Nothing]

DeleteEventRows_KeepRows(t, ids) == [t EXCEPT !.stored = Sans(@, ids)]
DeleteEventRows(t, ids) ==
  LET gone == {ev \in t.stored : ev.id \in ids}
  IN [t EXCEPT !.stored = @ \ gone,
               !.rows = RestrictValues(@, LAMBDA r : r.id \notin {ev.id : ev \in gone})]

PersistPlan_LastUntil(dl, plan, coords, mem) ==
  LET ids == plan.remove \cup coords
  IN [ids     |-> dl.ids \cup ids,
      pending |-> Over(Without(dl.pending, ids), Without(plan.pending, mem.ids)),
      until   |-> Over(dl.until, plan.until)]
\* The rows of the tombstones table; until counts from the cache.
PersistPlan(dl, plan, coords, mem) ==
  LET ids == plan.remove \cup coords
      until == [c \in DOMAIN plan.until |->
                  IF c \in DOMAIN mem.until THEN Max({mem.until[c], plan.until[c]})
                  ELSE plan.until[c]]
  IN [ids     |-> dl.ids \cup ids,
      pending |-> Over(Without(dl.pending, ids), Without(plan.pending, mem.ids)),
      until   |-> Over(dl.until, until)]

InsertRows(t, ev) ==
  [t EXCEPT !.stored = @ \cup {ev},
            !.rows = IF ev.addr = Nothing THEN @
                     ELSE Over(@, [c \in {ev.addr} |-> [id |-> ev.id, at |-> ev.at]])]

PutInTx(t, mem, ev) ==
  LET d    == Decide(ev, mem, t.stored, RowHolder(t))
      mem1 == [mem EXCEPT !.pending = Without(@, {ev.id})]
  IN CASE d.action = "skip" -> [work |-> t, mem |-> mem]
       [] d.action = "tombstone" ->
            [work |-> [t EXCEPT !.del = Tombstone(@, {ev.id})], mem |-> Tombstone(mem, {ev.id})]
       [] d.action = "delete" ->
            [work |-> [DeleteEventRows(t, d.plan.remove \cup d.coords) EXCEPT
                         !.stored = @ \cup {ev},
                         !.del = PersistPlan(@, d.plan, d.coords, mem1)],
             mem  |-> [Absorb(mem1, d.plan) EXCEPT !.ids = @ \cup d.coords]]
       [] d.action = "insert" ->
            [work |-> InsertRows(DeleteEventRows(t, d.drop), ev), mem |-> mem]

-----------------------------------------------------------------------------
Init == /\ \E legacy \in Legacy : db = Migrate(legacy)
        /\ cache = NoDeletion
        /\ conn = "closed"
        /\ opening = 0
        /\ loading = 0
        /\ writer = Idle

\* open(), called by the application or by an operation that finds no #db.
Open == /\ conn = "closed"
        /\ opening < MaxOpens
        /\ Careful => opening + loading = 0
        /\ opening' = opening + 1
        /\ UNCHANGED <<db, cache, conn, loading, writer>>

\* openDb() resolves: #db is set and the load begins with empty caches.
Opened == /\ opening > 0
          /\ opening' = opening - 1
          /\ conn' = "open"
          /\ loading' = loading + 1
          /\ cache' = NoDeletion
          /\ UNCHANGED <<db, writer>>

\* The rows of the tombstones table, as a plan to absorb.
TombstonesToPlan(dl) == [remove |-> dl.ids, pending |-> dl.pending, until |-> dl.until]

\* The load's read transaction runs in its turn among the transactions.
Loaded == /\ loading > 0
          /\ writer # Idle => writer.behind > 0
          /\ loading' = loading - 1
          /\ cache' = Absorb(cache, TombstonesToPlan(db.del))
          /\ writer' = IF writer = Idle THEN Idle ELSE [writer EXCEPT !.behind = @ - 1]
          /\ UNCHANGED <<db, conn, opening>>

\* A write's turn in #writeQueue: it creates its transaction.
Begin(op) == /\ writer = Idle
             /\ conn = "open"
             /\ Careful => opening + loading = 0
             /\ writer' = [op |-> op, work |-> db, snap |-> cache, behind |-> loading,
                           left |-> IF op.kind = "put" THEN op.arg ELSE <<Nothing>>]
             /\ UNCHANGED <<db, cache, conn, opening, loading>>

Running == writer # Idle /\ writer.behind = 0

\* The next event of the batch.
PutNext == /\ Running /\ writer.op.kind = "put" /\ writer.left # <<>>
           /\ LET r == PutInTx(writer.work, cache, Head(writer.left))
              IN /\ writer' = [writer EXCEPT !.work = r.work, !.left = Tail(@)]
                 /\ cache' = r.mem
           /\ UNCHANGED <<db, conn, opening, loading>>

\* remove(), clear() and setOutboxBound() issue all their requests.
OtherWrite ==
  /\ Running /\ writer.left = <<Nothing>>
  /\ LET op == writer.op
         t == writer.work
     IN CASE op.kind = "remove" ->
               /\ writer' = [writer EXCEPT !.left = <<>>, !.work =
                     [DeleteEventRows(t, op.arg) EXCEPT !.del = Tombstone(@, op.arg)]]
               /\ cache' = Tombstone(cache, op.arg)
          [] op.kind = "clear" ->
               /\ writer' = [writer EXCEPT !.left = <<>>, !.work = EmptyTables]
               /\ cache' = NoDeletion
          [] op.kind = "bound" ->
               /\ writer' = [writer EXCEPT !.left = <<>>, !.work = [t EXCEPT !.bound = op.arg]]
               /\ UNCHANGED cache
  /\ UNCHANGED <<db, conn, opening, loading>>

Commit == /\ Running /\ writer.left = <<>>
          /\ db' = writer.work
          /\ writer' = Idle
          /\ UNCHANGED <<cache, conn, opening, loading>>

RestoreCaches_Never(w) == cache
\* Only putMany() puts the caches back.
RestoreCaches(w) == IF w.op.kind = "put" THEN w.snap ELSE cache
Abort == /\ Running /\ writer.op.kind \in WritesAbort
         /\ cache' = RestoreCaches(writer)
         /\ writer' = Idle
         /\ UNCHANGED <<db, conn, opening, loading>>

\* close(); a transaction in progress still completes.
Close == /\ conn # "closed"
         /\ Careful => writer = Idle /\ opening + loading = 0
         /\ conn' = "closed"
         /\ UNCHANGED <<db, cache, opening, loading, writer>>

\* onversionchange: the connection is closed, operations fail from now on.
Yield == /\ conn = "open"
         /\ conn' = "yielded"
         /\ UNCHANGED <<db, cache, opening, loading, writer>>

\* The page goes away; the tables stay as of the last commit.
Crash == /\ cache' = NoDeletion
         /\ conn' = "closed"
         /\ opening' = 0
         /\ loading' = 0
         /\ writer' = Idle
         /\ UNCHANGED db

Next == \/ Open \/ Opened \/ Loaded
        \/ \E op \in Ops : Begin(op)
        \/ PutNext \/ OtherWrite \/ Commit \/ Abort
        \/ Close \/ Yield \/ Crash

Spec == Init /\ [][Next]_idbVars
=============================================================================
