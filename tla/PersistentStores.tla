--------------------------- MODULE PersistentStores ---------------------------
(* The IndexedDB store and the SQLite store given the same committed        *)
(* writes, against each other and against the memory store.                 *)
EXTENDS IndexedDbStore, SqliteStore

vars == <<idbVars, sql>>

SInit == Init /\ sql = [stored |-> db.stored, del |-> db.del]

\* The same write on SQLite, when IndexedDB has committed it.
Same(op) == CASE op.kind = "put" -> SqlPutMany(op.arg)
              [] op.kind = "remove" -> SqlRemove(op.arg)
              [] op.kind = "clear" -> SqlClear
              [] op.kind = "bound" -> UNCHANGED sql

Committed == Commit /\ Same(writer.op)

SNext == \/ Committed
         \/ (Open \/ Opened \/ Loaded) /\ UNCHANGED sql
         \/ (\E op \in Ops : Begin(op)) /\ UNCHANGED sql
         \/ (PutNext \/ OtherWrite \/ Abort) /\ UNCHANGED sql
         \/ (Close \/ Yield \/ Crash) /\ UNCHANGED sql

SSpec == SInit /\ [][SNext]_vars

-----------------------------------------------------------------------------
(* Types of the two stores' state.                                          *)
DeletionOK(dl) == /\ dl.ids \subseteq Ids
                  /\ DOMAIN dl.pending \subseteq Ids /\ Range(dl.pending) \subseteq Authors
                  /\ DOMAIN dl.until \subseteq Addrs /\ Range(dl.until) \subseteq Nat
TablesOK(t) == /\ t.stored \subseteq Events
               /\ DOMAIN t.rows \subseteq Addrs
               /\ DeletionOK(t.del)
               /\ t.bound \in Bounds \cup {Nothing}
TypeOK == /\ TablesOK(db) /\ DeletionOK(cache)
          /\ conn \in {"closed", "open", "yielded"}
          /\ opening \in 0..MaxOpens /\ loading \in 0..MaxOpens
          /\ writer # Idle => /\ writer.op \in Ops
                              /\ TablesOK(writer.work) /\ DeletionOK(writer.snap)
                              /\ writer.behind \in 0..MaxOpens
          /\ sql.stored \subseteq Events /\ DeletionOK(sql.del)

(* The tombstones in memory decide every put, the tables outlive the page:  *)
(* whenever the store is open and no write is in progress, both must judge  *)
(* every event alike, whatever aborted, crashed or was reopened before      *)
(* (#snapshotCaches, #restoreCaches, #loadCaches).                          *)
CacheFaithful ==
  conn = "open" /\ opening + loading = 0 /\ writer = Idle =>
    \A ev \in Events : Covers(cache, ev) <=> Covers(db.del, ev)

(* The addresses table, by which puts find what they replace, names exactly *)
(* the stored replaceable events, one per address, after any upgrade,       *)
(* replacement, deletion and removal.                                       *)
AddressRowsExact ==
  /\ \A c \in DOMAIN db.rows : \E ev \in db.stored : ev.addr = c /\ ev.id = db.rows[c].id
  /\ \A ev \in db.stored : ev.addr # Nothing => ev.addr \in DOMAIN db.rows /\ db.rows[ev.addr].id = ev.id

(* NIP-09 in whatever order requests and events came: no event is stored    *)
(* together with its own author's request to delete it, except that one     *)
(* author only is remembered for an unknown id, so that a stranger's        *)
(* request for the same id may have displaced the author's.                 *)
Names(req, ev) == ev.id \in req.e \/ (ev.addr \in req.a /\ ev.at <= req.at)
Displaced(ev) == \E req \in Events : /\ req.kind = "delete" /\ req.by # ev.by
                                     /\ ev.id \in req.e
                                     /\ req \in db.stored \/ req.id \in db.del.ids
DeletedNeverServed ==
  \A req, ev \in db.stored :
    req.kind = "delete" /\ ev.kind # "delete" /\ req.by = ev.by /\ Names(req, ev) =>
      ev.id \in req.e /\ ~(ev.addr \in req.a /\ ev.at <= req.at) /\ Displaced(ev)

(* The same without the exception, as deletion.ts states the rule: an       *)
(* unknown e tag is pending until the event arrives.                        *)
PendingRequestHolds ==
  \A req, ev \in db.stored :
    ~(req.kind = "delete" /\ ev.kind # "delete" /\ req.by = ev.by /\ Names(req, ev))

(* SQLite reads its tables without asking the tombstones: given the same    *)
(* writes it must hold the events IndexedDB holds, judge every event as     *)
(* IndexedDB does, and hold no event that its tombstones cover.             *)
SqliteAgrees ==
  /\ sql.stored = db.stored
  /\ \A ev \in Events : Covers(sql.del, ev) <=> Covers(db.del, ev)
  /\ \A ev \in sql.stored : ~Covers(sql.del, ev)

(* The IndexedDB store implements the memory store with atomic batches: a   *)
(* commit is one write of the memory store, every other step is none        *)
(* (types.ts: one transaction, abort rolls the batch back).                 *)
Memory == INSTANCE EventStoreSpec WITH stored <- db.stored,
                                       del    <- Canon(db.del),
                                       bound  <- db.bound
ImplementsMemoryStore == Memory!Spec

=============================================================================
