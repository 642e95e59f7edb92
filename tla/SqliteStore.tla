----------------------------- MODULE SqliteStore -----------------------------
(* storage/sqlite.ts: the tables are the only state, a write is one         *)
(* exclusive transaction of the driver (external), so it takes effect at    *)
(* once or not at all.  Reads use the tables alone: a stored event is       *)
(* returned without asking the tombstones.                                  *)
EXTENDS StorePolicy, SequencesExt

VARIABLE sql     \* [stored, del]

SqlEmpty == [stored |-> {}, del |-> NoDeletion]

Lookup_IdOnly(dl, ev) == [ids     |-> dl.ids \cap {ev.id},
                          pending |-> Restrict(dl.pending, DOMAIN dl.pending \cap {ev.id}),
                          until   |-> <<>>]
\* #buildLookup(): the event's own tombstones and the holders of the
\* addresses it has or names.
Lookup(dl, ev) == [ids     |-> dl.ids \cap {ev.id},
                   pending |-> Restrict(dl.pending, DOMAIN dl.pending \cap {ev.id}),
                   until   |-> Restrict(dl.until, DOMAIN dl.until \cap {ev.addr})]
SqlHolder(t) ==
  [c \in Addrs |-> IF ByAddr(t.stored, c) = {} THEN Nothing
                   ELSE LET ev == CHOOSE x \in ByAddr(t.stored, c) : TRUE
                        IN [id |-> ev.id, at |-> ev.at, evicted |-> FALSE]]

\* #persistPlan()
SqlPersistPlan(dl, id, plan, coords) ==
  LET ids == plan.remove \cup coords
      later(c) == IF c \in DOMAIN dl.until THEN Max({dl.until[c], plan.until[c]})
                                           ELSE plan.until[c]
      all == dl.ids \cup ids
  IN [ids     |-> all,
      pending |-> Over(Without(dl.pending, ids \cup {id}), Without(plan.pending, all)),
      until   |-> Over(dl.until, [c \in DOMAIN plan.until |-> later(c)])]

SqlPut(t, ev) ==
  LET d == Decide(ev, Lookup(t.del, ev), t.stored, SqlHolder(t))
  IN CASE d.action = "skip" -> t
       [] d.action = "tombstone" -> [t EXCEPT !.del = Tombstone(@, {ev.id})]
       [] d.action = "delete" ->
            [stored |-> Sans(t.stored, d.plan.remove \cup d.coords) \cup {ev},
             del    |-> SqlPersistPlan(t.del, ev.id, d.plan, d.coords)]
       [] d.action = "insert" -> [t EXCEPT !.stored = Sans(@, d.drop) \cup {ev}]

SqlPutMany(batch) == sql' = FoldLeft(SqlPut, sql, batch)
SqlRemove(ids) == sql' = [stored |-> Sans(sql.stored, ids), del |-> Tombstone(sql.del, ids)]
SqlClear == sql' = SqlEmpty

=============================================================================
