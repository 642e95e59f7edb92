------------------------ MODULE PersistentStores_proofs ------------------------
(***************************************************************************)
(* Proofs about the persistent stores.                                     *)
(***************************************************************************)
EXTENDS PersistentStores, StoreLemmas

-----------------------------------------------------------------------------
(* Types, as sets.                                                         *)
Rows == [id : Ids, at : Nat]
Tables == [stored : SUBSET Events, rows : Partial(Addrs, Rows), del : Deletions,
           bound : Bounds \cup {Nothing}]
Writers == [op : Ops, work : Tables, snap : Deletions, behind : Nat,
            left : Seq(Events \cup {Nothing})]

-----------------------------------------------------------------------------
(* The deletion state as IndexedDB keeps it.                               *)
\* The rows of the tombstones table after a request.
LEMMA PersistIs ==
  ASSUME NEW d \in Deletions, NEW m \in Deletions, Alike(m, d), NEW plan \in Plans, NEW X,
         NEW coords \in SUBSET Ids, NEW r,
         r = PersistPlan(d, plan, coords, [m EXCEPT !.pending = Without(@, X)])
  PROVE  After(r, d, plan, plan.remove \cup coords)
<1>1. PICK ids : ids = plan.remove \cup coords
  OBVIOUS
<1>2. PICK q : q = Over(Without(d.pending, ids), Without(plan.pending, m.ids))
  OBVIOUS
<1>3. m.until = d.until /\ m.ids = d.ids
  BY DEF Alike
<1>4. r = [ids |-> d.ids \cup ids, pending |-> q, until |-> Later(d.until, plan.until)]
  BY <1>1, <1>2, <1>3 DEF PersistPlan, Later, Seconds, Deletions
<1>5. /\ r.ids = d.ids \cup (plan.remove \cup coords) /\ r.pending = q
      /\ r.until = Later(d.until, plan.until)
  BY <1>1, <1>4
<1>6. /\ plan.remove \in SUBSET Ids /\ plan.pending \in Partial(Ids, Authors) /\ d.pending \in Partial(Ids, Authors)
      /\ plan.until \in Partial(Addrs, Nat) /\ d.until \in Partial(Addrs, Nat) /\ d.ids \in SUBSET Ids
  BY DEF Plans, Deletions
<1>7. /\ q \in Partial(Ids, Authors)
      /\ \A i : i \notin ids /\ i \notin m.ids =>
           At(q, i) = IF i \in DOMAIN plan.pending THEN plan.pending[i] ELSE At(d.pending, i)
  BY <1>2, <1>6, Merge
<1>8. r \in Deletions
  <2>1. Later(d.until, plan.until) \in Partial(Addrs, Nat)
    BY <1>6, LaterType
  <2>2. d.ids \cup ids \in SUBSET Ids
    BY <1>1, <1>6
  <2> QED
    BY <1>4, <1>7, <2>1, <2>2 DEF Deletions
<1>9. \A i \in Ids \ (r.ids \cup RequestIds) :
         At(r.pending, i) = IF i \in DOMAIN plan.pending THEN plan.pending[i] ELSE At(d.pending, i)
  BY <1>1, <1>3, <1>5, <1>7
<1> QED
  BY <1>5, <1>8, <1>9 DEF After

\* They have the type whatever the cache holds.
LEMMA PersistType ==
  ASSUME NEW d \in Deletions, NEW m \in Deletions, NEW plan \in Plans, NEW X, NEW coords \in SUBSET Ids
  PROVE  PersistPlan(d, plan, coords, [m EXCEPT !.pending = Without(@, X)]) \in Deletions
<1>1. PICK ids : ids = plan.remove \cup coords
  OBVIOUS
<1>2. PICK q : q = Over(Without(d.pending, ids), Without(plan.pending, m.ids))
  OBVIOUS
<1>3. PICK u : u = Over(d.until, Seconds(m.until, plan.until))
  OBVIOUS
<1>4. PersistPlan(d, plan, coords, [m EXCEPT !.pending = Without(@, X)])
        = [ids |-> d.ids \cup ids, pending |-> q, until |-> u]
  BY <1>1, <1>2, <1>3 DEF PersistPlan, Seconds, Deletions
<1>5. q \in Partial(Ids, Authors)
  BY <1>2, WithoutType, OverType DEF Plans, Deletions
<1>6. u \in Partial(Addrs, Nat)
  BY <1>3, SecondsType, OverType DEF Plans, Deletions
<1>7. d.ids \cup ids \in SUBSET Ids
  BY <1>1 DEF Plans, Deletions
<1> QED
  BY <1>4, <1>5, <1>6, <1>7 DEF Deletions

-----------------------------------------------------------------------------
(* The tables.                                                             *)
RowOf(ev) == [id |-> ev.id, at |-> ev.at]
RowsExact(t) ==
  /\ \A c \in DOMAIN t.rows : \E ev \in t.stored : ev.addr = c /\ t.rows[c] = RowOf(ev)
  /\ \A ev \in t.stored : ev.addr # Nothing => ev.addr \in DOMAIN t.rows /\ t.rows[ev.addr] = RowOf(ev)

\* The fields of an event's row of the addresses table.
LEMMA RowParts ==
  ASSUME NEW ev \in Events
  PROVE  RowOf(ev) \in Rows /\ RowOf(ev).id = ev.id /\ RowOf(ev).at = ev.at
BY EventsAssumption DEF Rows, RowOf, Ids

\* Exact rows leave room for one stored event per address.
LEMMA RowsOne ==
  ASSUME NEW t, t.stored \subseteq Events, RowsExact(t)
  PROVE  OnePerAddress(t.stored)
<1> SUFFICES ASSUME NEW x \in t.stored, NEW y \in t.stored, x.addr = y.addr, x.addr # Nothing
             PROVE  x = y
  BY DEF OnePerAddress
<1>1. RowOf(x) = RowOf(y)
  BY DEF RowsExact
<1> QED
  BY <1>1, RowParts, EventsAssumption

\* IndexedDB's addresses table, when exact, names the holders.
LEMMA RowHolderIs ==
  ASSUME NEW t, t.stored \subseteq Events, RowsExact(t)
  PROVE  HolderOf(RowHolder(t), t.stored)
<1>1. PICK h : h = RowHolder(t)
  OBVIOUS
<1>2. h = [c \in Addrs |-> h[c]]
  BY <1>1 DEF RowHolder
<1>3. ASSUME NEW c \in Addrs, \A ev \in t.stored : ev.addr # c PROVE h[c] = Nothing
  BY <1>1, <1>3 DEF RowHolder, RowsExact
<1>4. ASSUME NEW ev \in t.stored, ev.addr # Nothing PROVE h[ev.addr] = HeldAs(ev)
  <2>1. ev.addr \in Addrs /\ ev.addr \in DOMAIN t.rows
    BY <1>4 DEF Addrs, RowsExact
  <2>2. t.rows[ev.addr].id = ev.id /\ t.rows[ev.addr].at = ev.at
    BY <1>4, RowParts DEF RowsExact
  <2> QED
    BY <1>1, <2>1, <2>2 DEF RowHolder, HeldAs
<1> QED
  BY <1>1, <1>2, <1>3, <1>4 DEF HolderOf

\* SQLite's query by address names the holders when an address has one event.
LEMMA SqlHolderIs ==
  ASSUME NEW t, t.stored \subseteq Events, OnePerAddress(t.stored)
  PROVE  HolderOf(SqlHolder(t), t.stored)
<1>1. PICK h : h = SqlHolder(t)
  OBVIOUS
<1>2. h = [c \in Addrs |-> h[c]]
  BY <1>1 DEF SqlHolder
<1>3. ASSUME NEW c \in Addrs, \A ev \in t.stored : ev.addr # c PROVE h[c] = Nothing
  BY <1>1, <1>3 DEF SqlHolder, ByAddr
<1>4. ASSUME NEW ev \in t.stored, ev.addr # Nothing PROVE h[ev.addr] = HeldAs(ev)
  <2>1. ev.addr \in Addrs
    BY <1>4 DEF Addrs
  <2>2. ByAddr(t.stored, ev.addr) = {ev}
    BY <1>4 DEF ByAddr, OnePerAddress
  <2>3. (CHOOSE y \in ByAddr(t.stored, ev.addr) : TRUE) = ev
    BY <2>2
  <2> QED
    BY <1>1, <2>1, <2>2, <2>3 DEF SqlHolder, HeldAs
<1> QED
  BY <1>1, <1>2, <1>3, <1>4 DEF HolderOf

\* deleteStoredEvent() for some ids.
LEMMA DeleteRowsIs ==
  ASSUME NEW t \in Tables, RowsExact(t), NEW ids, NEW u, u = DeleteEventRows(t, ids)
  PROVE  /\ u \in Tables /\ RowsExact(u)
         /\ u.stored = Sans(t.stored, ids) /\ u.del = t.del /\ u.bound = t.bound
<1>1. PICK gone : gone = {ev \in t.stored : ev.id \in ids}
  OBVIOUS
<1>2. PICK r : r = Restrict(t.rows, {c \in DOMAIN t.rows : t.rows[c].id \notin {ev.id : ev \in gone}})
  OBVIOUS
<1>3. u = [t EXCEPT !.stored = t.stored \ gone, !.rows = r]
  BY <1>1, <1>2 DEF DeleteEventRows, RestrictValues
<1>4. t.stored \subseteq Events /\ t.rows \in Partial(Addrs, Rows)
  BY DEF Tables
<1>5. /\ DOMAIN t.rows \subseteq Addrs /\ \A c \in DOMAIN t.rows : t.rows[c] \in Rows
  BY <1>4, Partials
<1>6. /\ r = [c \in DOMAIN r |-> r[c]]
      /\ DOMAIN r = {c \in DOMAIN t.rows : t.rows[c].id \notin {ev.id : ev \in gone}}
      /\ \A c \in DOMAIN r : r[c] = t.rows[c]
  BY <1>2 DEF Restrict
<1>7. r \in Partial(Addrs, Rows)
  BY <1>5, <1>6, Partials
<1>8. /\ u.stored = t.stored \ gone /\ u.rows = r /\ u.del = t.del /\ u.bound = t.bound
      /\ u \in Tables
  BY <1>3, <1>4, <1>7 DEF Tables
<1>9. t.stored \ gone = Sans(t.stored, ids)
  BY <1>1 DEF Sans
<1>10. \A x, y \in t.stored : x.id = y.id => x = y
  BY <1>4, EventsAssumption
<1>11. ASSUME NEW c \in DOMAIN r PROVE \E ev \in t.stored \ gone : ev.addr = c /\ r[c] = RowOf(ev)
  <2>1. PICK ev \in t.stored : ev.addr = c /\ t.rows[c] = RowOf(ev)
    BY <1>6, <1>11 DEF RowsExact
  <2>2. t.rows[c].id = ev.id
    BY <1>4, <2>1, RowParts
  <2> QED
    BY <1>6, <2>1, <2>2
<1>12. ASSUME NEW ev \in t.stored \ gone, ev.addr # Nothing
       PROVE  ev.addr \in DOMAIN r /\ r[ev.addr] = RowOf(ev)
  <2>1. ev.addr \in DOMAIN t.rows /\ t.rows[ev.addr] = RowOf(ev)
    BY <1>12 DEF RowsExact
  <2>2. t.rows[ev.addr].id = ev.id
    BY <1>4, <2>1, RowParts
  <2>3. ev.id \notin {x.id : x \in gone}
    BY <1>1, <1>10
  <2> QED
    BY <1>6, <2>1, <2>2, <2>3
<1>13. RowsExact(u)
  BY <1>8, <1>11, <1>12 DEF RowsExact
<1> QED
  BY <1>8, <1>9, <1>13

\* Storing an event whose address is free.
LEMMA InsertRowsIs ==
  ASSUME NEW t \in Tables, RowsExact(t), NEW ev \in Events,
         \A x \in t.stored : ev.addr = Nothing \/ x.addr # ev.addr, NEW u, u = InsertRows(t, ev)
  PROVE  /\ u \in Tables /\ RowsExact(u)
         /\ u.stored = t.stored \cup {ev} /\ u.del = t.del /\ u.bound = t.bound
<1>1. t.stored \subseteq Events /\ t.rows \in Partial(Addrs, Rows)
  BY DEF Tables
<1>2. PICK r : r = IF ev.addr = Nothing THEN t.rows ELSE Over(t.rows, [c \in {ev.addr} |-> RowOf(ev)])
  OBVIOUS
<1>3. u = [t EXCEPT !.stored = t.stored \cup {ev}, !.rows = r]
  BY <1>2 DEF InsertRows, RowOf
<1>4. /\ DOMAIN r = IF ev.addr = Nothing THEN DOMAIN t.rows ELSE DOMAIN t.rows \cup {ev.addr}
      /\ \A c \in DOMAIN r : r[c] = IF ev.addr # Nothing /\ c = ev.addr THEN RowOf(ev) ELSE t.rows[c]
  BY <1>2 DEF Over
<1>5. r \in Partial(Addrs, Rows)
  <2>1. CASE ev.addr = Nothing
    BY <1>1, <1>2, <2>1
  <2>2. CASE ev.addr # Nothing
    <3>1. PICK s : s = [c \in {ev.addr} |-> RowOf(ev)]
      OBVIOUS
    <3>2. ev.addr \in Addrs /\ RowOf(ev) \in Rows
      BY <2>2, RowParts DEF Addrs
    <3>3. s = [c \in DOMAIN s |-> s[c]] /\ DOMAIN s \subseteq Addrs /\ \A c \in DOMAIN s : s[c] \in Rows
      BY <3>1, <3>2
    <3>4. s \in Partial(Addrs, Rows)
      BY <3>3, Partials
    <3> QED
      BY <1>1, <1>2, <2>2, <3>1, <3>4, OverType
  <2> QED
    BY <2>1, <2>2
<1>6. /\ u.stored = t.stored \cup {ev} /\ u.rows = r /\ u.del = t.del /\ u.bound = t.bound
      /\ u \in Tables
  BY <1>1, <1>3, <1>5, ZenonT(40) DEF Tables
<1>7. ASSUME NEW c \in DOMAIN r PROVE \E x \in t.stored \cup {ev} : x.addr = c /\ r[c] = RowOf(x)
  BY <1>4, <1>7 DEF RowsExact
<1>8. ASSUME NEW x \in t.stored \cup {ev}, x.addr # Nothing
      PROVE  x.addr \in DOMAIN r /\ r[x.addr] = RowOf(x)
  BY <1>4, <1>8 DEF RowsExact
<1>9. RowsExact(u)
  BY <1>6, <1>7, <1>8 DEF RowsExact
<1> QED
  BY <1>6, <1>9

-----------------------------------------------------------------------------
(* One event of a putMany(): r.work and r.mem follow t and mem.            *)

Marks(ev, r, t, mem) ==
  /\ ev.kind # "delete" /\ Unknown(ev, mem, t.stored)
  /\ r.work = [t EXCEPT !.del = Tombstone(@, {ev.id})] /\ r.mem = Tombstone(mem, {ev.id})
Deletes(ev, r, t, mem) ==
  /\ ev.kind = "delete" /\ Unknown(ev, mem, t.stored)
  /\ r.work.stored = Sans(t.stored, Erased(ev, t.stored)) \cup {ev} /\ r.work.bound = t.bound
  /\ After(r.mem, mem, Plan(ev, t.stored), Erased(ev, t.stored))
  /\ Alike(mem, t.del) => After(r.work.del, t.del, Plan(ev, t.stored), Erased(ev, t.stored))
Inserts(ev, r, t, mem) ==
  /\ ev.kind # "delete" /\ Unknown(ev, mem, t.stored) /\ ~Covers(mem, ev)
  /\ r.mem = mem /\ r.work.del = t.del /\ r.work.bound = t.bound
  /\ r.work.stored = Sans(t.stored, AtAddress(t.stored, ev.addr)) \cup {ev}
Action(ev, t, mem) == Decide(ev, mem, t.stored, RowHolder(t)).action
PutDoes(ev, r, t, mem) ==
  /\ r.work \in Tables /\ r.mem \in Deletions /\ RowsExact(r.work)
  /\ \/ Action(ev, t, mem) = "skip" /\ r.work = t /\ r.mem = mem
     \/ Action(ev, t, mem) = "tombstone" /\ Marks(ev, r, t, mem)
     \/ Action(ev, t, mem) = "delete" /\ Deletes(ev, r, t, mem)
     \/ Action(ev, t, mem) = "insert" /\ Inserts(ev, r, t, mem)

\* putInTransaction() does one of these things and keeps the rows exact.
LEMMA PutIs ==
  ASSUME NEW t \in Tables, RowsExact(t), NEW mem \in Deletions, NEW ev \in Events,
         NEW r, r = PutInTx(t, mem, ev)
  PROVE  PutDoes(ev, r, t, mem)
<1>1. t.stored \in SUBSET Events /\ t.del \in Deletions
  BY DEF Tables
<1>2. PICK h : h = RowHolder(t) /\ HolderOf(h, t.stored)
  BY <1>1, RowHolderIs
<1>3. PICK d : d = Decide(ev, mem, t.stored, h) /\ Action(ev, t, mem) = d.action
  BY <1>2 DEF Action
<1>4. CASE d.action = "skip"
  <2>1. r = [work |-> t, mem |-> mem]
    BY <1>2, <1>3, <1>4 DEF PutInTx
  <2> QED
    BY <1>3, <1>4, <2>1 DEF PutDoes
<1>5. CASE d.action = "tombstone" /\ ev.kind # "delete" /\ Unknown(ev, mem, t.stored)
  <2>1. PICK dl : dl = Tombstone(t.del, {ev.id})
    OBVIOUS
  <2>2. PICK m2 : m2 = Tombstone(mem, {ev.id})
    OBVIOUS
  <2>3. r = [work |-> [t EXCEPT !.del = dl], mem |-> m2]
    BY <1>2, <1>3, <1>5, <2>1, <2>2 DEF PutInTx
  <2>4. {ev.id} \in SUBSET Ids
    BY DEF Ids
  <2>5. dl \in Deletions /\ m2 \in Deletions
    BY <1>1, <2>1, <2>2, <2>4, TombstoneIs
  <2>6. PICK w : w = [t EXCEPT !.del = dl]
    OBVIOUS
  <2>7. w \in Tables /\ w.stored = t.stored /\ w.rows = t.rows
    BY <2>5, <2>6 DEF Tables
  <2>8. RowsExact(w)
    BY <2>7 DEF RowsExact
  <2>9. r.work = w /\ r.mem = m2
    BY <2>3, <2>6
  <2>10. Marks(ev, r, t, mem)
    BY <1>5, <2>1, <2>2, <2>6, <2>9 DEF Marks
  <2> QED
    BY <1>3, <1>5, <2>5, <2>7, <2>8, <2>9, <2>10 DEF PutDoes
<1>6. CASE /\ d.action = "delete" /\ ev.kind = "delete" /\ Unknown(ev, mem, t.stored)
           /\ d.plan = Plan(ev, t.stored) /\ d.coords = Overdue(t.stored, d.plan.until)
  <2>1. PICK plan : plan = Plan(ev, t.stored)
    OBVIOUS
  <2>2. PICK coords : coords = Overdue(t.stored, plan.until)
    OBVIOUS
  <2>3. plan \in Plans /\ plan.remove \in SUBSET Ids
    BY <1>1, <2>1, PlanIs DEF Plans
  <2>4. coords \in SUBSET Ids /\ {ev.id} \in SUBSET RequestIds
    BY <1>1, <1>6, <2>2 DEF Overdue, Ids, RequestIds
  <2>5. PICK u : u = DeleteEventRows(t, plan.remove \cup coords)
    OBVIOUS
  <2>6. PICK dl : dl = PersistPlan(t.del, plan, coords, [mem EXCEPT !.pending = Without(@, {ev.id})])
    OBVIOUS
  <2>7. PICK m2 : m2 = [Absorb([mem EXCEPT !.pending = Without(@, {ev.id})], plan) EXCEPT !.ids = @ \cup coords]
    OBVIOUS
  <2>8. /\ u \in Tables /\ RowsExact(u)
        /\ u.stored = Sans(t.stored, plan.remove \cup coords) /\ u.del = t.del /\ u.bound = t.bound
    BY <2>5, DeleteRowsIs
  <2>9. PICK w : w = [u EXCEPT !.stored = u.stored \cup {ev}, !.del = dl]
    OBVIOUS
  <2>10. r = [work |-> w, mem |-> m2]
    BY <1>2, <1>3, <1>6, <2>1, <2>2, <2>5, <2>6, <2>7, <2>8, <2>9, ZenonT(40) DEF PutInTx
  <2>11. dl \in Deletions
    BY <1>1, <2>3, <2>4, <2>6, PersistType
  <2>12. After(m2, mem, plan, plan.remove \cup coords)
    BY <2>3, <2>4, <2>7, AbsorbIs
  <2>13. Alike(mem, t.del) => After(dl, t.del, plan, plan.remove \cup coords)
    BY <1>1, <2>3, <2>4, <2>6, PersistIs
  <2>14. /\ w \in Tables /\ w.stored = u.stored \cup {ev} /\ w.rows = u.rows /\ w.bound = u.bound
         /\ w.del = dl
    BY <2>8, <2>9, <2>11 DEF Tables
  <2>15. RowsExact(w)
    <3>1. ev.addr = Nothing
      BY <1>6, EventsAssumption
    <3>2. \A c \in DOMAIN u.rows : \E x \in w.stored : x.addr = c /\ u.rows[c] = RowOf(x)
      BY <2>8, <2>14 DEF RowsExact
    <3>3. \A x \in w.stored : x.addr # Nothing => x.addr \in DOMAIN u.rows /\ u.rows[x.addr] = RowOf(x)
      BY <2>8, <2>14, <3>1 DEF RowsExact
    <3> QED
      BY <2>14, <3>2, <3>3 DEF RowsExact
  <2>16. Erased(ev, t.stored) = plan.remove \cup coords
    BY <2>1, <2>2 DEF Erased
  <2>17. r.work = w /\ r.mem = m2
    BY <2>10
  <2>18. Deletes(ev, r, t, mem)
    BY <1>6, <2>1, <2>8, <2>12, <2>13, <2>14, <2>16, <2>17 DEF Deletes
  <2>19. m2 \in Deletions
    BY <2>12 DEF After
  <2> QED
    BY <1>3, <1>6, <2>14, <2>15, <2>17, <2>18, <2>19 DEF PutDoes
<1>7. CASE /\ d.action = "insert" /\ ev.kind # "delete" /\ Unknown(ev, mem, t.stored) /\ ~Covers(mem, ev)
           /\ d.drop = AtAddress(t.stored, ev.addr)
  <2>1. PICK drop : drop = AtAddress(t.stored, ev.addr)
    OBVIOUS
  <2>2. PICK u : u = DeleteEventRows(t, drop)
    OBVIOUS
  <2>3. /\ u \in Tables /\ RowsExact(u)
        /\ u.stored = Sans(t.stored, drop) /\ u.del = t.del /\ u.bound = t.bound
    BY <2>2, DeleteRowsIs
  <2>4. PICK w : w = InsertRows(u, ev)
    OBVIOUS
  <2>5. \A x \in u.stored : ev.addr = Nothing \/ x.addr # ev.addr
    BY <2>1, <2>3 DEF Sans, AtAddress
  <2>6. w \in Tables /\ RowsExact(w) /\ w.stored = u.stored \cup {ev} /\ w.del = u.del /\ w.bound = u.bound
    BY <2>3, <2>4, <2>5, InsertRowsIs
  <2>7. r = [work |-> w, mem |-> mem]
    BY <1>2, <1>3, <1>7, <2>1, <2>2, <2>4 DEF PutInTx
  <2>8. r.work = w /\ r.mem = mem
    BY <2>7
  <2>9. Inserts(ev, r, t, mem)
    BY <1>7, <2>1, <2>3, <2>6, <2>8 DEF Inserts
  <2> QED
    BY <1>3, <1>7, <2>6, <2>8, <2>9 DEF PutDoes
<1> QED
  <2>1. Decided(d, ev, mem, t.stored)
    BY <1>1, <1>2, <1>3, DecisionIs
  <2> QED
    BY <1>4, <1>5, <1>6, <1>7, <2>1 DEF Decided

\* The cache and the rows go on judging alike.
LEMMA PutAlike ==
  ASSUME NEW t \in Tables, NEW mem \in Deletions, NEW ev \in Events, NEW r, PutDoes(ev, r, t, mem),
         Alike(mem, t.del)
  PROVE  Alike(r.mem, r.work.del)
<1>1. t.del \in Deletions /\ {ev.id} \in SUBSET Ids
  BY DEF Tables, Ids
<1>2. CASE r.work = t /\ r.mem = mem
  BY <1>2
<1>3. CASE Marks(ev, r, t, mem)
  <2>1. r.work.del = Tombstone(t.del, {ev.id}) /\ r.mem = Tombstone(mem, {ev.id})
    BY <1>3 DEF Marks, Tables
  <2> QED
    BY <1>1, <2>1, TombstoneAlike
<1>4. CASE Deletes(ev, r, t, mem)
  BY <1>4, AfterAlike DEF Deletes
<1>5. CASE Inserts(ev, r, t, mem)
  BY <1>5 DEF Inserts
<1> QED
  BY <1>2, <1>3, <1>4, <1>5 DEF PutDoes

-----------------------------------------------------------------------------
(* Deletion requests are obeyed.                                           *)
Requests(evs) == {ev \in evs : ev.kind = "delete"}
\* The requests that are stored or were deleted themselves.
Heard(t) == {req \in Requests(Events) : req \in t.stored \/ req.id \in t.del.ids}

\* d obeys a request: its addresses are marked, and each event of its author that it
\* names is deleted, or waited for, or waited for on behalf of a stranger.
ObeysAddresses(d, req) ==
  \A c \in req.a : c[1] = req.by => c \in DOMAIN d.until /\ req.at <= d.until[c]
ObeysIds(d, req, heard) ==
  \A ev \in Events :
    ev.kind # "delete" /\ ev.by = req.by /\ ev.id \in req.e =>
      \/ ev.id \in d.ids
      \/ At(d.pending, ev.id) = ev.by
      \/ \E other \in heard : other.by # ev.by /\ ev.id \in other.e
Obeys(d, reqs, heard) == \A req \in reqs : ObeysAddresses(d, req) /\ ObeysIds(d, req, heard)
Clean(t) == /\ \A ev \in t.stored : ~Covers(t.del, ev)
            /\ Obeys(t.del, Requests(t.stored), Heard(t))

\* Tombstones that obey some requests obey one more after its plan.
LEMMA ObeyStep ==
  ASSUME NEW d \in Deletions, NEW reqs, NEW heard, Obeys(d, reqs, heard), reqs \subseteq Events,
         NEW req \in Events, NEW stored \in SUBSET Events, NEW plan, plan = Plan(req, stored),
         NEW gone, plan.remove \subseteq gone, NEW r, After(r, d, plan, gone),
         NEW heard2, heard \subseteq heard2, req \in heard2
  PROVE  Obeys(r, reqs \cup {req}, heard2)
<1>1. /\ DOMAIN plan.until = {c \in req.a : c[1] = req.by}
      /\ \A c \in DOMAIN plan.until : plan.until[c] = req.at
  BY PlanIs
<1>2. /\ DOMAIN plan.pending = {i \in req.e : \A ev \in stored : ev.id # i}
      /\ \A i \in DOMAIN plan.pending : plan.pending[i] = req.by
  BY PlanIs
<1>3. \A ev \in stored : ev.id \in req.e /\ ev.kind # "delete" /\ ev.by = req.by => ev.id \in plan.remove
  BY PlanIs
<1>4. plan.until \in Partial(Addrs, Nat) /\ d.until \in Partial(Addrs, Nat)
  BY PlanIs DEF Plans, Deletions
<1>5. PICK u : u = r.until
  OBVIOUS
<1>6. u = Later(d.until, plan.until)
  BY <1>5 DEF After
<1>7. /\ DOMAIN u = DOMAIN d.until \cup DOMAIN plan.until
      /\ \A c \in DOMAIN u : u[c] = IF c \notin DOMAIN plan.until THEN d.until[c]
                                    ELSE IF c \in DOMAIN d.until THEN Max2(d.until[c], plan.until[c])
                                    ELSE plan.until[c]
  <2>1. Joins(u, d.until, plan.until)
    BY <1>4, <1>6, LaterIs
  <2> QED
    BY <2>1 DEF Joins
<1>8. (\A c \in DOMAIN d.until : d.until[c] \in Nat) /\ (\A c \in DOMAIN plan.until : plan.until[c] \in Nat)
  BY <1>4, Partials
<1>9. \A c \in DOMAIN d.until : c \in DOMAIN u /\ u[c] >= d.until[c] /\ u[c] \in Nat
  BY <1>7, <1>8 DEF Max2
<1>10. \A c \in DOMAIN plan.until : c \in DOMAIN u /\ u[c] >= plan.until[c] /\ u[c] \in Nat
  BY <1>7, <1>8 DEF Max2
<1>11. ObeysAddresses(r, req)
  BY <1>1, <1>5, <1>10 DEF ObeysAddresses
<1>12. ASSUME NEW q \in reqs PROVE ObeysAddresses(r, q)
  <2>1. \A c \in q.a : c[1] = q.by => c \in DOMAIN d.until /\ q.at <= d.until[c]
    BY DEF Obeys, ObeysAddresses
  <2>2. q.at \in Nat
    BY EventsAssumption
  <2> QED
    BY <1>5, <1>8, <1>9, <2>1, <2>2 DEF ObeysAddresses
<1>13. /\ r.ids = d.ids \cup gone
       /\ \A i \in Ids \ (r.ids \cup RequestIds) :
            At(r.pending, i) = IF i \in DOMAIN plan.pending THEN plan.pending[i] ELSE At(d.pending, i)
  BY DEF After
<1>14. ObeysIds(r, req, heard2)
  <2> SUFFICES ASSUME NEW ev \in Events, ev.kind # "delete", ev.by = req.by, ev.id \in req.e, ev.id \notin r.ids
               PROVE  At(r.pending, ev.id) = ev.by
    BY DEF ObeysIds
  <2>1. ev.id \in Ids \ RequestIds
    BY NoRequest
  <2>2. \A x \in stored : x.id # ev.id
    BY <1>3, <1>13, EventsAssumption
  <2> QED
    BY <1>2, <1>13, <2>1, <2>2
<1>15. ASSUME NEW q \in reqs PROVE ObeysIds(r, q, heard2)
  <2> SUFFICES ASSUME NEW ev \in Events, ev.kind # "delete", ev.by = q.by, ev.id \in q.e, ev.id \notin r.ids
               PROVE  \/ At(r.pending, ev.id) = ev.by
                      \/ \E other \in heard2 : other.by # ev.by /\ ev.id \in other.e
    BY DEF ObeysIds
  <2>1. ev.id \in Ids \ RequestIds
    BY NoRequest
  <2>2. \/ At(d.pending, ev.id) = ev.by
        \/ \E other \in heard : other.by # ev.by /\ ev.id \in other.e
    BY <1>13 DEF Obeys, ObeysIds
  <2> QED
    BY <1>2, <1>13, <2>1, <2>2
<1> QED
  BY <1>11, <1>12, <1>14, <1>15 DEF Obeys

\* Obeying fewer requests, with more of them heard, is obeying.
LEMMA ObeyLess ==
  ASSUME NEW d, NEW reqs, NEW heard, Obeys(d, reqs, heard), NEW fewer, fewer \subseteq reqs,
         NEW heard2, heard \subseteq heard2
  PROVE  Obeys(d, fewer, heard2)
BY DEF Obeys, ObeysIds

\* Removals leave tombstones obeying what they obeyed.
LEMMA ObeyTombstone ==
  ASSUME NEW d \in Deletions, NEW reqs, NEW heard, Obeys(d, reqs, heard), NEW ids \in SUBSET Ids
  PROVE  Obeys(Tombstone(d, ids), reqs, heard)
<1>1. PICK r : r = Tombstone(d, ids)
  OBVIOUS
<1>2. r.ids = d.ids \cup ids /\ r.until = d.until /\ \A i : i \notin ids => At(r.pending, i) = At(d.pending, i)
  BY <1>1, TombstoneIs
<1>3. ASSUME NEW req \in reqs PROVE ObeysAddresses(r, req)
  BY <1>2 DEF Obeys, ObeysAddresses
<1>4. ASSUME NEW req \in reqs PROVE ObeysIds(r, req, heard)
  BY <1>2 DEF Obeys, ObeysIds
<1> QED
  BY <1>1, <1>3, <1>4 DEF Obeys

\* A put leaves no stored event covered and every stored request obeyed.
LEMMA PutClean ==
  ASSUME NEW t \in Tables, NEW mem \in Deletions, NEW ev \in Events, NEW r, PutDoes(ev, r, t, mem),
         Alike(mem, t.del), Clean(t)
  PROVE  Clean(r.work)
<1>1. t.stored \in SUBSET Events /\ t.del \in Deletions /\ r.work.stored \in SUBSET Events
  BY DEF Tables, PutDoes
<1>2. mem.ids = t.del.ids
  BY DEF Alike
<1>3. /\ \A x \in t.stored : ~Covers(t.del, x)
      /\ Obeys(t.del, Requests(t.stored), Heard(t))
  BY DEF Clean
<1>4. \A x, y \in Events : x.id = y.id => x = y
  BY EventsAssumption
<1>5. CASE r.work = t /\ r.mem = mem
  BY <1>5
<1>6. CASE Marks(ev, r, t, mem)
  <2>1. {ev.id} \in SUBSET Ids
    BY DEF Ids
  <2>2. r.work.stored = t.stored /\ r.work.del = Tombstone(t.del, {ev.id})
    BY <1>6 DEF Marks, Tables
  <2>3. \A x \in t.stored : x.id # ev.id
    BY <1>6 DEF Marks, Unknown
  <2>4. \A x \in t.stored : ~Covers(Tombstone(t.del, {ev.id}), x)
    BY <1>1, <1>3, <2>1, <2>3, TombstoneCovers
  <2>5. t.del.ids \subseteq r.work.del.ids
    <3>1. PICK dl : dl = Tombstone(t.del, {ev.id})
      OBVIOUS
    <3> QED
      BY <1>1, <2>1, <2>2, <3>1, TombstoneIs
  <2>6. Heard(t) \subseteq Heard(r.work)
    BY <2>2, <2>5 DEF Heard
  <2>7. Obeys(r.work.del, Requests(t.stored), Heard(t))
    BY <1>1, <1>3, <2>1, <2>2, ObeyTombstone
  <2>8. Obeys(r.work.del, Requests(t.stored), Heard(r.work))
    BY <2>6, <2>7, ObeyLess
  <2> QED
    BY <2>2, <2>4, <2>8 DEF Clean
<1>7. CASE Deletes(ev, r, t, mem)
  <2>1. PICK plan : plan = Plan(ev, t.stored)
    OBVIOUS
  <2>2. PICK gone : gone = Erased(ev, t.stored)
    OBVIOUS
  <2>3. /\ r.work.stored = Sans(t.stored, gone) \cup {ev} /\ ev.kind = "delete"
        /\ After(r.work.del, t.del, plan, gone)
    BY <1>7, <2>1, <2>2 DEF Deletes
  <2>4. \A i \in gone : \E x \in t.stored : x.id = i
    <3>1. \A i \in plan.remove : \E x \in t.stored : x.id = i
      BY <1>1, <2>1, PlanIs
    <3> QED
      BY <2>1, <2>2, <3>1 DEF Erased, Overdue
  <2>5. ev.id \notin t.del.ids /\ ev.id \notin gone
    BY <1>2, <1>7, <2>4 DEF Deletes, Unknown
  <2>6. ~Covers(r.work.del, ev)
    BY <2>3, <2>5 DEF Covers, After
  <2>7. \A x \in Sans(t.stored, gone) : ~Covers(r.work.del, x)
    <3>1. Erased(ev, t.stored) \subseteq gone
      BY <2>2
    <3>2. ASSUME NEW x \in t.stored, x.id \notin gone PROVE ~Covers(r.work.del, x)
      <4>1. ~Covers(t.del, x)
        BY <1>3
      <4>2. After(r.work.del, t.del, Plan(ev, t.stored), gone)
        BY <2>1, <2>3
      <4> QED
        BY ONLY <1>1, <3>1, <3>2, <4>1, <4>2, ev \in Events, DeletionCovers
    <3> QED
      BY <3>2 DEF Sans
  <2>8. Heard(t) \subseteq Heard(r.work)
    BY <2>3 DEF Heard, After, Sans
  <2>9. plan.remove \subseteq gone /\ ev \in Heard(r.work)
    BY <2>1, <2>2, <2>3 DEF Erased, Heard, Requests
  <2>10. Requests(t.stored) \subseteq Events
    BY <1>1 DEF Requests
  <2>11. Obeys(r.work.del, Requests(t.stored) \cup {ev}, Heard(r.work))
    BY <1>1, <1>3, <2>1, <2>3, <2>8, <2>9, <2>10, ObeyStep
  <2>12. Requests(r.work.stored) \subseteq Requests(t.stored) \cup {ev}
    BY <2>3 DEF Requests, Sans
  <2>13. Obeys(r.work.del, Requests(r.work.stored), Heard(r.work))
    BY <2>11, <2>12, ObeyLess
  <2> QED
    BY <2>3, <2>6, <2>7, <2>13 DEF Clean
<1>8. CASE Inserts(ev, r, t, mem)
  <2>1. PICK drop : drop = AtAddress(t.stored, ev.addr)
    OBVIOUS
  <2>2. r.work.stored = Sans(t.stored, drop) \cup {ev} /\ r.work.del = t.del /\ ev.kind # "delete"
    BY <1>8, <2>1 DEF Inserts
  <2>3. ~Covers(t.del, ev)
    BY <1>8, AlikeCovers DEF Inserts
  <2>4. \A x \in r.work.stored : ~Covers(r.work.del, x)
    BY <1>3, <2>2, <2>3 DEF Sans
  <2>5. ASSUME NEW req \in t.stored, req.kind = "delete" PROVE req \in r.work.stored
    <3>1. \A y \in t.stored : ev.addr # Nothing /\ y.addr = ev.addr => y # req
      BY <1>1, <2>5, EventsAssumption
    <3>2. req.id \notin drop
      BY <1>1, <1>4, <2>1, <3>1 DEF AtAddress
    <3> QED
      BY <2>2, <3>2 DEF Sans
  <2>6. Heard(t) \subseteq Heard(r.work)
    BY <2>2, <2>5 DEF Heard, Requests
  <2>7. Requests(r.work.stored) \subseteq Requests(t.stored)
    BY <2>2 DEF Requests, Sans
  <2>8. Obeys(r.work.del, Requests(r.work.stored), Heard(r.work))
    BY <1>3, <2>2, <2>6, <2>7, ObeyLess
  <2> QED
    BY <2>4, <2>8 DEF Clean
<1> QED
  BY <1>5, <1>6, <1>7, <1>8 DEF PutDoes

\* remove(ids): the rows, and the tombstones.
Removed(t, ids) == [DeleteEventRows(t, ids) EXCEPT !.del = Tombstone(@, ids)]
\* What remove does to the tables: the events go, their ids are tombstoned,
\* the rows stay exact.
LEMMA RemoveIs ==
  ASSUME NEW t \in Tables, RowsExact(t), NEW ids \in SUBSET Ids,
         NEW w, w = Removed(t, ids)
  PROVE  /\ w \in Tables /\ RowsExact(w) /\ w.bound = t.bound
         /\ w.stored = Sans(t.stored, ids) /\ w.del = Tombstone(t.del, ids)
         /\ Clean(t) => Clean(w)
<1>1. PICK u : u = DeleteEventRows(t, ids)
  OBVIOUS
<1>2. u \in Tables /\ RowsExact(u) /\ u.stored = Sans(t.stored, ids) /\ u.del = t.del /\ u.bound = t.bound
  BY <1>1, DeleteRowsIs
<1>3. PICK dl : dl = Tombstone(t.del, ids)
  OBVIOUS
<1>4. t.stored \in SUBSET Events /\ t.del \in Deletions
  BY DEF Tables
<1>5. dl \in Deletions /\ dl.ids = t.del.ids \cup ids
  BY <1>3, <1>4, TombstoneIs
<1>6. w = [u EXCEPT !.del = dl]
  BY <1>1, <1>2, <1>3 DEF Removed
<1>7. /\ w \in Tables /\ w.bound = t.bound /\ w.rows = u.rows
      /\ w.stored = Sans(t.stored, ids) /\ w.del = dl
  BY <1>2, <1>5, <1>6 DEF Tables
<1>8. RowsExact(w)
  BY <1>2, <1>7 DEF RowsExact
<1>9. ASSUME Clean(t) PROVE Clean(w)
  <2>1. /\ \A x \in t.stored : ~Covers(t.del, x)
        /\ Obeys(t.del, Requests(t.stored), Heard(t))
    BY <1>9 DEF Clean
  <2>2. \A x \in w.stored : ~Covers(w.del, x)
    BY <1>3, <1>4, <1>7, <2>1, TombstoneCovers DEF Sans
  <2>3. Heard(t) \subseteq Heard(w) /\ Requests(w.stored) \subseteq Requests(t.stored)
    BY <1>5, <1>7 DEF Heard, Requests, Sans
  <2>4. Obeys(w.del, Requests(t.stored), Heard(t))
    BY <1>3, <1>4, <1>7, <2>1, ObeyTombstone
  <2>5. Obeys(w.del, Requests(w.stored), Heard(w))
    BY <2>3, <2>4, ObeyLess
  <2> QED
    BY <2>2, <2>5 DEF Clean
<1> QED
  BY <1>3, <1>7, <1>8, <1>9

\* The tables of a new database.
LEMMA EmptyIs == EmptyTables \in Tables /\ RowsExact(EmptyTables) /\ Clean(EmptyTables) /\ NoDeletion \in Deletions
<1>1. DOMAIN <<>> = {}
  OBVIOUS
<1>2. <<>> = [x \in DOMAIN <<>> |-> <<>>[x]]
  BY <1>1
<1>3. <<>> \in Partial(Ids, Authors) /\ <<>> \in Partial(Addrs, Nat) /\ <<>> \in Partial(Addrs, Rows)
  BY <1>1, <1>2, Partials
<1>4. NoDeletion \in Deletions
  BY <1>3 DEF NoDeletion, Deletions
<1>5. EmptyTables \in Tables
  BY <1>3, <1>4 DEF EmptyTables, Tables
<1>6. RowsExact(EmptyTables) /\ Clean(EmptyTables)
  BY <1>1 DEF EmptyTables, RowsExact, Clean, Obeys, Requests
<1> QED
  BY <1>4, <1>5, <1>6

-----------------------------------------------------------------------------
(* The upgrade from version 1.                                             *)

\* The order of the requests is total: a set of them has a latest one.
LEMMA LatestIs ==
  ASSUME NEW S \in SUBSET Events, S # {}
  PROVE  Latest(S) \in S
<1> DEFINE Before(x, y) == x.at < y.at \/ (x.at = y.at /\ x.id < y.id)
           Has(s) == \E x \in s : \A y \in s \ {x} : Before(y, x)
           Good == {s \in SUBSET S : s = {} \/ Has(s)}
           pick == [s \in SUBSET S |-> CHOOSE x \in s : TRUE]
<1>1. IsFiniteSet(S)
  BY EventsAssumption, FS_Subset
<1>2. \A x, y \in S : /\ x.at \in Nat /\ x.id \in Nat
                      /\ x # y => x.id # y.id
  BY EventsAssumption
<1>3. {} \in Good
  OBVIOUS
<1>4. \A s \in SUBSET S : s # {} => pick[s] \in s
  OBVIOUS
<1>5. ASSUME NEW s \in SUBSET S, s # {}, s \ {pick[s]} \in Good PROVE s \in Good
  <2>1. PICK p \in s : p = pick[s]
    BY <1>4, <1>5
  <2> HIDE DEF pick
  <2>2. CASE s \ {p} = {}
    <3>1. \A y \in s \ {p} : Before(y, p)
      BY <2>2
    <3> QED
      BY <3>1
  <2>3. CASE Has(s \ {p})
    <3>1. PICK x \in s \ {p} : \A y \in (s \ {p}) \ {x} : Before(y, x)
      BY <2>3
    <3>2. CASE Before(p, x)
      <4>1. \A y \in s \ {x} : Before(y, x)
        BY <3>1, <3>2
      <4> QED
        BY <4>1
    <3>3. CASE ~Before(p, x)
      <4>1. Before(x, p)
        BY <1>2, <3>1, <3>3
      <4>2. \A y \in s \ {p} : Before(y, p)
        <5> TAKE y \in s \ {p}
        <5>1. y = x \/ Before(y, x)
          BY <3>1
        <5>2. y \in S /\ x \in S /\ p \in S
          BY <3>1
        <5> QED
          BY <1>2, <4>1, <5>1, <5>2
      <4> QED
        BY <4>2
    <3> QED
      BY <3>2, <3>3
  <2> QED
    BY <1>5, <2>1, <2>2, <2>3
<1> HIDE DEF Good, pick
<1>8. Climbs(Good, S, pick)
  BY <1>4, <1>5 DEF Climbs
<1>6. SUBSET S \subseteq Good
  BY ONLY <1>1, <1>3, <1>8, SubsetInduction
<1>7. \E x \in S : \A y \in S \ {x} : Before(y, x)
  BY <1>6 DEF Good
<1> QED
  BY <1>7 DEF Latest

\* One request of the upgrade.
LEMMA AbsorbAllIs ==
  ASSUME NEW del \in Deletions, NEW req \in Events, NEW valid \in SUBSET Events,
         NEW r, r = AbsorbAll(del, req, valid)
  PROVE  \E gone : Plan(req, valid).remove \subseteq gone /\ After(r, del, Plan(req, valid), gone)
<1>1. PICK plan : plan = Plan(req, valid)
  OBVIOUS
<1>2. plan \in Plans
  BY <1>1, PlanIs
<1> DEFINE gone == {ev \in valid : /\ ev.kind # "delete"
                                   /\ ev.addr \in DOMAIN plan.until
                                   /\ ev.at <= plan.until[ev.addr]}
<1>3. PICK more : more = {ev.id : ev \in gone}
  OBVIOUS
<1>4. more \in SUBSET Ids
  BY <1>3 DEF Ids
<1>5. del = [del EXCEPT !.pending = Without(@, {})]
  <2>1. del.pending \in Partial(Ids, Authors)
    BY DEF Deletions
  <2>2. del.pending = [x \in DOMAIN del.pending |-> del.pending[x]]
    BY <2>1, Partials
  <2>3. Without(del.pending, {}) = del.pending
    BY <2>2 DEF Without, Restrict
  <2> QED
    BY <2>3 DEF Deletions
<1>6. r = [Absorb(del, plan) EXCEPT !.ids = @ \cup more]
  BY <1>1, <1>3 DEF AbsorbAll
<1>7. PICK d : d = [del EXCEPT !.pending = Without(@, {})]
  OBVIOUS
<1>8. r = [Absorb([del EXCEPT !.pending = Without(@, {})], plan) EXCEPT !.ids = @ \cup more]
  BY <1>5, <1>6
<1>9. {} \in SUBSET RequestIds
  OBVIOUS
<1>10. After(r, del, plan, plan.remove \cup more)
  BY <1>2, <1>4, <1>8, <1>9, AbsorbIs
<1> QED
  BY <1>1, <1>10

\* All of them, in their order: they are obeyed.
LEMMA AbsorbRequestsIs ==
  ASSUME NEW valid \in SUBSET Events, NEW dl, dl = AbsorbRequests(valid)
  PROVE  dl \in Deletions /\ Obeys(dl, Requests(valid), Requests(valid))
<1> DEFINE R == Requests(valid)
           step == [p \in Deletions \X R |-> AbsorbAll(p[1], p[2], valid)]
           pick == [s \in SUBSET R |-> Latest(s)]
           iter == CHOOSE f : f = [s \in SUBSET R |-> IF s = {} THEN NoDeletion
                                                      ELSE AbsorbAll(f[s \ {Latest(s)}], Latest(s), valid)]
           Good == {s \in SUBSET R : iter[s] \in Deletions /\ Obeys(iter[s], s, R)}
<1>1. R \in SUBSET Events /\ IsFiniteSet(R)
  <2>1. R \subseteq Events
    BY DEF Requests
  <2> HIDE DEF R
  <2> QED
    BY <2>1, EventsAssumption, FS_Subset
<1>2. dl = iter[R]
  BY DEF AbsorbRequests, MapThenFoldSet, Requests
<1>3. \A s \in SUBSET R : s # {} => pick[s] \in s /\ Latest(s) \in s
  <2> HIDE DEF R
  <2> QED
    BY <1>1, LatestIs
<1>4. step \in [Deletions \X R -> Deletions]
  <2>1. ASSUME NEW p \in Deletions \X R PROVE AbsorbAll(p[1], p[2], valid) \in Deletions
    <3>1. PICK d \in Deletions, req \in R : d = p[1] /\ req = p[2]
      OBVIOUS
    <3>2. req \in Events
      BY <1>1
    <3>3. PICK r : r = AbsorbAll(d, req, valid)
      OBVIOUS
    <3>4. r \in Deletions
      BY <3>2, <3>3, AbsorbAllIs DEF After
    <3> QED
      BY <3>1, <3>3, <3>4
  <2> HIDE DEF R
  <2> QED
    BY <2>1
<1>5. PICK f \in [SUBSET R -> Deletions] : Folds(f, R, NoDeletion, step, pick)
  <2> HIDE DEF R, step, pick
  <2> QED
    BY <1>1, <1>3, <1>4, EmptyIs, FoldExists
<1>6. f = [s \in SUBSET R |-> IF s = {} THEN NoDeletion ELSE AbsorbAll(f[s \ {Latest(s)}], Latest(s), valid)]
  <2>1. ASSUME NEW s \in SUBSET R, s # {} PROVE f[s] = AbsorbAll(f[s \ {Latest(s)}], Latest(s), valid)
    <3>1. s \ {Latest(s)} \in SUBSET R /\ Latest(s) \in R /\ pick[s] = Latest(s)
      BY <1>3, <2>1
    <3>2. f[s \ {Latest(s)}] \in Deletions
      BY <1>5, <3>1
    <3>3. f[s] = step[<<f[s \ {Latest(s)}], Latest(s)>>]
      BY <1>5, <2>1, <3>1 DEF Folds
    <3> QED
      BY <3>1, <3>2, <3>3
  <2>2. f[{}] = NoDeletion
    BY <1>5 DEF Folds
  <2>3. f = [s \in SUBSET R |-> f[s]]
    BY <1>5
  <2> HIDE DEF R
  <2> QED
    BY <2>1, <2>2, <2>3
<1>7. iter = [s \in SUBSET R |-> IF s = {} THEN NoDeletion
                                 ELSE AbsorbAll(iter[s \ {Latest(s)}], Latest(s), valid)]
  BY <1>6
<1> HIDE DEF iter
<1>8. {} \in Good
  <2>1. iter[{}] = NoDeletion
    BY <1>7
  <2> QED
    BY <2>1, EmptyIs DEF Obeys
<1>9. ASSUME NEW s \in SUBSET R, s # {}, s \ {pick[s]} \in Good PROVE s \in Good
  <2>1. PICK req \in s : req = Latest(s)
    BY <1>3, <1>9
  <2>2. PICK rest \in SUBSET R : rest = s \ {req}
    BY <2>1
  <2>3. PICK d : d = iter[rest]
    OBVIOUS
  <2>4. d \in Deletions /\ Obeys(d, rest, R)
    BY <1>9, <2>1, <2>2, <2>3
  <2>5. PICK r : r = iter[s] /\ r = AbsorbAll(d, req, valid)
    BY <1>7, <1>9, <2>1, <2>2, <2>3
  <2>6. req \in Events /\ rest \subseteq Events /\ req \in R
    BY <1>1, <2>1, <2>2
  <2>7. PICK plan : plan = Plan(req, valid)
    OBVIOUS
  <2>8. PICK gone : plan.remove \subseteq gone /\ After(r, d, plan, gone)
    BY <2>4, <2>5, <2>6, <2>7, AbsorbAllIs
  <2> HIDE DEF R
  <2>9. Obeys(r, rest \cup {req}, R)
    BY <2>4, <2>6, <2>7, <2>8, ObeyStep
  <2>10. rest \cup {req} = s
    BY <2>1, <2>2
  <2> QED
    BY <2>5, <2>8, <2>9, <2>10 DEF After
<1> HIDE DEF Good, pick, R
<1>10. Climbs(Good, R, pick)
  BY <1>3, <1>9 DEF Climbs
<1>11. SUBSET R \subseteq Good
  BY ONLY <1>1, <1>8, <1>10, SubsetInduction
<1>12. R \in Good
  BY <1>11
<1> QED
  BY <1>2, <1>12 DEF Good, R

\* The upgraded tables.
LEMMA MigrateIs ==
  ASSUME NEW legacy \in SUBSET Events, NEW m, m = Migrate(legacy)
  PROVE  m \in Tables /\ RowsExact(m) /\ Clean(m) /\ m.bound = Nothing
<1>1. PICK valid \in SUBSET Events : valid = {ev \in legacy : ev.kind # "invalid"}
  OBVIOUS
<1>2. PICK dl : dl = AbsorbRequests(valid)
  OBVIOUS
<1>3. dl \in Deletions /\ Obeys(dl, Requests(valid), Requests(valid))
  BY <1>2, AbsorbRequestsIs
<1>4. PICK kept : kept = {ev \in valid : ~Covers(dl, ev)}
  OBVIOUS
<1>5. PICK won : won = {ev \in kept : ev.addr = Nothing \/ \A x \in ByAddr(kept, ev.addr) : ~IsWinner(x, ev)}
  OBVIOUS
<1>6. PICK held : held = {ev \in won : ev.addr # Nothing}
  OBVIOUS
<1>7. PICK rows : rows = [c \in {ev.addr : ev \in held} |->
                            LET ev == CHOOSE x \in held : x.addr = c IN RowOf(ev)]
  OBVIOUS
<1>8. m = [EmptyTables EXCEPT !.stored = won, !.del = dl, !.rows = rows]
  BY <1>1, <1>2, <1>4, <1>5, <1>6, <1>7 DEF Migrate, RowOf
<1>9. won \subseteq Events /\ held \subseteq Events
  BY <1>4, <1>5, <1>6
<1>10. OnePerAddress(won)
  <2> SUFFICES ASSUME NEW x \in won, NEW y \in won, x.addr = y.addr, x.addr # Nothing PROVE x = y
    BY DEF OnePerAddress
  <2>1. ~IsWinner(x, y) /\ ~IsWinner(y, x)
    BY <1>5 DEF ByAddr
  <2>2. x.at \in Nat /\ y.at \in Nat /\ x.id \in Nat /\ y.id \in Nat /\ (x.id = y.id => x = y)
    BY <1>9, EventsAssumption
  <2> QED
    BY <2>1, <2>2 DEF IsWinner
<1>11. ASSUME NEW ev \in won, ev.addr # Nothing
       PROVE  ev.addr \in DOMAIN rows /\ rows[ev.addr] = RowOf(ev)
  <2>1. ev \in held
    BY <1>6, <1>11
  <2>2. \A x \in held : x.addr = ev.addr => x = ev
    BY <1>6, <1>10, <1>11 DEF OnePerAddress
  <2>3. (CHOOSE x \in held : x.addr = ev.addr) = ev
    BY <2>1, <2>2
  <2> QED
    BY <1>7, <2>1, <2>3
<1>12. ASSUME NEW c \in DOMAIN rows PROVE \E ev \in won : ev.addr = c /\ rows[c] = RowOf(ev)
  <2>1. PICK ev \in held : ev.addr = c
    BY <1>7, <1>12
  <2> QED
    BY <1>6, <1>11, <2>1
<1>13. rows \in Partial(Addrs, Rows)
  <2>1. rows = [c \in DOMAIN rows |-> rows[c]]
    BY <1>7
  <2>2. DOMAIN rows \subseteq Addrs
    BY <1>6, <1>7, <1>9 DEF Addrs
  <2>3. \A c \in DOMAIN rows : rows[c] \in Rows
    BY <1>9, <1>12, RowParts
  <2> QED
    BY <2>1, <2>2, <2>3, Partials
<1>14. /\ m.stored = won /\ m.del = dl /\ m.rows = rows /\ m.bound = Nothing
       /\ m \in Tables
  BY <1>3, <1>8, <1>9, <1>13 DEF EmptyTables, Tables
<1>15. RowsExact(m)
  BY <1>11, <1>12, <1>14 DEF RowsExact
<1>16. Requests(valid) \subseteq Heard(m)
  <2> SUFFICES ASSUME NEW req \in valid, req.kind = "delete", req.id \notin dl.ids PROVE req \in won
    BY <1>14 DEF Requests, Heard
  <2>1. ~Covers(dl, req) /\ req.addr = Nothing
    BY EventsAssumption DEF Covers
  <2> QED
    BY <1>4, <1>5, <2>1
<1>17. Requests(won) \subseteq Requests(valid)
  BY <1>4, <1>5 DEF Requests
<1>18. Obeys(m.del, Requests(m.stored), Heard(m))
  BY <1>3, <1>14, <1>16, <1>17, ObeyLess
<1>19. \A ev \in m.stored : ~Covers(m.del, ev)
  BY <1>4, <1>5, <1>14
<1> QED
  BY <1>14, <1>15, <1>18, <1>19 DEF Clean

\* The load of the cache: it absorbs the rows of the tombstones table.
LEMMA AbsorbPlain ==
  ASSUME NEW del \in Deletions, NEW plan \in Plans, NEW r, r = Absorb(del, plan)
  PROVE  After(r, del, plan, plan.remove)
<1>1. del = [del EXCEPT !.pending = Without(@, {})]
  <2>1. del.pending \in Partial(Ids, Authors)
    BY DEF Deletions
  <2>2. del.pending = [x \in DOMAIN del.pending |-> del.pending[x]]
    BY <2>1, Partials
  <2>3. Without(del.pending, {}) = del.pending
    BY <2>2 DEF Without, Restrict
  <2> QED
    BY <2>3 DEF Deletions
<1>2. r = [Absorb(del, plan) EXCEPT !.ids = @ \cup {}]
  BY DEF Absorb
<1>3. r = [Absorb([del EXCEPT !.pending = Without(@, {})], plan) EXCEPT !.ids = @ \cup {}]
  BY <1>1, <1>2
<1>4. {} \in SUBSET RequestIds /\ {} \in SUBSET Ids /\ plan.remove \cup {} = plan.remove
  OBVIOUS
<1>5. After(r, del, plan, plan.remove \cup {})
  BY <1>3, <1>4, AbsorbIs
<1> QED
  BY <1>4, <1>5

\* Loading the stored tombstones into empty caches gives alike tombstones.
LEMMA LoadIs ==
  ASSUME NEW d \in Deletions
  PROVE  /\ TombstonesToPlan(d) \in Plans
         /\ Alike(Absorb(NoDeletion, TombstonesToPlan(d)), d)
<1>1. PICK plan : plan = TombstonesToPlan(d)
  OBVIOUS
<1>2. plan \in Plans /\ plan.remove = d.ids /\ plan.pending = d.pending /\ plan.until = d.until
  BY <1>1 DEF TombstonesToPlan, Plans, Deletions
<1>3. PICK r : r = Absorb(NoDeletion, plan)
  OBVIOUS
<1>4. After(r, NoDeletion, plan, plan.remove)
  BY <1>2, <1>3, AbsorbPlain, EmptyIs
<1>5. r.ids = d.ids
  BY <1>2, <1>4 DEF After, NoDeletion
<1>6. r.until = d.until
  <2>1. PICK u, f : u = r.until /\ f = d.until
    OBVIOUS
  <2>2. f \in Partial(Addrs, Nat) /\ NoDeletion.until \in Partial(Addrs, Nat) /\ u \in Partial(Addrs, Nat)
    BY <1>4, <2>1, EmptyIs DEF Deletions, After
  <2>3. PICK none : none = NoDeletion.until /\ DOMAIN none = {}
    BY DEF NoDeletion
  <2>4. u = Later(none, f)
    BY <1>2, <1>4, <2>1, <2>3 DEF After
  <2>5. DOMAIN u = DOMAIN f /\ \A c \in DOMAIN u : u[c] = f[c]
    <3>1. Joins(u, none, f)
      BY <2>2, <2>3, <2>4, LaterIs
    <3> QED
      BY <2>3, <3>1 DEF Joins
  <2>6. u = [c \in DOMAIN u |-> u[c]] /\ f = [c \in DOMAIN f |-> f[c]]
    BY <2>2, Partials
  <2>7. u = f
    BY <2>5, <2>6
  <2> QED
    BY <2>1, <2>7
<1>7. \A i \in Ids \ (d.ids \cup RequestIds) : At(r.pending, i) = At(d.pending, i)
  <2>1. \A i : At(NoDeletion.pending, i) = Nothing
    BY DEF NoDeletion, At
  <2> QED
    BY <1>2, <1>4, <1>5, <2>1 DEF After, At
<1> QED
  BY <1>1, <1>2, <1>3, <1>5, <1>6, <1>7 DEF Alike

-----------------------------------------------------------------------------
(* Types and rows, whatever the application does.                          *)
Writing(w) == /\ w \in Writers /\ RowsExact(w.work)
              /\ w.op.kind = "put" => w.left \in Seq(Events)
Stored ==
  /\ db \in Tables /\ RowsExact(db) /\ cache \in Deletions
  /\ conn \in {"closed", "open", "yielded"}
  /\ opening \in 0..MaxOpens /\ loading \in Nat
  /\ writer = Idle \/ Writing(writer)

\* The arguments of the operations.
LEMMA OpIs ==
  ASSUME NEW op \in Ops
  PROVE  /\ op # Nothing
         /\ op.kind \in {"put", "remove", "bound", "clear"}
         /\ op.kind = "put" => op.arg \in Batches /\ op.arg \in Seq(Events)
         /\ op.kind = "remove" => op.arg \in Removals /\ op.arg \in SUBSET Ids
         /\ op.kind = "bound" => op.arg \in Bounds
<1>1. op # Nothing
  BY WritesAssumption
<1>2. /\ op.kind \in {"put", "remove", "bound", "clear"}
      /\ op.kind = "put" => op.arg \in Batches
      /\ op.kind = "remove" => op.arg \in Removals
      /\ op.kind = "bound" => op.arg \in Bounds
  BY DEF Ops
<1> QED
  BY <1>1, <1>2, WritesAssumption

\* A write in progress is not none.
LEMMA BusyIs ==
  ASSUME NEW w, Writing(w)
  PROVE  /\ w # Idle
         /\ w = [op |-> w.op, work |-> w.work, snap |-> w.snap, behind |-> w.behind, left |-> w.left]
         /\ w.op \in Ops /\ w.work \in Tables /\ w.snap \in Deletions /\ w.behind \in Nat
<1>1. w.op # Nothing
  BY OpIs DEF Writing, Writers
<1>2. Idle.op = Nothing
  BY DEF Idle
<1>3. w # Idle
  BY <1>1, <1>2
<1> QED
  BY <1>3 DEF Writing, Writers

\* A step of a batch.
LEMMA PutNextIs ==
  ASSUME Stored, PutNext
  PROVE  \E ev \in Events : \E r :
           /\ PutDoes(ev, r, writer.work, cache) /\ cache' = r.mem
           /\ writer.left \in Seq(Events) /\ writer.left # <<>> /\ ev = Head(writer.left)
           /\ Writing(writer) /\ Writing(writer')
           /\ writer' = [writer EXCEPT !.work = r.work, !.left = Tail(@)]
           /\ writer'.op = writer.op /\ writer'.snap = writer.snap /\ writer'.behind = writer.behind
           /\ writer'.work = r.work /\ writer'.left = Tail(writer.left)
           /\ r = PutInTx(writer.work, cache, ev)
<1>1. Writing(writer) /\ writer.left \in Seq(Events) /\ writer.left # <<>>
  BY DEF Stored, PutNext, Running, Writing
<1>2. PICK ev \in Events : ev = Head(writer.left)
  BY <1>1
<1>3. PICK r : r = PutInTx(writer.work, cache, ev)
  OBVIOUS
<1>4. writer' = [writer EXCEPT !.work = r.work, !.left = Tail(@)] /\ cache' = r.mem
  BY <1>2, <1>3 DEF PutNext
<1>5. PutDoes(ev, r, writer.work, cache)
  BY <1>1, <1>3, PutIs DEF Stored, Writing, Writers
<1>6. r.work \in Tables /\ RowsExact(r.work)
  BY <1>5 DEF PutDoes
<1>7. Tail(writer.left) \in Seq(Events) /\ Tail(writer.left) \in Seq(Events \cup {Nothing})
  BY <1>1
<1>8. /\ writer'.op = writer.op /\ writer'.snap = writer.snap /\ writer'.behind = writer.behind
      /\ writer'.work = r.work /\ writer'.left = Tail(writer.left) /\ writer' \in Writers
  BY <1>1, <1>4, <1>6, <1>7 DEF Writing, Writers
<1>9. Writing(writer')
  BY <1>6, <1>7, <1>8 DEF Writing
<1> QED
  BY <1>1, <1>2, <1>3, <1>4, <1>5, <1>8, <1>9

\* What the other writes leave in their view of the tables.
OtherDoes(op, t, w, mem, mem2) ==
  \/ /\ op.kind = "remove" /\ mem2 = Tombstone(mem, op.arg)
     /\ w = Removed(t, op.arg)
  \/ op.kind = "clear" /\ mem2 = NoDeletion /\ w = EmptyTables
  \/ op.kind = "bound" /\ mem2 = mem /\ w = [t EXCEPT !.bound = op.arg]

\* Remove, clear and setOutboxBound keep the types, exact rows and clean tables,
\* and caches that follow the tables.
LEMMA OtherType ==
  ASSUME NEW op \in Ops, NEW t \in Tables, RowsExact(t), NEW w, NEW mem \in Deletions, NEW mem2,
         OtherDoes(op, t, w, mem, mem2)
  PROVE  /\ w \in Tables /\ RowsExact(w) /\ mem2 \in Deletions
         /\ Clean(t) => Clean(w)
         /\ Alike(mem, t.del) => Alike(mem2, w.del)
<1>1. t.del \in Deletions
  BY DEF Tables
<1>2. CASE /\ op.kind = "remove" /\ mem2 = Tombstone(mem, op.arg)
           /\ w = Removed(t, op.arg)
  <2>1. PICK ids \in SUBSET Ids : ids = op.arg
    BY <1>2, OpIs
  <2>2. w = Removed(t, ids) /\ mem2 = Tombstone(mem, ids)
    BY <1>2, <2>1
  <2>3. /\ w \in Tables /\ RowsExact(w) /\ w.del = Tombstone(t.del, ids)
        /\ Clean(t) => Clean(w)
    BY <2>2, RemoveIs
  <2>4. mem2 \in Deletions
    BY <2>2, TombstoneIs
  <2>5. Alike(mem, t.del) => Alike(mem2, w.del)
    BY <1>1, <2>2, <2>3, TombstoneAlike
  <2> QED
    BY <2>3, <2>4, <2>5
<1>3. CASE op.kind = "clear" /\ mem2 = NoDeletion /\ w = EmptyTables
  <2>1. Alike(mem2, w.del)
    BY <1>3 DEF Alike, EmptyTables
  <2> QED
    BY <1>3, <2>1, EmptyIs
<1>4. CASE op.kind = "bound" /\ mem2 = mem /\ w = [t EXCEPT !.bound = op.arg]
  <2>1. /\ w \in Tables /\ w.stored = t.stored /\ w.rows = t.rows /\ w.del = t.del
    BY <1>4, OpIs DEF Tables
  <2>2. RowsExact(w) /\ (Clean(t) => Clean(w))
    BY <2>1 DEF RowsExact, Clean, Heard
  <2> QED
    BY <1>4, <2>1, <2>2
<1> QED
  BY <1>2, <1>3, <1>4 DEF OtherDoes

\* What OtherWrite does to the transaction and the caches.
LEMMA OtherWriteIs ==
  ASSUME Stored, OtherWrite
  PROVE  /\ Writing(writer) /\ Writing(writer')
         /\ OtherDoes(writer.op, writer.work, writer'.work, cache, cache')
         /\ cache' \in Deletions
         /\ writer'.op = writer.op /\ writer'.snap = writer.snap /\ writer'.behind = writer.behind
         /\ writer'.left = <<>>
<1>1. Writing(writer) /\ writer \in Writers /\ writer.left = <<Nothing>>
  BY DEF Stored, OtherWrite, Running, Writing
<1>2. writer.op.kind # "put"
  <2> SUFFICES ASSUME writer.op.kind = "put" PROVE FALSE
    OBVIOUS
  <2>1. writer.left \in Seq(Events)
    BY <1>1 DEF Writing
  <2>2. Head(writer.left) = Nothing /\ writer.left # <<>>
    BY <1>1
  <2>3. Nothing \in Events
    BY <2>1, <2>2
  <2> QED
    BY <2>3, EventsAssumption
<1>3. PICK w : /\ writer' = [writer EXCEPT !.left = <<>>, !.work = w]
               /\ OtherDoes(writer.op, writer.work, w, cache, cache')
  <2>1. writer.op \in Ops
    BY <1>1 DEF Writers
  <2>2. CASE writer.op.kind = "remove"
    BY <2>2 DEF OtherWrite, OtherDoes, Removed
  <2>3. CASE writer.op.kind = "clear"
    BY <2>3 DEF OtherWrite, OtherDoes
  <2>4. CASE writer.op.kind = "bound"
    BY <2>4 DEF OtherWrite, OtherDoes
  <2> QED
    BY <1>2, <2>1, <2>2, <2>3, <2>4, OpIs
<1>4. w \in Tables /\ RowsExact(w) /\ cache' \in Deletions
  BY <1>1, <1>3, OtherType DEF Stored, Writing, Writers
<1>5. <<>> \in Seq(Events \cup {Nothing})
  OBVIOUS
<1>6. /\ writer'.op = writer.op /\ writer'.snap = writer.snap /\ writer'.behind = writer.behind
      /\ writer'.left = <<>> /\ writer'.work = w /\ writer' \in Writers
  BY <1>1, <1>3, <1>4, <1>5 DEF Writers
<1>7. Writing(writer')
  BY <1>2, <1>4, <1>6 DEF Writing
<1> QED
  BY <1>1, <1>3, <1>4, <1>6, <1>7

\* Begin: the view of the write is the tables.
LEMMA BeginIs ==
  ASSUME Stored, NEW op \in Ops, Begin(op)
  PROVE  /\ Writing(writer')
         /\ writer'.op = op /\ writer'.work = db /\ writer'.snap = cache /\ writer'.behind = loading
         /\ writer'.left = IF op.kind = "put" THEN op.arg ELSE <<Nothing>>
<1>1. writer' = [op |-> op, work |-> db, snap |-> cache, behind |-> loading,
                 left |-> IF op.kind = "put" THEN op.arg ELSE <<Nothing>>]
  BY DEF Begin
<1>2. /\ writer'.op = op /\ writer'.work = db /\ writer'.snap = cache /\ writer'.behind = loading
      /\ writer'.left = IF op.kind = "put" THEN op.arg ELSE <<Nothing>>
  BY <1>1
<1>3. writer'.left \in Seq(Events \cup {Nothing}) /\ (op.kind = "put" => writer'.left \in Seq(Events))
  <2>1. <<Nothing>> \in Seq(Events \cup {Nothing})
    OBVIOUS
  <2>2. \A s \in Seq(Events) : s \in Seq(Events \cup {Nothing})
    OBVIOUS
  <2> QED
    BY <1>2, <2>1, <2>2, OpIs
<1>4. writer' \in Writers
  BY <1>1, <1>2, <1>3 DEF Stored, Writers
<1> QED
  BY <1>2, <1>3, <1>4 DEF Stored, Writing

\* A database just opened or upgraded has the types and exact rows.
LEMMA InitStored == Init => Stored
<1> SUFFICES ASSUME Init PROVE Stored
  OBVIOUS
<1>1. PICK legacy \in SUBSET Events : db = Migrate(legacy)
  BY WritesAssumption DEF Init
<1>2. db \in Tables /\ RowsExact(db)
  BY <1>1, MigrateIs
<1> QED
  BY <1>2, EmptyIs DEF Init, Stored, MaxOpens

\* Every step keeps the types and exact rows.
LEMMA NextStored == Stored /\ [Next]_idbVars => Stored'
<1> SUFFICES ASSUME Stored, [Next]_idbVars PROVE Stored'
  OBVIOUS
<1>0. /\ db \in Tables /\ RowsExact(db) /\ cache \in Deletions
      /\ opening \in 0..MaxOpens /\ loading \in Nat /\ MaxOpens = 2
      /\ writer = Idle \/ Writing(writer)
      /\ NoDeletion \in Deletions
  BY EmptyIs DEF Stored, MaxOpens
<1>1. CASE Open
  BY <1>0, <1>1 DEF Open, Stored
<1>2. CASE Opened
  BY <1>0, <1>2 DEF Opened, Stored
<1>3. CASE Loaded
  <2>1. cache' \in Deletions
    <3>1. db.del \in Deletions
      BY <1>0 DEF Tables
    <3>2. PICK plan \in Plans : plan = TombstonesToPlan(db.del)
      BY <3>1, LoadIs
    <3>3. PICK r : r = Absorb(cache, plan)
      OBVIOUS
    <3>4. r \in Deletions
      BY <1>0, <3>3, AbsorbPlain DEF After
    <3> QED
      BY <1>3, <3>2, <3>3, <3>4 DEF Loaded
  <2>2. writer' = Idle \/ Writing(writer')
    <3>1. CASE writer = Idle
      BY <1>3, <3>1 DEF Loaded
    <3>2. CASE writer # Idle
      <4>1. Writing(writer) /\ writer.behind > 0 /\ writer' = [writer EXCEPT !.behind = @ - 1]
        BY <1>0, <1>3, <3>2 DEF Loaded
      <4>2. writer' \in Writers /\ writer'.work = writer.work /\ writer'.op = writer.op /\ writer'.left = writer.left
        BY <4>1 DEF Writing, Writers
      <4> QED
        BY <4>1, <4>2 DEF Writing
    <3> QED
      BY <3>1, <3>2
  <2> QED
    BY <1>0, <1>3, <2>1, <2>2 DEF Loaded, Stored
<1>4. ASSUME NEW op \in Ops, Begin(op) PROVE Stored'
  BY <1>4, BeginIs DEF Begin, Stored
<1>5. CASE PutNext
  <2>1. Writing(writer') /\ cache' \in Deletions
    BY <1>5, PutNextIs DEF PutDoes
  <2> QED
    BY <1>0, <1>5, <2>1 DEF PutNext, Stored
<1>6. CASE OtherWrite
  BY <1>6, OtherWriteIs DEF OtherWrite, Stored
<1>7. CASE Commit
  <2>1. Writing(writer)
    BY <1>0, <1>7 DEF Commit, Running
  <2> QED
    BY <1>7, <2>1 DEF Commit, Stored, Writing, Writers
<1>8. CASE Abort
  <2>1. Writing(writer)
    BY <1>0, <1>8 DEF Abort, Running
  <2> QED
    BY <1>8, <2>1 DEF Abort, RestoreCaches, Stored, Writing, Writers
<1>9. CASE Close
  BY <1>9 DEF Close, Stored
<1>10. CASE Yield
  BY <1>10 DEF Yield, Stored
<1>11. CASE Crash
  BY <1>0, <1>11 DEF Crash, Stored
<1>12. CASE UNCHANGED idbVars
  BY <1>12 DEF idbVars, Stored
<1> QED
  BY <1>1, <1>2, <1>3, <1>4, <1>5, <1>6, <1>7, <1>8, <1>9, <1>10, <1>11, <1>12 DEF Next

\* The steps of the two stores are steps of the IndexedDB store.
LEMMA StepOfIdb == [SNext]_vars => [Next]_idbVars
BY DEF SNext, Next, Committed, vars

\* The addresses table names exactly the stored replaceable events
\* (addresses of idb-schema.ts), after any upgrade, write, abort or crash.
THEOREM RowsAreExact == SSpec => []AddressRowsExact
<1>1. SInit => Stored
  BY InitStored DEF SInit
<1>2. Stored /\ [SNext]_vars => Stored'
  BY NextStored, StepOfIdb
<1>3. Stored => AddressRowsExact
  <2> SUFFICES ASSUME Stored PROVE AddressRowsExact
    OBVIOUS
  <2>1. db.stored \subseteq Events /\ RowsExact(db)
    BY DEF Stored, Tables
  <2>2. \A ev \in db.stored : RowOf(ev).id = ev.id
    BY <2>1, RowParts
  <2> QED
    BY <2>1, <2>2 DEF AddressRowsExact, RowsExact
<1> QED
  BY <1>1, <1>2, <1>3, PTL DEF SSpec

-----------------------------------------------------------------------------
(* The cache and the deletions, when the application awaits open() before  *)
(* it writes and the write before it closes, and only a putMany() can      *)
(* abort: no other write restores the cache.                               *)
Disciplined == Careful /\ WritesAbort \subseteq {"put"}

\* One at a time: an open() or a load, or a write.
Turns ==
  /\ opening + loading <= 1
  /\ opening + loading > 0 \/ conn = "closed" => writer = Idle
  /\ opening > 0 => conn = "closed"
  /\ loading > 0 => conn # "closed" /\ cache = NoDeletion
  /\ writer # Idle => writer.behind = 0
\* The cache judges as the tables do, or as the write in progress sees them.
Faithful ==
  /\ conn # "closed" /\ opening + loading = 0 /\ writer = Idle => Alike(cache, db.del)
  /\ writer # Idle => /\ Alike(cache, writer.work.del)
                      /\ writer.op.kind = "put" => Alike(writer.snap, db.del)
Cleanly == Clean(db) /\ (writer # Idle => Clean(writer.work))
Orderly == Turns /\ Faithful /\ Cleanly

\* The caches and the tables are in order at the start.
LEMMA InitOrderly == Init => Orderly
<1> SUFFICES ASSUME Init PROVE Orderly
  OBVIOUS
<1>1. PICK legacy \in SUBSET Events : db = Migrate(legacy)
  BY WritesAssumption DEF Init
<1>2. Clean(db)
  BY <1>1, MigrateIs
<1> QED
  BY <1>2 DEF Init, Orderly, Turns, Faithful, Cleanly

\* Every step keeps them in order: an abort restores the caches, a reopening
\* loads them, a commit publishes what they already say.
LEMMA NextOrderly ==
  ASSUME Disciplined, Stored, Orderly, [Next]_idbVars
  PROVE  Orderly'
<1>0. /\ Turns /\ Faithful /\ Cleanly
      /\ opening \in 0..MaxOpens /\ loading \in Nat /\ MaxOpens = 2 /\ Careful
      /\ writer = Idle \/ Writing(writer)
  BY DEF Stored, Orderly, MaxOpens, Disciplined
<1>1. CASE Open
  BY <1>0, <1>1 DEF Open, Orderly, Turns, Faithful, Cleanly
<1>2. CASE Opened
  BY <1>0, <1>2 DEF Opened, Orderly, Turns, Faithful, Cleanly
<1>3. CASE Loaded
  <2>1. writer = Idle /\ writer' = Idle /\ opening = 0 /\ loading = 1 /\ loading' = 0
    BY <1>0, <1>3 DEF Loaded, Turns
  <2>2. Alike(cache', db.del)
    BY <1>0, <1>3, LoadIs DEF Loaded, Turns, Stored, Tables
  <2> QED
    BY <1>0, <1>3, <2>1, <2>2 DEF Loaded, Orderly, Turns, Faithful, Cleanly
<1>4. ASSUME NEW op \in Ops, Begin(op) PROVE Orderly'
  <2>1. /\ writer'.op = op /\ writer'.work = db /\ writer'.snap = cache /\ writer'.behind = loading
        /\ writer = Idle /\ conn = "open" /\ opening + loading = 0
        /\ UNCHANGED <<db, cache, conn, opening, loading>>
    BY <1>0, <1>4, BeginIs DEF Begin
  <2>2. opening = 0 /\ loading = 0
    BY <1>0, <2>1
  <2>3. Alike(cache, db.del)
    BY <1>0, <2>1 DEF Faithful
  <2>4. Turns'
    BY <2>1, <2>2 DEF Turns
  <2>5. Faithful'
    BY <2>1, <2>2, <2>3 DEF Faithful
  <2> QED
    BY <1>0, <2>1, <2>4, <2>5 DEF Orderly, Cleanly
<1>5. CASE PutNext
  <2>1. PICK ev \in Events :
          \E r : /\ PutDoes(ev, r, writer.work, cache) /\ cache' = r.mem
                 /\ Writing(writer) /\ Writing(writer')
                 /\ writer'.op = writer.op /\ writer'.snap = writer.snap
                 /\ writer'.behind = writer.behind /\ writer'.work = r.work
    BY <1>5, PutNextIs
  <2>2. PICK r : /\ PutDoes(ev, r, writer.work, cache) /\ cache' = r.mem
                 /\ Writing(writer) /\ Writing(writer')
                 /\ writer'.op = writer.op /\ writer'.snap = writer.snap
                 /\ writer'.behind = writer.behind /\ writer'.work = r.work
    BY <2>1
  <2>3. writer # Idle /\ writer' # Idle /\ writer.work \in Tables /\ cache \in Deletions
    BY <2>2, BusyIs DEF Stored
  <2>4. Alike(cache, writer.work.del) /\ Clean(writer.work)
    BY <1>0, <2>3 DEF Faithful, Cleanly
  <2>5. Alike(r.mem, r.work.del) /\ Clean(r.work)
    BY <2>2, <2>3, <2>4, PutAlike, PutClean
  <2>6. UNCHANGED <<db, conn, opening, loading>>
    BY <1>5 DEF PutNext
  <2>7. Turns'
    BY <1>0, <2>2, <2>3, <2>6 DEF Turns
  <2>8. Faithful'
    BY <1>0, <2>2, <2>3, <2>5, <2>6 DEF Faithful
  <2> QED
    BY <1>0, <2>2, <2>5, <2>6, <2>7, <2>8 DEF Orderly, Cleanly
<1>6. CASE OtherWrite
  <2>1. /\ Writing(writer) /\ Writing(writer')
        /\ OtherDoes(writer.op, writer.work, writer'.work, cache, cache')
        /\ writer'.op = writer.op /\ writer'.snap = writer.snap /\ writer'.behind = writer.behind
    BY <1>6, OtherWriteIs
  <2>2. /\ writer # Idle /\ writer' # Idle /\ writer.work \in Tables /\ cache \in Deletions
        /\ writer.op \in Ops /\ RowsExact(writer.work)
    BY <2>1, BusyIs DEF Stored, Writing
  <2>3. Alike(cache, writer.work.del) /\ Clean(writer.work)
    BY <1>0, <2>2 DEF Faithful, Cleanly
  <2>4. Alike(cache', writer'.work.del) /\ Clean(writer'.work)
    BY <2>1, <2>2, <2>3, OtherType
  <2>5. UNCHANGED <<db, conn, opening, loading>>
    BY <1>6 DEF OtherWrite
  <2>6. Turns'
    BY <1>0, <2>1, <2>2, <2>5 DEF Turns
  <2>7. Faithful'
    BY <1>0, <2>1, <2>2, <2>4, <2>5 DEF Faithful
  <2> QED
    BY <1>0, <2>4, <2>5, <2>6, <2>7 DEF Orderly, Cleanly
<1>7. CASE Commit
  <2>1. writer # Idle /\ Alike(cache, writer.work.del) /\ Clean(writer.work)
    BY <1>0, <1>7 DEF Commit, Running, Faithful, Cleanly
  <2>2. Turns'
    BY <1>0, <1>7, <2>1 DEF Commit, Turns
  <2> QED
    BY <1>7, <2>1, <2>2 DEF Commit, Orderly, Faithful, Cleanly
<1>8. CASE Abort
  <2>1. writer # Idle /\ writer.op.kind = "put" /\ Alike(writer.snap, db.del) /\ cache' = writer.snap
    BY <1>0, <1>8 DEF Abort, Running, Disciplined, Faithful, RestoreCaches
  <2>2. loading = 0
    BY <1>0, <2>1 DEF Turns
  <2>3. Turns'
    BY <1>0, <1>8, <2>1, <2>2 DEF Abort, Turns
  <2> QED
    BY <1>0, <1>8, <2>1, <2>3 DEF Abort, Orderly, Faithful, Cleanly
<1>9. CASE Close
  <2>1. writer = Idle /\ opening = 0 /\ loading = 0
    BY <1>0, <1>9 DEF Close
  <2> QED
    BY <1>0, <1>9, <2>1 DEF Close, Orderly, Turns, Faithful, Cleanly
<1>10. CASE Yield
  BY <1>0, <1>10 DEF Yield, Orderly, Turns, Faithful, Cleanly
<1>11. CASE Crash
  BY <1>0, <1>11 DEF Crash, Orderly, Turns, Faithful, Cleanly
<1>12. CASE UNCHANGED idbVars
  BY <1>0, <1>12 DEF idbVars, Orderly, Turns, Faithful, Cleanly
<1> QED
  BY <1>1, <1>2, <1>3, <1>4, <1>5, <1>6, <1>7, <1>8, <1>9, <1>10, <1>11, <1>12 DEF Next

\* Both hold in every state.
LEMMA StoresInvariant ==
  ASSUME Disciplined
  PROVE  SSpec => [](Stored /\ Orderly)
<1>1. SInit => Stored /\ Orderly
  BY InitStored, InitOrderly DEF SInit
<1>2. Stored /\ Orderly /\ [SNext]_vars => (Stored /\ Orderly)'
  BY NextStored, NextOrderly, StepOfIdb
<1> QED
  BY <1>1, <1>2, PTL DEF SSpec

\* Whenever the store is open and no write is in progress, the tombstones in
\* memory and those in the tables judge every event alike, whatever aborted,
\* crashed or was reopened before (#snapshotCaches, #restoreCaches, #loadCaches).
THEOREM CacheIsFaithful ==
  ASSUME Disciplined
  PROVE  SSpec => []CacheFaithful
<1>1. Stored /\ Orderly => CacheFaithful
  <2> SUFFICES ASSUME Orderly, conn = "open", opening + loading = 0, writer = Idle, NEW ev \in Events
               PROVE  Covers(cache, ev) <=> Covers(db.del, ev)
    BY DEF CacheFaithful
  <2>1. Alike(cache, db.del)
    BY DEF Orderly, Faithful
  <2> QED
    BY <2>1, AlikeCovers
<1> QED
  BY <1>1, StoresInvariant, PTL

\* No event is stored together with its own author's request to delete it, but
\* for the one author that is remembered for an unknown id (deletion.ts).
THEOREM DeletedStayDeleted ==
  ASSUME Disciplined
  PROVE  SSpec => []DeletedNeverServed
<1>1. Stored /\ Orderly => DeletedNeverServed
  <2> SUFFICES ASSUME Stored, Orderly, NEW req \in db.stored, NEW ev \in db.stored, req.kind = "delete",
                      ev.kind # "delete", req.by = ev.by, Names(req, ev)
               PROVE  ev.id \in req.e /\ ~(ev.addr \in req.a /\ ev.at <= req.at) /\ Displaced(ev)
    BY DEF DeletedNeverServed
  <2>1. db.stored \subseteq Events /\ db.del \in Deletions
    BY DEF Stored, Tables
  <2>2. ~Covers(db.del, ev) /\ Obeys(db.del, Requests(db.stored), Heard(db))
    BY DEF Orderly, Cleanly, Clean
  <2>3. req \in Requests(db.stored)
    BY DEF Requests
  <2>4. ObeysAddresses(db.del, req) /\ ObeysIds(db.del, req, Heard(db))
    BY <2>2, <2>3 DEF Obeys
  <2>5. ~(ev.addr \in req.a /\ ev.at <= req.at)
    <3> SUFFICES ASSUME ev.addr \in req.a, ev.at <= req.at PROVE FALSE
      OBVIOUS
    <3>1. ev.addr # Nothing /\ ev.addr[1] = req.by /\ ev.at \in Nat /\ req.at \in Nat
      BY <2>1, EventsAssumption
    <3>2. ev.addr \in DOMAIN db.del.until /\ req.at <= db.del.until[ev.addr]
      BY <2>4, <3>1 DEF ObeysAddresses
    <3>3. db.del.until[ev.addr] \in Nat
      BY <2>1, <3>2, Partials DEF Deletions
    <3>4. ~(ev.at <= db.del.until[ev.addr])
      BY <2>2, <3>2 DEF Covers
    <3> QED
      BY <3>1, <3>2, <3>3, <3>4
  <2>6. ev.id \in req.e
    BY <2>5 DEF Names
  <2>7. PICK other \in Heard(db) : other.by # ev.by /\ ev.id \in other.e
    BY <2>1, <2>2, <2>4, <2>6 DEF ObeysIds, Covers
  <2>8. Displaced(ev)
    BY <2>7 DEF Heard, Requests, Displaced
  <2> QED
    BY <2>5, <2>6, <2>8
<1> QED
  BY <1>1, StoresInvariant, PTL

-----------------------------------------------------------------------------
(* SQLite, given the same writes.                                          *)
SqlTables == [stored : SUBSET Events, del : Deletions]
SameAs(s, t) == s.stored = t.stored /\ Alike(s.del, t.del)

\* The lookup of an event's own tombstones judges it as all of them do.
LEMMA LookupIs ==
  ASSUME NEW dl \in Deletions, NEW ev
  PROVE  /\ ev.id \in Lookup(dl, ev).ids <=> ev.id \in dl.ids
         /\ Covers(Lookup(dl, ev), ev) <=> Covers(dl, ev)
<1>1. PICK l : l = Lookup(dl, ev)
  OBVIOUS
<1>2. ev.id \in l.ids <=> ev.id \in dl.ids
  BY <1>1 DEF Lookup
<1>3. At(l.pending, ev.id) = At(dl.pending, ev.id)
  BY <1>1 DEF Lookup, At, Restrict
<1>4. /\ ev.addr \in DOMAIN l.until <=> ev.addr \in DOMAIN dl.until
      /\ ev.addr \in DOMAIN l.until => l.until[ev.addr] = dl.until[ev.addr]
  BY <1>1 DEF Lookup, Restrict
<1>5. Covers(l, ev) <=> Covers(dl, ev)
  BY <1>2, <1>3, <1>4 DEF Covers
<1> QED
  BY <1>1, <1>2, <1>5

\* The rows after a request.
LEMMA SqlPersistIs ==
  ASSUME NEW d \in Deletions, NEW plan \in Plans, NEW id \in RequestIds, NEW coords \in SUBSET Ids,
         NEW r, r = SqlPersistPlan(d, id, plan, coords)
  PROVE  After(r, d, plan, plan.remove \cup coords)
<1>1. PICK ids : ids = plan.remove \cup coords
  OBVIOUS
<1>2. PICK all : all = d.ids \cup ids
  OBVIOUS
<1>3. PICK q : q = Over(Without(d.pending, ids \cup {id}), Without(plan.pending, all))
  OBVIOUS
<1>4. r = [ids |-> all, pending |-> q, until |-> Later(d.until, plan.until)]
  BY <1>1, <1>2, <1>3 DEF SqlPersistPlan, Later, Seconds
<1>5. /\ r.ids = d.ids \cup (plan.remove \cup coords) /\ r.pending = q
      /\ r.until = Later(d.until, plan.until)
  BY <1>1, <1>2, <1>4
<1>6. /\ plan.remove \in SUBSET Ids /\ plan.pending \in Partial(Ids, Authors) /\ d.pending \in Partial(Ids, Authors)
      /\ plan.until \in Partial(Addrs, Nat) /\ d.until \in Partial(Addrs, Nat) /\ d.ids \in SUBSET Ids
  BY DEF Plans, Deletions
<1>7. /\ q \in Partial(Ids, Authors)
      /\ \A i : i \notin ids \cup {id} /\ i \notin all =>
           At(q, i) = IF i \in DOMAIN plan.pending THEN plan.pending[i] ELSE At(d.pending, i)
  BY <1>3, <1>6, Merge
<1>8. r \in Deletions
  <2>1. Later(d.until, plan.until) \in Partial(Addrs, Nat)
    BY <1>6, LaterType
  <2>2. all \in SUBSET Ids
    BY <1>1, <1>2, <1>6
  <2> QED
    BY <1>4, <1>7, <2>1, <2>2 DEF Deletions
<1>9. \A i \in Ids \ (r.ids \cup RequestIds) :
         At(r.pending, i) = IF i \in DOMAIN plan.pending THEN plan.pending[i] ELSE At(d.pending, i)
  BY <1>1, <1>2, <1>5, <1>7
<1> QED
  BY <1>5, <1>8, <1>9 DEF After

\* One event, whatever the tables hold.
LEMMA SqlPutType ==
  ASSUME NEW t \in SqlTables, NEW ev \in Events, NEW u, u = SqlPut(t, ev)
  PROVE  u \in SqlTables
<1>1. PICK h : h = SqlHolder(t)
  OBVIOUS
<1>2. PICK d : d = Decide(ev, Lookup(t.del, ev), t.stored, h)
  OBVIOUS
<1>3. t.stored \in SUBSET Events /\ t.del \in Deletions
  BY DEF SqlTables
<1>4. /\ d.action \in {"skip", "tombstone", "delete", "insert"}
      /\ d.action = "delete" => /\ ev.kind = "delete" /\ d.plan = Plan(ev, t.stored)
                                /\ d.coords = CoordinateRemovals(d.plan, h)
  BY <1>2 DEF Decide, Skip
<1>5. CASE d.action = "skip"
  BY <1>1, <1>2, <1>5 DEF SqlPut
<1>6. CASE d.action = "tombstone"
  <2>1. PICK dl : dl = Tombstone(t.del, {ev.id})
    OBVIOUS
  <2>2. {ev.id} \in SUBSET Ids
    BY DEF Ids
  <2>3. dl \in Deletions
    BY <1>3, <2>1, <2>2, TombstoneIs
  <2>4. u = [t EXCEPT !.del = dl]
    BY <1>1, <1>2, <1>6, <2>1 DEF SqlPut, SqlTables
  <2> QED
    BY <2>3, <2>4 DEF SqlTables
<1>7. CASE d.action = "delete"
  <2>1. PICK plan : plan = Plan(ev, t.stored)
    OBVIOUS
  <2>2. PICK coords : coords = CoordinateRemovals(plan, h)
    OBVIOUS
  <2>3. plan \in Plans /\ DOMAIN plan.until \subseteq Addrs
    <3>1. plan \in Plans
      BY <1>3, <2>1, PlanIs
    <3>2. plan.until \in Partial(Addrs, Nat)
      BY <3>1 DEF Plans
    <3> QED
      BY <3>1, <3>2, Partials
  <2>4. coords \in SUBSET Ids
    <3> SUFFICES ASSUME NEW c \in Addrs, h[c] # Nothing PROVE h[c].id \in Ids
      BY <2>2, <2>3 DEF CoordinateRemovals
    <3>1. ByAddr(t.stored, c) # {}
      BY <1>1 DEF SqlHolder
    <3>2. PICK x : x = CHOOSE y \in ByAddr(t.stored, c) : TRUE
      OBVIOUS
    <3>3. x \in Events
      BY <1>3, <3>1, <3>2 DEF ByAddr
    <3>4. h[c] = [id |-> x.id, at |-> x.at, evicted |-> FALSE]
      BY <1>1, <3>1, <3>2 DEF SqlHolder
    <3> QED
      BY <3>3, <3>4 DEF Ids
  <2>5. ev.id \in RequestIds
    BY <1>4, <1>7 DEF RequestIds
  <2>6. PICK dl : dl = SqlPersistPlan(t.del, ev.id, plan, coords)
    OBVIOUS
  <2>7. dl \in Deletions
    BY <1>3, <2>3, <2>4, <2>5, <2>6, SqlPersistIs DEF After
  <2>8. u = [stored |-> Sans(t.stored, plan.remove \cup coords) \cup {ev}, del |-> dl]
    BY <1>1, <1>2, <1>4, <1>7, <2>1, <2>2, <2>6 DEF SqlPut
  <2>9. Sans(t.stored, plan.remove \cup coords) \cup {ev} \in SUBSET Events
    BY <1>3 DEF Sans
  <2> QED
    BY <2>7, <2>8, <2>9 DEF SqlTables
<1>8. CASE d.action = "insert"
  <2>1. u = [t EXCEPT !.stored = Sans(t.stored, d.drop) \cup {ev}]
    BY <1>1, <1>2, <1>8 DEF SqlPut
  <2>2. Sans(t.stored, d.drop) \cup {ev} \in SUBSET Events
    BY <1>3 DEF Sans
  <2> QED
    BY <2>1, <2>2 DEF SqlTables
<1> QED
  BY <1>4, <1>5, <1>6, <1>7, <1>8

\* One event does the same to both.
LEMMA SqlPutSame ==
  ASSUME NEW s \in SqlTables, NEW t \in Tables, RowsExact(t), SameAs(s, t),
         NEW mem \in Deletions, Alike(mem, t.del), NEW ev \in Events,
         NEW r, PutDoes(ev, r, t, mem), NEW u, u = SqlPut(s, ev)
  PROVE  SameAs(u, r.work)
<1>1. /\ s.stored = t.stored /\ t.stored \in SUBSET Events /\ s.del \in Deletions /\ t.del \in Deletions
      /\ Alike(s.del, t.del)
  BY DEF SqlTables, Tables, SameAs
<1>2. PICK h : h = SqlHolder(s) /\ h = RowHolder(t) /\ HolderOf(h, t.stored)
  <2>1. OnePerAddress(s.stored)
    BY <1>1, RowsOne
  <2>2. HolderOf(SqlHolder(s), t.stored)
    BY <1>1, <2>1, SqlHolderIs
  <2>3. HolderOf(RowHolder(t), t.stored)
    BY <1>1, RowHolderIs
  <2>4. SqlHolder(s) = RowHolder(t)
    BY <1>1, <2>2, <2>3, OneHolder
  <2> QED
    BY <2>3, <2>4
<1>3. PICK d : /\ d = Decide(ev, mem, t.stored, h) /\ d.action = Action(ev, t, mem)
               /\ Decided(d, ev, mem, t.stored)
  BY <1>1, <1>2, DecisionIs DEF Action
<1>4. d = Decide(ev, Lookup(s.del, ev), s.stored, SqlHolder(s))
  <2>1. PICK l : l = Lookup(s.del, ev)
    OBVIOUS
  <2>2. ev.id \in l.ids <=> ev.id \in mem.ids
    BY <1>1, <2>1, LookupIs DEF Alike
  <2>3. Covers(l, ev) <=> Covers(mem, ev)
    <3>1. Covers(l, ev) <=> Covers(s.del, ev)
      BY <1>1, <2>1, LookupIs
    <3>2. Covers(s.del, ev) <=> Covers(t.del, ev)
      BY <1>1, AlikeCovers
    <3>3. Covers(mem, ev) <=> Covers(t.del, ev)
      BY AlikeCovers
    <3> QED
      BY <3>1, <3>2, <3>3
  <2>4. Decide(ev, l, t.stored, h) = Decide(ev, mem, t.stored, h)
    BY <2>2, <2>3, SameDecision
  <2> QED
    BY <1>1, <1>2, <1>3, <2>1, <2>4
<1>5. CASE d.action = "skip" /\ r.work = t
  BY <1>4, <1>5 DEF SqlPut
<1>6. CASE d.action = "tombstone" /\ Marks(ev, r, t, mem)
  <2>1. u = [s EXCEPT !.del = Tombstone(s.del, {ev.id})]
    BY <1>4, <1>6 DEF SqlPut
  <2>2. u.stored = s.stored /\ u.del = Tombstone(s.del, {ev.id})
    BY <2>1 DEF SqlTables
  <2>3. r.work.stored = t.stored /\ r.work.del = Tombstone(t.del, {ev.id})
    BY <1>6 DEF Marks, Tables
  <2>4. {ev.id} \in SUBSET Ids
    BY DEF Ids
  <2>5. Alike(u.del, r.work.del)
    BY <1>1, <2>2, <2>3, <2>4, TombstoneAlike
  <2> QED
    BY <1>1, <2>2, <2>3, <2>5 DEF SameAs
<1>7. CASE d.action = "delete" /\ Deletes(ev, r, t, mem)
  <2>1. PICK plan : plan = Plan(ev, t.stored)
    OBVIOUS
  <2>2. PICK coords : coords = Overdue(t.stored, plan.until)
    OBVIOUS
  <2>3. d.plan = plan /\ d.coords = coords /\ Erased(ev, t.stored) = plan.remove \cup coords
    BY <1>3, <1>7, <2>1, <2>2 DEF Decided, Erased
  <2>4. PICK dl : dl = SqlPersistPlan(s.del, ev.id, plan, coords)
    OBVIOUS
  <2>5. u = [stored |-> Sans(s.stored, plan.remove \cup coords) \cup {ev}, del |-> dl]
    BY <1>4, <1>7, <2>3, <2>4 DEF SqlPut
  <2>6. plan \in Plans /\ coords \in SUBSET Ids /\ ev.id \in RequestIds
    <3>1. plan \in Plans
      BY <1>1, <2>1, PlanIs
    <3>2. coords \in SUBSET Ids
      BY <1>1, <2>2 DEF Overdue, Ids
    <3>3. ev.id \in RequestIds
      BY <1>7 DEF Deletes, RequestIds
    <3> QED
      BY <3>1, <3>2, <3>3
  <2>7. After(dl, s.del, plan, plan.remove \cup coords)
    BY <1>1, <2>4, <2>6, SqlPersistIs
  <2>8. After(r.work.del, t.del, plan, plan.remove \cup coords)
        /\ r.work.stored = Sans(t.stored, plan.remove \cup coords) \cup {ev}
    BY <1>7, <2>1, <2>3 DEF Deletes
  <2>9. Alike(dl, r.work.del)
    BY <1>1, <2>7, <2>8, AfterAlike
  <2>10. u.stored = Sans(s.stored, plan.remove \cup coords) \cup {ev} /\ u.del = dl
    BY <2>5
  <2> QED
    BY <1>1, <2>8, <2>9, <2>10 DEF SameAs
<1>8. CASE d.action = "insert" /\ Inserts(ev, r, t, mem)
  <2>1. d.drop = AtAddress(t.stored, ev.addr)
    BY <1>3, <1>8 DEF Decided
  <2>2. u = [s EXCEPT !.stored = Sans(s.stored, d.drop) \cup {ev}]
    BY <1>4, <1>8 DEF SqlPut
  <2>3. u.stored = Sans(s.stored, d.drop) \cup {ev} /\ u.del = s.del
    BY <2>2 DEF SqlTables
  <2> QED
    BY <1>1, <1>8, <2>1, <2>3 DEF Inserts, SameAs
<1> QED
  BY <1>3, <1>5, <1>6, <1>7, <1>8 DEF PutDoes

\* A batch: its fold goes through the states acc.
SqlRun(acc, base, batch) ==
  /\ acc[0] = base
  /\ \A k \in 1..Len(batch) : acc[k] = SqlPut(acc[k - 1], batch[k])
  /\ \A k \in 0..Len(batch) : acc[k] \in SqlTables
  /\ FoldLeft(SqlPut, base, batch) = acc[Len(batch)]

\* A run of SQLite's puts over a batch exists for every batch.
LEMMA SqlRunExists ==
  ASSUME NEW base \in SqlTables, NEW batch \in Seq(Events)
  PROVE  \E acc : SqlRun(acc, base, batch)
<1> DEFINE n == Len(batch)
           S == 1..n
           step == [p \in SqlTables \X S |-> SqlPut(p[1], batch[p[2]])]
           pick == [s \in SUBSET S |-> Max(s)]
           iter == CHOOSE f : f = [s \in SUBSET S |-> IF s = {} THEN base
                                                      ELSE SqlPut(f[s \ {Max(s)}], batch[Max(s)])]
           acc == [k \in 0..n |-> iter[1..k]]
<1>1. n \in Nat /\ IsFiniteSet(S) /\ DOMAIN batch = S
  BY FS_Interval
<1>2. \A s \in SUBSET S : s # {} => pick[s] \in s /\ Max(s) \in s
  BY <1>1, MaxOfPrefix
<1>3. step \in [SqlTables \X S -> SqlTables]
  <2>1. ASSUME NEW p \in SqlTables \X S PROVE SqlPut(p[1], batch[p[2]]) \in SqlTables
    <3>1. p[1] \in SqlTables /\ batch[p[2]] \in Events
      OBVIOUS
    <3> QED
      BY <3>1, SqlPutType
  <2> HIDE DEF S
  <2> QED
    BY <2>1
<1>4. PICK f \in [SUBSET S -> SqlTables] : Folds(f, S, base, step, pick)
  <2> HIDE DEF S, step, pick
  <2> QED
    BY <1>1, <1>2, <1>3, FoldExists
<1>5. f = [s \in SUBSET S |-> IF s = {} THEN base ELSE SqlPut(f[s \ {Max(s)}], batch[Max(s)])]
  <2>1. ASSUME NEW s \in SUBSET S, s # {} PROVE f[s] = SqlPut(f[s \ {Max(s)}], batch[Max(s)])
    <3>1. s \ {Max(s)} \in SUBSET S /\ Max(s) \in S /\ pick[s] = Max(s)
      BY <1>2, <2>1
    <3>2. f[s \ {Max(s)}] \in SqlTables
      BY <1>4, <3>1
    <3>3. f[s] = step[<<f[s \ {Max(s)}], Max(s)>>]
      BY <1>4, <2>1, <3>1 DEF Folds
    <3> HIDE DEF S
    <3> QED
      BY <3>1, <3>2, <3>3
  <2>2. f[{}] = base
    BY <1>4 DEF Folds
  <2>3. f = [s \in SUBSET S |-> f[s]]
    BY <1>4
  <2> HIDE DEF S
  <2> QED
    BY <2>1, <2>2, <2>3
<1>6. iter = [s \in SUBSET S |-> IF s = {} THEN base ELSE SqlPut(iter[s \ {Max(s)}], batch[Max(s)])]
  BY <1>5
<1>7. FoldLeft(SqlPut, base, batch) = iter[S]
  BY <1>1 DEF FoldLeft, MapThenFoldSet
<1> HIDE DEF iter
<1>8. acc[0] = base
  <2>1. 1..0 = {} /\ iter[{}] = base
    BY <1>6
  <2> QED
    BY <2>1
<1>9. ASSUME NEW k \in 1..n PROVE acc[k] = SqlPut(acc[k - 1], batch[k])
  <2>1. 1..k \in SUBSET S /\ 1..k # {} /\ k - 1 \in 0..n /\ k \in 0..n
    OBVIOUS
  <2>2. Max(1..k) = k /\ (1..k) \ {k} = 1..(k - 1)
    BY MaxOfPrefix
  <2>3. iter[1..k] = SqlPut(iter[(1..k) \ {Max(1..k)}], batch[Max(1..k)])
    BY <1>6, <2>1
  <2>4. iter[1..k] = SqlPut(iter[1..(k - 1)], batch[k])
    BY <2>2, <2>3
  <2> QED
    BY <2>1, <2>4
<1>10. \A k \in 0..n : acc[k] \in SqlTables
  <2> DEFINE Good == {k \in 0..n : acc[k] \in SqlTables}
  <2> HIDE DEF acc
  <2>1. 0 \in Good
    BY <1>8
  <2>2. ASSUME NEW k \in 1..n, k - 1 \in Good PROVE k \in Good
    <3>1. batch[k] \in Events /\ acc[k - 1] \in SqlTables
      BY <2>2
    <3>2. SqlPut(acc[k - 1], batch[k]) \in SqlTables
      BY <3>1, SqlPutType
    <3> QED
      BY <1>9, <3>2
  <2> HIDE DEF Good
  <2>3. 0..n \subseteq Good
    BY <1>1, <2>1, <2>2, UpToInduction
  <2> QED
    BY <2>3 DEF Good
<1>11. acc[n] = iter[S]
  OBVIOUS
<1> HIDE DEF acc
<1>12. SqlRun(acc, base, batch)
  BY <1>7, <1>8, <1>9, <1>10, <1>11 DEF SqlRun
<1> QED
  BY <1>12

\* While a batch runs, SQLite would be where the write is after as many events.
PutRuns(base, arg, left, work) == \E acc : \E n \in 0..Len(arg) :
  /\ SqlRun(acc, base, arg) /\ left = SubSeq(arg, n + 1, Len(arg))
  /\ SameAs(acc[n], work)
OtherRuns(op, left, work, tables) ==
  \/ left = <<Nothing>> /\ work = tables
  \/ /\ left = <<>>
     /\ \E mem, mem2 \in Deletions : OtherDoes(op, tables, work, mem, mem2)
InStep ==
  /\ sql \in SqlTables /\ SameAs(sql, db)
  /\ writer # Idle => IF writer.op.kind = "put"
                      THEN PutRuns(sql, writer.op.arg, writer.left, writer.work)
                      ELSE OtherRuns(writer.op, writer.left, writer.work, db)

\* SQLite starts with the tables of IndexedDB.
LEMMA InitInStep == SInit => InStep
<1> SUFFICES ASSUME SInit PROVE InStep
  OBVIOUS
<1>1. Stored /\ writer = Idle /\ sql = [stored |-> db.stored, del |-> db.del]
  BY InitStored DEF SInit, Init
<1>2. db.stored \in SUBSET Events /\ db.del \in Deletions
  BY <1>1 DEF Stored, Tables
<1> QED
  BY <1>1, <1>2 DEF InStep, SqlTables, SameAs, Alike

\* A put of the transaction extends the run of SQLite's puts by one.
LEMMA PutInStep ==
  ASSUME Stored, Orderly, InStep, PutNext, UNCHANGED sql
  PROVE  InStep'
<1>1. PICK ev \in Events :
        \E r : /\ PutDoes(ev, r, writer.work, cache)
               /\ writer.left \in Seq(Events) /\ writer.left # <<>> /\ ev = Head(writer.left)
               /\ Writing(writer) /\ writer'.op = writer.op
               /\ writer'.work = r.work /\ writer'.left = Tail(writer.left)
  BY PutNextIs
<1>2. PICK r : /\ PutDoes(ev, r, writer.work, cache)
               /\ writer.left \in Seq(Events) /\ writer.left # <<>> /\ ev = Head(writer.left)
               /\ Writing(writer) /\ writer'.op = writer.op
               /\ writer'.work = r.work /\ writer'.left = Tail(writer.left)
  BY <1>1
<1>3. /\ writer # Idle /\ writer.work \in Tables /\ RowsExact(writer.work) /\ cache \in Deletions
      /\ writer.op.kind = "put" /\ writer.op \in Ops
  BY <1>2, BusyIs DEF Stored, Writing, PutNext
<1>4. PICK arg \in Seq(Events) : arg = writer.op.arg
  BY <1>3, OpIs
<1>5. PICK acc : \E n \in 0..Len(arg) : /\ SqlRun(acc, sql, arg)
                                        /\ writer.left = SubSeq(arg, n + 1, Len(arg))
                                        /\ SameAs(acc[n], writer.work)
  BY <1>3, <1>4 DEF InStep, PutRuns
<1>6. PICK n \in 0..Len(arg) : /\ SqlRun(acc, sql, arg)
                               /\ writer.left = SubSeq(arg, n + 1, Len(arg))
                               /\ SameAs(acc[n], writer.work)
  BY <1>5
<1>7. n < Len(arg) /\ ev = arg[n + 1] /\ Tail(writer.left) = SubSeq(arg, n + 2, Len(arg))
  <2>1. n < Len(arg)
    BY <1>2, <1>6
  <2>2. Head(writer.left) = arg[n + 1]
    BY <1>6, <2>1
  <2>3. Tail(SubSeq(arg, n + 1, Len(arg))) = SubSeq(arg, n + 2, Len(arg))
    BY <2>1
  <2> QED
    BY <1>2, <1>6, <2>1, <2>2, <2>3
<1>8. acc[n] \in SqlTables /\ acc[n + 1] = SqlPut(acc[n], ev) /\ n + 1 \in 0..Len(arg)
  BY <1>6, <1>7 DEF SqlRun
<1>9. Alike(cache, writer.work.del)
  BY <1>3 DEF Orderly, Faithful
<1>10. SameAs(acc[n + 1], r.work)
  BY <1>2, <1>3, <1>6, <1>8, <1>9, SqlPutSame
<1>11. PutRuns(sql, arg, writer'.left, writer'.work)
  <2>1. PICK m \in 0..Len(arg) : m = n + 1 /\ m + 1 = n + 2
    BY <1>8
  <2>2. writer'.left = SubSeq(arg, m + 1, Len(arg))
    BY <1>2, <1>7, <2>1
  <2>3. SameAs(acc[m], writer'.work)
    BY <1>2, <1>10, <2>1
  <2> QED
    BY <1>6, <2>1, <2>2, <2>3 DEF PutRuns
<1>12. SameAs(sql, db)' /\ sql' \in SqlTables
  BY DEF InStep, PutNext
<1>13. writer'.op.kind = "put" /\ writer'.op.arg = arg
  BY <1>2, <1>3, <1>4
<1> QED
  BY <1>11, <1>12, <1>13 DEF InStep

\* A write begins with an empty run.
LEMMA BeginInStep ==
  ASSUME Stored, InStep, NEW op \in Ops, Begin(op), UNCHANGED sql
  PROVE  InStep'
<1>1. /\ writer'.op = op /\ writer'.work = db /\ db' = db
      /\ writer'.left = IF op.kind = "put" THEN op.arg ELSE <<Nothing>>
  BY BeginIs DEF Begin
<1>2. sql \in SqlTables /\ SameAs(sql, db)
  BY DEF InStep
<1>3. CASE op.kind = "put"
  <2>1. PICK arg \in Seq(Events) : arg = op.arg
    BY <1>3, OpIs
  <2>2. PICK acc : SqlRun(acc, sql, arg)
    BY <1>2, <2>1, SqlRunExists
  <2>3. acc[0] = sql
    BY <2>2 DEF SqlRun
  <2>4. arg = SubSeq(arg, 0 + 1, Len(arg)) /\ 0 \in 0..Len(arg)
    BY <2>1
  <2>5. PutRuns(sql, arg, arg, db)
    BY <1>2, <2>2, <2>3, <2>4 DEF PutRuns
  <2> QED
    BY <1>1, <1>2, <1>3, <2>1, <2>5 DEF InStep
<1>4. CASE op.kind # "put"
  <2>1. OtherRuns(op, <<Nothing>>, db, db)
    BY DEF OtherRuns
  <2> QED
    BY <1>1, <1>2, <1>4, <2>1 DEF InStep
<1> QED
  BY <1>3, <1>4

\* Remove, clear and setOutboxBound do to the tables what SQLite will do.
LEMMA OtherInStep ==
  ASSUME Stored, InStep, OtherWrite, UNCHANGED sql
  PROVE  InStep'
<1>1. /\ Writing(writer) /\ OtherDoes(writer.op, writer.work, writer'.work, cache, cache')
      /\ cache' \in Deletions /\ cache \in Deletions
      /\ writer'.op = writer.op /\ writer'.left = <<>>
      /\ writer.left = <<Nothing>> /\ db' = db
  BY OtherWriteIs DEF OtherWrite, Stored
<1>2. writer # Idle /\ sql \in SqlTables /\ SameAs(sql, db)
  BY DEF InStep, OtherWrite, Running
<1>3. writer.op.kind # "put"
  BY <1>1 DEF OtherDoes
<1>4. OtherRuns(writer.op, writer.left, writer.work, db)
  BY <1>2, <1>3 DEF InStep
<1>5. writer.work = db
  <2>1. writer.left # <<>>
    BY <1>1
  <2> QED
    BY <1>4, <2>1 DEF OtherRuns
<1>6. OtherRuns(writer.op, <<>>, writer'.work, db)
  BY <1>1, <1>5 DEF OtherRuns
<1> QED
  BY <1>1, <1>2, <1>3, <1>6 DEF InStep

\* At the commit SQLite's write arrives at the tables of IndexedDB.
LEMMA CommitInStep ==
  ASSUME Stored, InStep, Committed
  PROVE  InStep'
<1>1. /\ writer # Idle /\ Writing(writer) /\ writer.left = <<>> /\ db' = writer.work /\ writer' = Idle
      /\ Same(writer.op) /\ writer.op \in Ops
  BY BusyIs DEF Committed, Commit, Running, Stored
<1>2. db \in Tables /\ RowsExact(db) /\ sql \in SqlTables /\ SameAs(sql, db)
  BY DEF Stored, InStep
<1>3. sql.stored = db.stored /\ Alike(sql.del, db.del) /\ db.del \in Deletions /\ sql.del \in Deletions
  BY <1>2 DEF SameAs, Tables, SqlTables
<1>4. SUFFICES sql' \in SqlTables /\ SameAs(sql', db')
  BY <1>1 DEF InStep
<1>5. CASE writer.op.kind = "put"
  <2>1. PICK arg \in Seq(Events) : arg = writer.op.arg
    BY <1>1, <1>5, OpIs
  <2>2. PICK acc : \E n \in 0..Len(arg) : /\ SqlRun(acc, sql, arg)
                                          /\ writer.left = SubSeq(arg, n + 1, Len(arg))
                                          /\ SameAs(acc[n], writer.work)
    BY <1>1, <1>5, <2>1 DEF InStep, PutRuns
  <2>3. PICK n \in 0..Len(arg) : /\ SqlRun(acc, sql, arg)
                                 /\ writer.left = SubSeq(arg, n + 1, Len(arg))
                                 /\ SameAs(acc[n], writer.work)
    BY <2>2
  <2>4. n = Len(arg)
    BY <1>1, <2>1, <2>3
  <2>5. sql' = FoldLeft(SqlPut, sql, arg)
    BY <1>1, <1>5, <2>1 DEF Same, SqlPutMany
  <2>6. sql' = acc[n] /\ acc[n] \in SqlTables
    BY <2>3, <2>4, <2>5 DEF SqlRun
  <2> QED
    BY <1>1, <2>3, <2>6
<1>6. CASE writer.op.kind # "put"
  <2>1. PICK mem \in Deletions :
          \E mem2 \in Deletions : OtherDoes(writer.op, db, writer.work, mem, mem2)
    <3>1. writer.left # <<Nothing>>
      BY <1>1
    <3> QED
      BY <1>1, <1>6, <3>1 DEF InStep, OtherRuns
  <2>2. PICK mem2 \in Deletions : OtherDoes(writer.op, db, writer.work, mem, mem2)
    BY <2>1
  <2>3. CASE writer.op.kind = "remove" /\ writer.work = Removed(db, writer.op.arg)
    <3>1. PICK ids \in SUBSET Ids : ids = writer.op.arg
      BY <1>1, <2>3, OpIs
    <3>2. PICK dl : dl = Tombstone(sql.del, ids)
      OBVIOUS
    <3>3. sql' = [stored |-> Sans(sql.stored, ids), del |-> dl]
      BY <1>1, <2>3, <3>1, <3>2 DEF Same, SqlRemove
    <3>4. writer.work.stored = Sans(db.stored, ids) /\ writer.work.del = Tombstone(db.del, ids)
      BY <1>2, <2>3, <3>1, RemoveIs
    <3>5. dl \in Deletions /\ Alike(dl, writer.work.del)
      BY <1>3, <3>2, <3>4, TombstoneIs, TombstoneAlike
    <3>6. Sans(sql.stored, ids) \in SUBSET Events
      BY <1>2 DEF Sans, SqlTables
    <3>7. sql' \in SqlTables /\ sql'.stored = Sans(sql.stored, ids) /\ sql'.del = dl
      BY <3>3, <3>5, <3>6 DEF SqlTables
    <3> QED
      BY <1>1, <1>3, <3>4, <3>5, <3>7 DEF SameAs
  <2>4. CASE writer.op.kind = "clear" /\ writer.work = EmptyTables
    <3>1. sql' = SqlEmpty
      BY <1>1, <2>4 DEF Same, SqlClear
    <3>2. SqlEmpty \in SqlTables
      BY EmptyIs DEF SqlEmpty, SqlTables
    <3>3. SameAs(SqlEmpty, EmptyTables)
      BY DEF SqlEmpty, EmptyTables, SameAs, Alike
    <3> QED
      BY <1>1, <2>4, <3>1, <3>2, <3>3
  <2>5. CASE writer.op.kind = "bound" /\ writer.work = [db EXCEPT !.bound = writer.op.arg]
    <3>1. sql' = sql
      BY <1>1, <2>5 DEF Same
    <3>2. writer.work.stored = db.stored /\ writer.work.del = db.del
      BY <1>2, <2>5 DEF Tables
    <3> QED
      BY <1>1, <1>2, <1>3, <3>1, <3>2 DEF SameAs
  <2> QED
    BY <2>2, <2>3, <2>4, <2>5 DEF OtherDoes
<1> QED
  BY <1>5, <1>6

\* Every step keeps SQLite in step.
LEMMA NextInStep ==
  ASSUME Stored, Orderly, InStep, [SNext]_vars
  PROVE  InStep'
<1>0. sql \in SqlTables /\ SameAs(sql, db)
  BY DEF InStep
<1>1. CASE Committed
  BY <1>1, CommitInStep
<1>2. ASSUME sql' = sql, db' = db, writer' = Idle PROVE InStep'
  BY <1>0, <1>2 DEF InStep
<1>3. ASSUME sql' = sql, db' = db, writer' = writer PROVE InStep'
  BY <1>3 DEF InStep
<1>4. CASE Loaded /\ UNCHANGED sql
  <2>1. writer = Idle
    BY <1>4 DEF Loaded, Orderly, Turns, Stored
  <2> QED
    BY <1>2, <1>4, <2>1 DEF Loaded
<1>5. CASE (Open \/ Opened) /\ UNCHANGED sql
  BY <1>3, <1>5 DEF Open, Opened
<1>6. CASE (\E op \in Ops : Begin(op)) /\ UNCHANGED sql
  BY <1>6, BeginInStep
<1>7. CASE PutNext /\ UNCHANGED sql
  BY <1>7, PutInStep
<1>8. CASE OtherWrite /\ UNCHANGED sql
  BY <1>8, OtherInStep
<1>9. CASE (Abort \/ Crash) /\ UNCHANGED sql
  BY <1>2, <1>9 DEF Abort, Crash
<1>10. CASE (Close \/ Yield) /\ UNCHANGED sql
  BY <1>3, <1>10 DEF Close, Yield
<1>11. CASE UNCHANGED vars
  BY <1>3, <1>11 DEF vars, idbVars
<1> QED
  BY <1>1, <1>4, <1>5, <1>6, <1>7, <1>8, <1>9, <1>10, <1>11 DEF SNext

\* Given the same writes SQLite holds the events IndexedDB holds, judges every
\* event as IndexedDB does, and holds none that its tombstones cover: its reads
\* need not ask them (sqlite.ts).
THEOREM StoresAgree ==
  ASSUME Disciplined
  PROVE  SSpec => []SqliteAgrees
<1>1. SInit => Stored /\ Orderly /\ InStep
  BY InitStored, InitOrderly, InitInStep DEF SInit
<1>2. Stored /\ Orderly /\ InStep /\ [SNext]_vars => (Stored /\ Orderly /\ InStep)'
  BY NextStored, NextOrderly, NextInStep, StepOfIdb
<1>3. Stored /\ Orderly /\ InStep => SqliteAgrees
  <2> SUFFICES ASSUME Stored, Orderly, InStep PROVE SqliteAgrees
    OBVIOUS
  <2>1. sql.stored = db.stored /\ Alike(sql.del, db.del) /\ db.stored \subseteq Events
    BY DEF InStep, SameAs, Stored, Tables
  <2>2. \A ev \in Events : Covers(sql.del, ev) <=> Covers(db.del, ev)
    BY <2>1, AlikeCovers
  <2>3. \A ev \in db.stored : ~Covers(db.del, ev)
    BY DEF Orderly, Cleanly, Clean
  <2> QED
    BY <2>1, <2>2, <2>3 DEF SqliteAgrees
<1> QED
  BY <1>1, <1>2, <1>3, PTL DEF SSpec

\* A typed deletion state and typed tables, field by field.
LEMMA DeletionTyped ==
  ASSUME NEW d \in Deletions
  PROVE  DeletionOK(d)
<1>1. d.ids \in SUBSET Ids /\ d.pending \in Partial(Ids, Authors) /\ d.until \in Partial(Addrs, Nat)
  BY DEF Deletions
<1>2. /\ DOMAIN d.pending \subseteq Ids /\ (\A x \in DOMAIN d.pending : d.pending[x] \in Authors)
      /\ DOMAIN d.until \subseteq Addrs /\ (\A x \in DOMAIN d.until : d.until[x] \in Nat)
  BY <1>1, Partials
<1>3. Range(d.pending) \subseteq Authors /\ Range(d.until) \subseteq Nat
  BY <1>2 DEF Range
<1> QED
  BY <1>1, <1>2, <1>3 DEF DeletionOK

\* Typed tables are typed in every field.
LEMMA TablesTyped ==
  ASSUME NEW t \in Tables
  PROVE  TablesOK(t)
<1>1. /\ t.stored \subseteq Events /\ t.rows \in Partial(Addrs, Rows) /\ t.del \in Deletions
      /\ t.bound \in Bounds \cup {Nothing}
  BY DEF Tables
<1>2. DOMAIN t.rows \subseteq Addrs
  BY <1>1, Partials
<1> QED
  BY <1>1, <1>2, DeletionTyped DEF TablesOK

\* Types of the two stores: tables, tombstones in memory, the write in
\* progress and SQLite's tables.
THEOREM StoresType ==
  ASSUME Disciplined
  PROVE  SSpec => []TypeOK
<1>1. SInit => Stored /\ Orderly /\ InStep
  BY InitStored, InitOrderly, InitInStep DEF SInit
<1>2. Stored /\ Orderly /\ InStep /\ [SNext]_vars => (Stored /\ Orderly /\ InStep)'
  BY NextStored, NextOrderly, NextInStep, StepOfIdb
<1>3. Stored /\ Orderly /\ InStep => TypeOK
  <2> SUFFICES ASSUME Stored, Orderly, InStep PROVE TypeOK
    OBVIOUS
  <2>1. TablesOK(db) /\ DeletionOK(cache)
    BY TablesTyped, DeletionTyped DEF Stored
  <2>2. conn \in {"closed", "open", "yielded"} /\ opening \in 0..MaxOpens /\ loading \in 0..MaxOpens
    BY DEF Stored, Orderly, Turns, MaxOpens
  <2>3. ASSUME writer # Idle
        PROVE  /\ writer.op \in Ops /\ TablesOK(writer.work) /\ DeletionOK(writer.snap)
               /\ writer.behind \in 0..MaxOpens
    <3>1. /\ writer.op \in Ops /\ writer.work \in Tables /\ writer.snap \in Deletions
      BY <2>3, BusyIs DEF Stored
    <3>2. writer.behind = 0
      BY <2>3 DEF Orderly, Turns
    <3> QED
      BY <3>1, <3>2, TablesTyped, DeletionTyped DEF MaxOpens
  <2>4. sql.stored \subseteq Events /\ DeletionOK(sql.del)
    <3>1. sql.stored \subseteq Events /\ sql.del \in Deletions
      BY DEF InStep, SqlTables
    <3> QED
      BY <3>1, DeletionTyped
  <2> QED
    BY <2>1, <2>2, <2>3, <2>4 DEF TypeOK
<1> QED
  BY <1>1, <1>2, <1>3, PTL DEF SSpec

-----------------------------------------------------------------------------
(* The refinement.  The memory store's operators are those of the other    *)
(* stores under another name; without caps it has no watermarks and trims  *)
(* nothing.                                                                *)
Mem(stored, del) == [stored |-> stored, del |-> del, marks |-> <<>>, fifo |-> <<>>]
MemTables == [stored : SUBSET Events, del : Deletions, marks : {<<>>}, fifo : {<<>>}]

\* The abstract store's operators that name no constant or variable of its own
\* are this module's.
LEMMA SameOperators ==
  /\ \A ev, dl, st, h : Memory!Decide(ev, dl, st, h) = Decide(ev, dl, st, h)
  /\ \A dl, plan : Memory!Absorb(dl, plan) = Absorb(dl, plan)
  /\ \A dl : Memory!Canon(dl) = Canon(dl)
  /\ \A dl, ids : Memory!Tombstone(dl, ids) = Tombstone(dl, ids)
  /\ \A f, X : Memory!Without(f, X) = Without(f, X)
  /\ \A st, ids : Memory!Sans(st, ids) = Sans(st, ids)
  /\ \A dl, ev : Memory!Covers(dl, ev) <=> Covers(dl, ev)
<1>1. \A ev, dl, st, h : Memory!Decide(ev, dl, st, h) = Decide(ev, dl, st, h)
  BY DEF Memory!Decide, Decide, Memory!ById, ById, Memory!Plan, Plan, Memory!Covers, Covers,
         Memory!At, At, Memory!Skip, Skip, Memory!CoordinateRemovals, CoordinateRemovals,
         Memory!IsWinner, IsWinner
<1>2. \A dl, plan : Memory!Absorb(dl, plan) = Absorb(dl, plan)
  BY DEF Memory!Absorb, Absorb, Memory!Over, Over, Memory!Without, Without, Memory!Restrict, Restrict,
         Memory!Max, Max
<1>3. \A dl : Memory!Canon(dl) = Canon(dl)
  BY DEF Memory!Canon, Canon, Memory!Without, Without, Memory!Restrict, Restrict
<1>4. \A dl, ids : Memory!Tombstone(dl, ids) = Tombstone(dl, ids)
  BY DEF Memory!Tombstone, Tombstone, Memory!Without, Without, Memory!Restrict, Restrict
<1>5. \A f, X : Memory!Without(f, X) = Without(f, X)
  BY DEF Memory!Without, Without, Memory!Restrict, Restrict
<1>6. \A st, ids : Memory!Sans(st, ids) = Sans(st, ids)
  BY DEF Memory!Sans, Sans
<1>7. \A dl, ev : Memory!Covers(dl, ev) <=> Covers(dl, ev)
  BY DEF Memory!Covers, Covers, Memory!At, At
<1> QED
  BY <1>1, <1>2, <1>3, <1>4, <1>5, <1>6, <1>7

\* The fields of a memory store without marks.
LEMMA MemParts ==
  ASSUME NEW stored, NEW del
  PROVE  /\ Mem(stored, del).stored = stored /\ Mem(stored, del).del = del
         /\ stored \in SUBSET Events /\ del \in Deletions => Mem(stored, del) \in MemTables
BY DEF Mem, MemTables

\* A memory store without marks is its events and its tombstones.
LEMMA MemOf ==
  ASSUME NEW t \in MemTables
  PROVE  t = Mem(t.stored, t.del) /\ t.stored \in SUBSET Events /\ t.del \in Deletions
BY DEF Mem, MemTables

\* Without watermarks there are none to drop.
LEMMA DropIs ==
  ASSUME NEW stored, NEW del, NEW ids, NEW addrs
  PROVE  Memory!DropMarks(Mem(stored, del), ids, addrs) = Mem(stored, del)
<1>1. ASSUME NEW S PROVE Memory!Only(<<>>, S) = <<>>
  <2> DEFINE op(x, kept) == IF x \in S THEN Append(kept, x) ELSE kept
             iter == CHOOSE f : f = [s \in SUBSET DOMAIN <<>> |->
                                       IF s = {} THEN <<>> ELSE op(<<>>[Memory!Max(s)], f[s \ {Memory!Max(s)}])]
             g == [s \in {{}} |-> <<>>]
  <2>1. DOMAIN <<>> = {} /\ SUBSET {} = {{}}
    OBVIOUS
  <2>2. g = [s \in {{}} |-> IF s = {} THEN <<>> ELSE op(<<>>[Memory!Max(s)], g[s \ {Memory!Max(s)}])]
    OBVIOUS
  <2>3. g = [s \in SUBSET DOMAIN <<>> |->
               IF s = {} THEN <<>> ELSE op(<<>>[Memory!Max(s)], g[s \ {Memory!Max(s)}])]
    BY <2>1, <2>2, SMTT(30)
  <2>4. iter = [s \in SUBSET DOMAIN <<>> |->
                  IF s = {} THEN <<>> ELSE op(<<>>[Memory!Max(s)], iter[s \ {Memory!Max(s)}])]
    BY <2>3
  <2>5. iter[DOMAIN <<>>] = <<>>
    <3> HIDE DEF iter
    <3> QED
      BY <2>1, <2>4
  <2>6. Memory!Only(<<>>, S) = iter[DOMAIN <<>>]
    BY DEF Memory!Only, Memory!FoldLeft, Memory!MapThenFoldSet
  <2> QED
    BY <2>5, <2>6
<1>2. PICK st : st = Mem(stored, del) /\ st.marks = <<>>
                /\ st = [stored |-> stored, del |-> del, marks |-> <<>>, fifo |-> <<>>]
  <2>1. Mem(stored, del).marks = <<>>
    BY DEF Mem
  <2>2. Mem(stored, del) = [stored |-> stored, del |-> del, marks |-> <<>>, fifo |-> <<>>]
    BY DEF Mem
  <2> QED
    BY <2>1, <2>2
<1>3. Memory!DropMarks(st, ids, addrs) = [st EXCEPT !.marks = <<>>]
  BY <1>1, <1>2 DEF Memory!DropMarks
<1>4. [st EXCEPT !.marks = <<>>] = st
  BY <1>2
<1> QED
  BY <1>2, <1>3, <1>4

\* Removing, inserting and setting the tombstones of a memory store without marks.
LEMMA MemIndexIs ==
  ASSUME NEW stored, NEW del
  PROVE  /\ \A ids : Memory!IndexRemove(Mem(stored, del), ids) = Mem(Sans(stored, ids), del)
         /\ \A ev : Memory!IndexInsert(Mem(stored, del), ev) = Mem(stored \cup {ev}, del)
         /\ \A d : [Mem(stored, del) EXCEPT !.del = d] = Mem(stored, d)
<1>1. ASSUME NEW ids PROVE Memory!IndexRemove(Mem(stored, del), ids) = Mem(Sans(stored, ids), del)
  <2>1. Memory!IndexRemove(Mem(stored, del), ids) = [Mem(stored, del) EXCEPT !.stored = Sans(@, ids)]
    BY DropIs, SameOperators DEF Memory!IndexRemove
  <2> QED
    BY <2>1 DEF Mem
<1>2. ASSUME NEW ev PROVE Memory!IndexInsert(Mem(stored, del), ev) = Mem(stored \cup {ev}, del)
  <2>1. Memory!IndexInsert(Mem(stored, del), ev) = [Mem(stored, del) EXCEPT !.stored = @ \cup {ev}]
    BY DropIs DEF Memory!IndexInsert
  <2> QED
    BY <2>1 DEF Mem
<1>3. \A d : [Mem(stored, del) EXCEPT !.del = d] = Mem(stored, d)
  BY DEF Mem
<1> QED
  BY <1>1, <1>2, <1>3

\* Without caps nothing is trimmed.
LEMMA TrimIs ==
  ASSUME MaxTombstones = Nothing, NEW st, NEW again
  PROVE  Memory!Trimmed(st, again) = st
BY DEF Memory!Trimmed

\* The holders that the memory store finds.
LEMMA MemHolderIs ==
  ASSUME NEW stored \in SUBSET Events, NEW del, NEW h, h = Memory!Holder(Mem(stored, del))
  PROVE  /\ OnePerAddress(stored) => HolderOf(h, stored)
         /\ \A c \in Addrs : h[c] # Nothing => h[c].id \in Ids
<1>1. PICK st : st = Mem(stored, del) /\ st.marks = <<>> /\ st.stored = stored
  BY DEF Mem
<1>2. DOMAIN <<>> = {}
  OBVIOUS
<1>3. h = [c \in Addrs |-> IF Memory!Current(st, c) # Nothing
                           THEN HeldAs(Memory!Current(st, c)) ELSE Nothing]
  BY <1>1, <1>2 DEF Memory!Holder, Memory!Addrs, Addrs, HeldAs
<1>4. \A c \in Addrs : Memory!Current(st, c) = IF ByAddr(stored, c) = {} THEN Nothing
                                               ELSE CHOOSE ev \in ByAddr(stored, c) : TRUE
  BY <1>1 DEF Memory!Current, Memory!ByAddr, ByAddr
<1>5. ASSUME NEW c \in Addrs, h[c] # Nothing PROVE h[c].id \in Ids
  <2>1. PICK ev : ev = Memory!Current(st, c) /\ ev # Nothing /\ h[c] = HeldAs(ev)
    BY <1>3, <1>5
  <2>2. ev \in stored
    BY <1>4, <2>1 DEF ByAddr
  <2>3. HeldAs(ev).id = ev.id /\ ev.id \in Ids
    <3>1. ev \in Events
      BY <2>2
    <3> QED
      BY ONLY <3>1, HeldParts DEF Ids
  <2> QED
    BY <2>1, <2>3
<1>6. ASSUME NEW c \in Addrs, \A ev \in stored : ev.addr # c PROVE h[c] = Nothing
  <2>1. ByAddr(stored, c) = {}
    BY <1>6 DEF ByAddr
  <2> QED
    BY <1>3, <1>4, <2>1
<1>7. ASSUME OnePerAddress(stored), NEW ev \in stored, ev.addr # Nothing PROVE h[ev.addr] = HeldAs(ev)
  <2>1. ev.addr \in Addrs
    BY <1>7 DEF Addrs
  <2>2. ByAddr(stored, ev.addr) = {ev}
    BY <1>7 DEF ByAddr, OnePerAddress
  <2>3. (CHOOSE y \in ByAddr(stored, ev.addr) : TRUE) = ev
    BY <2>2
  <2>4. Memory!Current(st, ev.addr) = ev /\ ev # Nothing
    BY <1>4, <2>1, <2>2, <2>3, EventsAssumption
  <2> QED
    BY <1>3, <2>1, <2>4
<1>8. h = [c \in Addrs |-> h[c]]
  BY <1>3
<1>9. ASSUME OnePerAddress(stored) PROVE HolderOf(h, stored)
  BY <1>6, <1>7, <1>8, <1>9 DEF HolderOf
<1> QED
  BY <1>5, <1>9

\* put() of the memory store, by its decision.
MemAbsorb(del, ev, d) ==
  [Absorb([del EXCEPT !.pending = Without(@, {ev.id})], d.plan) EXCEPT !.ids = @ \cup d.coords]
MemPuts(u, d, ev, stored, del) ==
  /\ d.action = "skip" => u = Mem(stored, del)
  /\ d.action = "tombstone" => u = Mem(stored, Tombstone(del, {ev.id}))
  /\ d.action = "delete" => u = Mem(Sans(stored, d.plan.remove \cup d.coords) \cup {ev}, MemAbsorb(del, ev, d))
  /\ d.action = "insert" => u = Mem(Sans(stored, d.drop) \cup {ev}, del)
\* The memory store's put, by the action decided.
LEMMA MemPutIs ==
  ASSUME MaxTombstones = Nothing, NEW stored, NEW del, NEW ev, NEW d,
         d = Decide(ev, del, stored, Memory!Holder(Mem(stored, del)))
  PROVE  MemPuts(Memory!Put(Mem(stored, del), ev), d, ev, stored, del)
<1>1. PICK t : t = Mem(stored, del) /\ t.stored = stored /\ t.del = del
  BY MemParts
<1>2. d = Memory!Decide(ev, t.del, t.stored, Memory!Holder(t))
  BY <1>1, SameOperators
<1>3. PICK u : u = Memory!Put(t, ev)
  OBVIOUS
<1>4. ASSUME d.action = "skip" PROVE u = t
  <2>1. u = Memory!Trimmed(t, {})
    BY <1>2, <1>3, <1>4 DEF Memory!Put
  <2> QED
    BY <2>1, TrimIs
<1>5. ASSUME d.action = "tombstone" PROVE u = Mem(stored, Tombstone(del, {ev.id}))
  <2>1. u = Memory!Trimmed([t EXCEPT !.del = Memory!Tombstone(@, {ev.id})], {})
    BY <1>2, <1>3, <1>5 DEF Memory!Put
  <2>2. u = [t EXCEPT !.del = Memory!Tombstone(@, {ev.id})]
    BY <2>1, TrimIs
  <2>3. u = [t EXCEPT !.del = Tombstone(del, {ev.id})]
    BY <1>1, <2>2, SameOperators
  <2> QED
    BY <1>1, <2>3, MemIndexIs
<1>6. ASSUME d.action = "delete"
      PROVE  u = Mem(Sans(stored, d.plan.remove \cup d.coords) \cup {ev}, MemAbsorb(del, ev, d))
  <2>1. PICK waiting : waiting = [t.del EXCEPT !.pending = Memory!Without(@, {ev.id})]
    OBVIOUS
  <2>2. PICK dl : dl = [Memory!Absorb(waiting, d.plan) EXCEPT !.ids = @ \cup d.coords]
    OBVIOUS
  <2>3. PICK again : u = Memory!Trimmed(
          Memory!IndexInsert(
            Memory!IndexRemove(
              [Memory!DropMarks(t, DOMAIN d.plan.pending, DOMAIN d.plan.until) EXCEPT !.del = dl],
              d.plan.remove \cup d.coords), ev), again)
    BY <1>2, <1>3, <1>6, <2>1, <2>2 DEF Memory!Put
  <2>4. Memory!DropMarks(t, DOMAIN d.plan.pending, DOMAIN d.plan.until) = t
    BY <1>1, DropIs
  <2>5. dl = MemAbsorb(del, ev, d)
    <3>1. waiting = [del EXCEPT !.pending = Without(@, {ev.id})]
      BY <1>1, <2>1, SameOperators
    <3>2. dl = [Absorb(waiting, d.plan) EXCEPT !.ids = @ \cup d.coords]
      BY <2>2, SameOperators
    <3> QED
      BY <3>1, <3>2 DEF MemAbsorb
  <2>6. [t EXCEPT !.del = dl] = Mem(stored, dl)
    BY <1>1, MemIndexIs
  <2>7. u = Memory!IndexInsert(Memory!IndexRemove(Mem(stored, dl), d.plan.remove \cup d.coords), ev)
    BY <2>3, <2>4, <2>6, TrimIs
  <2>8. PICK gone : gone = d.plan.remove \cup d.coords
    OBVIOUS
  <2>9. Memory!IndexRemove(Mem(stored, dl), gone) = Mem(Sans(stored, gone), dl)
    BY MemIndexIs
  <2>10. Memory!IndexInsert(Mem(Sans(stored, gone), dl), ev) = Mem(Sans(stored, gone) \cup {ev}, dl)
    BY MemIndexIs
  <2> QED
    BY <2>5, <2>7, <2>8, <2>9, <2>10
<1>7. ASSUME d.action = "insert" PROVE u = Mem(Sans(stored, d.drop) \cup {ev}, del)
  <2>1. u = Memory!IndexInsert(Memory!IndexRemove(t, d.drop), ev)
    BY <1>2, <1>3, <1>7 DEF Memory!Put
  <2> QED
    BY <1>1, <2>1, MemIndexIs
<1> QED
  BY <1>1, <1>3, <1>4, <1>5, <1>6, <1>7 DEF MemPuts

\* The memory store's put keeps the type.
LEMMA MemPutType ==
  ASSUME MaxTombstones = Nothing, NEW t \in MemTables, NEW ev \in Events
  PROVE  Memory!Put(t, ev) \in MemTables
<1>1. PICK stored \in SUBSET Events, del \in Deletions : t = Mem(stored, del)
  BY MemOf
<1>2. PICK h : h = Memory!Holder(t)
  OBVIOUS
<1>3. PICK d : d = Decide(ev, del, stored, h)
  OBVIOUS
<1>4. PICK u : u = Memory!Put(t, ev)
  OBVIOUS
<1>5. MemPuts(u, d, ev, stored, del)
  BY <1>1, <1>2, <1>3, <1>4, MemPutIs
<1>6. /\ d.action \in {"skip", "tombstone", "delete", "insert"}
      /\ d.action = "delete" => /\ ev.kind = "delete" /\ d.plan = Plan(ev, stored)
                                /\ d.coords = CoordinateRemovals(d.plan, h)
  BY <1>3 DEF Decide, Skip
<1>7. {ev.id} \in SUBSET Ids /\ {ev} \in SUBSET Events
  BY DEF Ids
<1>8. CASE d.action = "skip"
  BY <1>1, <1>4, <1>5, <1>8 DEF MemPuts
<1>9. CASE d.action = "tombstone"
  <2>1. PICK dl : dl = Tombstone(del, {ev.id})
    OBVIOUS
  <2>2. dl \in Deletions
    BY <1>7, <2>1, TombstoneIs
  <2>3. u = Mem(stored, dl)
    BY <1>5, <1>9, <2>1 DEF MemPuts
  <2> QED
    BY <1>4, <2>2, <2>3, MemParts
<1>10. CASE d.action = "delete"
  <2>1. PICK plan \in Plans : plan = d.plan
    BY <1>6, <1>10, PlanIs
  <2>2. DOMAIN plan.until \subseteq Addrs
    <3>1. plan.until \in Partial(Addrs, Nat)
      BY DEF Plans
    <3> QED
      BY <3>1, Partials
  <2>3. PICK coords \in SUBSET Ids : coords = d.coords
    <3>1. \A c \in Addrs : h[c] # Nothing => h[c].id \in Ids
      BY <1>1, <1>2, MemHolderIs
    <3> QED
      BY <1>6, <1>10, <2>1, <2>2, <3>1 DEF CoordinateRemovals
  <2>4. PICK dl : dl = MemAbsorb(del, ev, d)
    OBVIOUS
  <2>5. dl = [Absorb([del EXCEPT !.pending = Without(@, {ev.id})], plan) EXCEPT !.ids = @ \cup coords]
    BY <2>1, <2>3, <2>4 DEF MemAbsorb
  <2>6. {ev.id} \in SUBSET RequestIds
    BY <1>6, <1>10 DEF RequestIds
  <2>7. dl \in Deletions
    BY <2>5, <2>6, AbsorbIs DEF After
  <2>8. PICK s : s = Sans(stored, d.plan.remove \cup d.coords) \cup {ev} /\ s \in SUBSET Events
    BY DEF Sans
  <2>9. u = Mem(s, dl)
    BY <1>5, <1>10, <2>4, <2>8 DEF MemPuts
  <2>10. Mem(s, dl) \in MemTables
    BY <2>7, <2>8, MemParts
  <2> QED
    BY <1>4, <2>9, <2>10
<1>11. CASE d.action = "insert"
  <2>1. PICK s : s = Sans(stored, d.drop) \cup {ev} /\ s \in SUBSET Events
    BY DEF Sans
  <2>2. u = Mem(s, del)
    BY <1>5, <1>11, <2>1 DEF MemPuts
  <2> QED
    BY <1>4, <2>1, <2>2, MemParts
<1> QED
  BY <1>6, <1>8, <1>9, <1>10, <1>11

\* One event does the same to the memory store.
LEMMA MemPutSame ==
  ASSUME MaxTombstones = Nothing, NEW s \in MemTables, NEW t \in Tables, RowsExact(t), SameAs(s, t),
         NEW mem \in Deletions, Alike(mem, t.del), NEW ev \in Events,
         NEW r, PutDoes(ev, r, t, mem), NEW u, u = Memory!Put(s, ev)
  PROVE  SameAs(u, r.work)
<1>1. /\ t.stored \in SUBSET Events /\ t.del \in Deletions
  BY DEF Tables
<1>2. PICK del \in Deletions : s = Mem(t.stored, del) /\ Alike(del, t.del)
  BY MemOf DEF SameAs
<1>3. PICK h : h = Memory!Holder(s) /\ h = RowHolder(t) /\ HolderOf(h, t.stored)
  <2>1. OnePerAddress(t.stored)
    BY <1>1, RowsOne
  <2>2. HolderOf(Memory!Holder(s), t.stored)
    BY <1>1, <1>2, <2>1, MemHolderIs
  <2>3. HolderOf(RowHolder(t), t.stored)
    BY <1>1, RowHolderIs
  <2>4. Memory!Holder(s) = RowHolder(t)
    BY <1>1, <2>2, <2>3, OneHolder
  <2> QED
    BY <2>3, <2>4
<1>4. PICK d : /\ d = Decide(ev, mem, t.stored, h) /\ d.action = Action(ev, t, mem)
               /\ Decided(d, ev, mem, t.stored)
  BY <1>1, <1>3, DecisionIs DEF Action
<1>5. d = Decide(ev, del, t.stored, h)
  <2>1. ev.id \in del.ids <=> ev.id \in mem.ids
    BY <1>2 DEF Alike
  <2>2. Covers(del, ev) <=> Covers(t.del, ev)
    BY <1>2, AlikeCovers
  <2>3. Covers(mem, ev) <=> Covers(t.del, ev)
    BY AlikeCovers
  <2>4. Decide(ev, del, t.stored, h) = Decide(ev, mem, t.stored, h)
    BY <2>1, <2>2, <2>3, SameDecision
  <2> QED
    BY <1>4, <2>4
<1>6. MemPuts(u, d, ev, t.stored, del)
  BY <1>2, <1>3, <1>5, MemPutIs
<1>7. \A stored, dl : Mem(stored, dl).stored = stored /\ Mem(stored, dl).del = dl
  BY MemParts
<1>8. CASE d.action = "skip" /\ r.work = t
  BY <1>2, <1>6, <1>7, <1>8 DEF MemPuts, SameAs
<1>9. CASE d.action = "tombstone" /\ Marks(ev, r, t, mem)
  <2>1. u.stored = t.stored /\ u.del = Tombstone(del, {ev.id})
    BY <1>6, <1>7, <1>9 DEF MemPuts
  <2>2. r.work.stored = t.stored /\ r.work.del = Tombstone(t.del, {ev.id})
    BY <1>9 DEF Marks, Tables
  <2>3. {ev.id} \in SUBSET Ids
    BY DEF Ids
  <2>4. Alike(u.del, r.work.del)
    BY <1>1, <1>2, <2>1, <2>2, <2>3, TombstoneAlike
  <2> QED
    BY <2>1, <2>2, <2>4 DEF SameAs
<1>10. CASE d.action = "delete" /\ Deletes(ev, r, t, mem)
  <2>1. PICK plan : plan = Plan(ev, t.stored)
    OBVIOUS
  <2>2. PICK coords : coords = Overdue(t.stored, plan.until)
    OBVIOUS
  <2>3. d.plan = plan /\ d.coords = coords /\ Erased(ev, t.stored) = plan.remove \cup coords
    BY <1>4, <1>10, <2>1, <2>2 DEF Decided, Erased
  <2>4. PICK dl : dl = MemAbsorb(del, ev, d)
    OBVIOUS
  <2>5. u.stored = Sans(t.stored, plan.remove \cup coords) \cup {ev} /\ u.del = dl
    <3>1. PICK x : x = Sans(t.stored, plan.remove \cup coords) \cup {ev}
      OBVIOUS
    <3>2. u = Mem(x, dl)
      BY <1>6, <1>10, <2>3, <2>4, <3>1 DEF MemPuts
    <3> QED
      BY <1>7, <3>1, <3>2
  <2>6. plan \in Plans /\ coords \in SUBSET Ids /\ {ev.id} \in SUBSET RequestIds
    <3>1. plan \in Plans
      BY <1>1, <2>1, PlanIs
    <3>2. coords \in SUBSET Ids
      BY <1>1, <2>2 DEF Overdue, Ids
    <3>3. {ev.id} \in SUBSET RequestIds
      BY <1>10 DEF Deletes, RequestIds
    <3> QED
      BY <3>1, <3>2, <3>3
  <2>7. dl = [Absorb([del EXCEPT !.pending = Without(@, {ev.id})], plan) EXCEPT !.ids = @ \cup coords]
    BY <2>3, <2>4 DEF MemAbsorb
  <2>8. After(dl, del, plan, plan.remove \cup coords)
    BY <2>6, <2>7, AbsorbIs
  <2>9. After(r.work.del, t.del, plan, plan.remove \cup coords)
        /\ r.work.stored = Sans(t.stored, plan.remove \cup coords) \cup {ev}
    BY <1>10, <2>1, <2>3 DEF Deletes
  <2>10. Alike(dl, r.work.del)
    BY <1>2, <2>8, <2>9, AfterAlike
  <2> QED
    BY <2>5, <2>9, <2>10 DEF SameAs
<1>11. CASE d.action = "insert" /\ Inserts(ev, r, t, mem)
  <2>1. d.drop = AtAddress(t.stored, ev.addr)
    BY <1>4, <1>11 DEF Decided
  <2>2. u.stored = Sans(t.stored, d.drop) \cup {ev} /\ u.del = del
    BY <1>6, <1>7, <1>11 DEF MemPuts
  <2> QED
    BY <1>2, <1>11, <2>1, <2>2 DEF Inserts, SameAs
<1> QED
  BY <1>4, <1>8, <1>9, <1>10, <1>11 DEF PutDoes

\* A batch: its fold goes through the states acc.
MemRun(acc, base, batch) ==
  /\ acc[0] = base
  /\ \A k \in 1..Len(batch) : acc[k] = Memory!Put(acc[k - 1], batch[k])
  /\ \A k \in 0..Len(batch) : acc[k] \in MemTables
  /\ Memory!PutMany(base, batch) = acc[Len(batch)]

\* A run of the memory store's puts over a batch exists for every batch.
LEMMA MemRunExists ==
  ASSUME MaxTombstones = Nothing, NEW base \in MemTables, NEW batch \in Seq(Events)
  PROVE  \E acc : MemRun(acc, base, batch)
<1> DEFINE n == Len(batch)
           S == 1..n
           step == [p \in MemTables \X S |-> Memory!Put(p[1], batch[p[2]])]
           pick == [s \in SUBSET S |-> Max(s)]
           iter == CHOOSE f : f = [s \in SUBSET S |-> IF s = {} THEN base
                                     ELSE Memory!Put(f[s \ {Memory!Max(s)}], batch[Memory!Max(s)])]
           acc == [k \in 0..n |-> iter[1..k]]
<1>0. \A s : Memory!Max(s) = Max(s)
  BY DEF Memory!Max, Max
<1>1. n \in Nat /\ IsFiniteSet(S) /\ DOMAIN batch = S
  BY FS_Interval
<1>2. \A s \in SUBSET S : s # {} => pick[s] \in s /\ Max(s) \in s
  BY <1>1, MaxOfPrefix
<1>3. step \in [MemTables \X S -> MemTables]
  <2>1. ASSUME NEW p \in MemTables \X S PROVE Memory!Put(p[1], batch[p[2]]) \in MemTables
    <3>1. p[1] \in MemTables /\ batch[p[2]] \in Events
      OBVIOUS
    <3> QED
      BY <3>1, MemPutType
  <2> HIDE DEF S
  <2> QED
    BY <2>1
<1>4. PICK f \in [SUBSET S -> MemTables] : Folds(f, S, base, step, pick)
  <2> HIDE DEF S, step, pick
  <2> QED
    BY <1>1, <1>2, <1>3, FoldExists
<1>5. f = [s \in SUBSET S |-> IF s = {} THEN base
                              ELSE Memory!Put(f[s \ {Memory!Max(s)}], batch[Memory!Max(s)])]
  <2>1. ASSUME NEW s \in SUBSET S, s # {}
        PROVE  f[s] = Memory!Put(f[s \ {Memory!Max(s)}], batch[Memory!Max(s)])
    <3>1. s \ {Max(s)} \in SUBSET S /\ Max(s) \in S /\ pick[s] = Max(s)
      BY <1>2, <2>1
    <3>2. f[s \ {Max(s)}] \in MemTables
      BY <1>4, <3>1
    <3>3. f[s] = step[<<f[s \ {Max(s)}], Max(s)>>]
      BY <1>4, <2>1, <3>1 DEF Folds
    <3> HIDE DEF S
    <3> QED
      BY <1>0, <3>1, <3>2, <3>3
  <2>2. f[{}] = base
    BY <1>4 DEF Folds
  <2>3. f = [s \in SUBSET S |-> f[s]]
    BY <1>4
  <2> HIDE DEF S
  <2> QED
    BY <2>1, <2>2, <2>3
<1>6. iter = [s \in SUBSET S |-> IF s = {} THEN base
                                 ELSE Memory!Put(iter[s \ {Memory!Max(s)}], batch[Memory!Max(s)])]
  BY <1>5
<1>7. Memory!PutMany(base, batch) = iter[S]
  BY <1>1 DEF Memory!PutMany, Memory!FoldLeft, Memory!MapThenFoldSet
<1> HIDE DEF iter
<1>8. acc[0] = base
  <2>1. 1..0 = {} /\ iter[{}] = base
    BY <1>6
  <2> QED
    BY <2>1
<1>9. ASSUME NEW k \in 1..n PROVE acc[k] = Memory!Put(acc[k - 1], batch[k])
  <2>1. 1..k \in SUBSET S /\ 1..k # {} /\ k - 1 \in 0..n /\ k \in 0..n
    <3>1. n \in Nat /\ k \in 1..n
      BY <1>1
    <3> QED
      BY ONLY <3>1
  <2>2. Memory!Max(1..k) = k /\ (1..k) \ {k} = 1..(k - 1)
    BY <1>0, MaxOfPrefix
  <2>3. iter[1..k] = Memory!Put(iter[(1..k) \ {Memory!Max(1..k)}], batch[Memory!Max(1..k)])
    BY <1>6, <2>1
  <2>4. iter[1..k] = Memory!Put(iter[1..(k - 1)], batch[k])
    BY <2>2, <2>3
  <2> QED
    BY <2>1, <2>4
<1>10. \A k \in 0..n : acc[k] \in MemTables
  <2> DEFINE Good == {k \in 0..n : acc[k] \in MemTables}
  <2> HIDE DEF acc
  <2>1. 0 \in Good
    BY <1>8
  <2>2. ASSUME NEW k \in 1..n, k - 1 \in Good PROVE k \in Good
    <3>1. batch[k] \in Events /\ acc[k - 1] \in MemTables
      BY <2>2
    <3>2. Memory!Put(acc[k - 1], batch[k]) \in MemTables
      BY <3>1, MemPutType
    <3> QED
      BY <1>9, <3>2
  <2> HIDE DEF Good
  <2>3. 0..n \subseteq Good
    BY <1>1, <2>1, <2>2, UpToInduction
  <2> QED
    BY <2>3 DEF Good
<1>11. acc[n] = iter[S]
  OBVIOUS
<1> HIDE DEF acc
<1>12. MemRun(acc, base, batch)
  BY <1>7, <1>8, <1>9, <1>10, <1>11 DEF MemRun
<1> QED
  BY <1>12

\* The canonical form is a deletion state that judges as the original does.
LEMMA CanonIs ==
  ASSUME NEW d \in Deletions, NEW c, c = Canon(d)
  PROVE  /\ c \in Deletions /\ Alike(c, d)
         /\ c.ids = d.ids /\ c.until = d.until /\ c.pending = Without(d.pending, d.ids \cup RequestIds)
<1>1. d.pending \in Partial(Ids, Authors) /\ d.ids \in SUBSET Ids /\ d.until \in Partial(Addrs, Nat)
  BY DEF Deletions
<1>2. PICK gone : gone = d.ids \cup RequestIds
  OBVIOUS
<1>3. PICK p : p = Without(d.pending, gone)
  OBVIOUS
<1>4. p \in Partial(Ids, Authors)
  BY <1>1, <1>3, WithoutType
<1>5. c = [d EXCEPT !.pending = p]
  BY <1>2, <1>3 DEF Canon, RequestIds
<1>6. c = [ids |-> d.ids, pending |-> p, until |-> d.until]
  BY <1>5 DEF Deletions
<1>7. c \in Deletions /\ c.ids = d.ids /\ c.until = d.until /\ c.pending = p
  BY <1>1, <1>4, <1>6 DEF Deletions
<1>8. \A i : At(p, i) = IF i \in gone THEN Nothing ELSE At(d.pending, i)
  BY <1>3, WithoutPoint
<1> QED
  BY <1>2, <1>3, <1>7, <1>8 DEF Alike

\* Alike tombstones have one canonical form.
LEMMA CanonAlike ==
  ASSUME NEW m \in Deletions, NEW d \in Deletions, Alike(m, d)
  PROVE  Canon(m) = Canon(d)
<1>1. PICK a, b : a = Canon(m) /\ b = Canon(d)
  OBVIOUS
<1>2. PICK p, q : p = a.pending /\ q = b.pending
  OBVIOUS
<1>3. PICK gone : gone = d.ids \cup RequestIds
  OBVIOUS
<1>4. /\ a \in Deletions /\ a.ids = d.ids /\ a.until = d.until /\ p = Without(m.pending, gone)
  BY <1>1, <1>2, <1>3, CanonIs DEF Alike
<1>5. /\ b \in Deletions /\ b.ids = d.ids /\ b.until = d.until /\ q = Without(d.pending, gone)
  BY <1>1, <1>2, <1>3, CanonIs
<1>6. p \in Partial(Ids, Authors) /\ q \in Partial(Ids, Authors)
  BY <1>2, <1>4, <1>5 DEF Deletions
<1>7. /\ p = [x \in DOMAIN p |-> p[x]] /\ DOMAIN p \subseteq Ids /\ \A x \in DOMAIN p : p[x] # Nothing
  BY <1>6, Partials, EventsAssumption
<1>8. /\ q = [x \in DOMAIN q |-> q[x]] /\ DOMAIN q \subseteq Ids /\ \A x \in DOMAIN q : q[x] # Nothing
  BY <1>6, Partials, EventsAssumption
<1>9. \A x \in Ids : At(p, x) = At(q, x)
  <2>1. \A x : At(p, x) = IF x \in gone THEN Nothing ELSE At(m.pending, x)
    BY <1>4, WithoutPoint
  <2>2. \A x : At(q, x) = IF x \in gone THEN Nothing ELSE At(d.pending, x)
    BY <1>5, WithoutPoint
  <2> QED
    BY <1>3, <2>1, <2>2 DEF Alike
<1>10. DOMAIN p = DOMAIN q /\ \A x \in DOMAIN p : p[x] = q[x]
  BY <1>7, <1>8, <1>9 DEF At
<1>11. p = q
  BY <1>7, <1>8, <1>10
<1>12. a = [ids |-> a.ids, pending |-> a.pending, until |-> a.until]
  BY <1>4 DEF Deletions
<1>13. b = [ids |-> b.ids, pending |-> b.pending, until |-> b.until]
  BY <1>5 DEF Deletions
<1> QED
  BY <1>1, <1>2, <1>4, <1>5, <1>11, <1>12, <1>13

\* The state the memory store is in: the committed tables, in canonical form.
Base == Mem(db.stored, Canon(db.del))

\* It is a state of the memory store that agrees with the tables.
LEMMA BaseIs ==
  ASSUME Stored
  PROVE  /\ Base \in MemTables /\ SameAs(Base, db)
         /\ Base.stored = db.stored /\ Base.del = Canon(db.del) /\ Memory!Index = Base
<1>1. db.stored \in SUBSET Events /\ db.del \in Deletions
  BY DEF Stored, Tables
<1>2. PICK c : c = Canon(db.del) /\ c \in Deletions /\ Alike(c, db.del)
  BY <1>1, CanonIs
<1>3. PICK kept \in SUBSET Events : kept = db.stored
  BY <1>1
<1>4. PICK s : s = Mem(kept, c)
  OBVIOUS
<1>5. s \in MemTables /\ s.stored = kept /\ s.del = c
  BY ONLY <1>2, <1>4, MemParts
<1>6. Base = s
  BY <1>2, <1>3, <1>4 DEF Base
<1>7. PICK none, e : e = Memory!EmptyIndex /\ e = [stored |-> {}, del |-> none, marks |-> <<>>, fifo |-> <<>>]
  BY DEF Memory!EmptyIndex
<1>8. Memory!Index = [e EXCEPT !.stored = kept, !.del = c]
  BY <1>2, <1>3, <1>7 DEF Memory!Index
<1>9. Memory!Index = s
  <2>1. [e EXCEPT !.stored = kept] = [stored |-> kept, del |-> none, marks |-> <<>>, fifo |-> <<>>]
    BY ONLY <1>7
  <2>2. PICK x : x = [e EXCEPT !.stored = kept] /\ Memory!Index = [x EXCEPT !.del = c]
    BY ONLY <1>8
  <2>3. x = Mem(kept, none)
    BY <2>1, <2>2 DEF Mem
  <2>4. [Mem(kept, none) EXCEPT !.del = c] = Mem(kept, c)
    BY ONLY MemIndexIs
  <2> QED
    BY ONLY <1>4, <2>2, <2>3, <2>4
<1> QED
  BY <1>2, <1>3, <1>5, <1>6, <1>9 DEF SameAs

\* What a state of the memory store becomes is what the tables say.
LEMMA BecomesIs ==
  ASSUME NEW s \in MemTables, NEW t \in Tables, SameAs(s, t), db' = t
  PROVE  Memory!Becomes(s)
<1>1. t.del \in Deletions /\ s.del \in Deletions
  BY DEF Tables, MemTables
<1>2. Canon(s.del) = Canon(t.del) /\ s.stored = t.stored
  BY <1>1, CanonAlike DEF SameAs
<1>3. Memory!Canon(s.del) = Canon(s.del)
  BY SameOperators
<1>4. (Canon(db.del))' = Canon(t.del)
  BY DEF Canon
<1> QED
  BY <1>2, <1>3, <1>4 DEF Memory!Becomes

\* While a batch runs, the memory store would be where the write is after as
\* many events.
MemRuns(base, arg, left, work) == \E acc : \E n \in 0..Len(arg) :
  /\ MemRun(acc, base, arg) /\ left = SubSeq(arg, n + 1, Len(arg))
  /\ SameAs(acc[n], work)
Follows ==
  writer # Idle /\ writer.op.kind = "put" =>
    MemRuns(Base, writer.op.arg, writer.left, writer.work) /\ writer.work.bound = db.bound

\* A put of the transaction extends the run of the memory store's puts by one.
LEMMA PutFollows ==
  ASSUME MaxTombstones = Nothing, Stored, Orderly, Follows, PutNext
  PROVE  Follows'
<1>1. PICK ev \in Events :
        \E r : /\ PutDoes(ev, r, writer.work, cache)
               /\ writer.left \in Seq(Events) /\ writer.left # <<>> /\ ev = Head(writer.left)
               /\ Writing(writer) /\ writer'.op = writer.op
               /\ writer'.work = r.work /\ writer'.left = Tail(writer.left)
  BY PutNextIs
<1>2. PICK r : /\ PutDoes(ev, r, writer.work, cache)
               /\ writer.left \in Seq(Events) /\ writer.left # <<>> /\ ev = Head(writer.left)
               /\ Writing(writer) /\ writer'.op = writer.op
               /\ writer'.work = r.work /\ writer'.left = Tail(writer.left)
  BY <1>1
<1>3. /\ writer # Idle /\ writer.work \in Tables /\ RowsExact(writer.work) /\ cache \in Deletions
      /\ writer.op.kind = "put" /\ writer.op \in Ops
  BY <1>2, BusyIs DEF Stored, Writing, PutNext
<1>4. PICK arg \in Seq(Events) : arg = writer.op.arg
  BY <1>3, OpIs
<1>5. PICK acc : \E n \in 0..Len(arg) : /\ MemRun(acc, Base, arg)
                                        /\ writer.left = SubSeq(arg, n + 1, Len(arg))
                                        /\ SameAs(acc[n], writer.work)
  BY <1>3, <1>4 DEF Follows, MemRuns
<1>6. PICK n \in 0..Len(arg) : /\ MemRun(acc, Base, arg)
                               /\ writer.left = SubSeq(arg, n + 1, Len(arg))
                               /\ SameAs(acc[n], writer.work)
  BY <1>5
<1>7. n < Len(arg) /\ ev = arg[n + 1] /\ Tail(writer.left) = SubSeq(arg, n + 2, Len(arg))
  <2>1. n < Len(arg)
    BY <1>2, <1>6
  <2>2. Head(writer.left) = arg[n + 1]
    BY <1>6, <2>1
  <2>3. Tail(SubSeq(arg, n + 1, Len(arg))) = SubSeq(arg, n + 2, Len(arg))
    BY <2>1
  <2> QED
    BY <1>2, <1>6, <2>1, <2>2, <2>3
<1>8. acc[n] \in MemTables /\ acc[n + 1] = Memory!Put(acc[n], ev) /\ n + 1 \in 0..Len(arg)
  BY <1>6, <1>7 DEF MemRun
<1>9. Alike(cache, writer.work.del)
  BY <1>3 DEF Orderly, Faithful
<1>10. SameAs(acc[n + 1], r.work)
  BY <1>2, <1>3, <1>6, <1>8, <1>9, MemPutSame
<1>11. Base' = Base /\ db' = db
  BY DEF PutNext, Base, Mem, Canon
<1>12. MemRuns(Base, arg, writer'.left, writer'.work)
  <2>1. PICK m \in 0..Len(arg) : m = n + 1 /\ m + 1 = n + 2
    BY <1>8
  <2>2. writer'.left = SubSeq(arg, m + 1, Len(arg))
    BY <1>2, <1>7, <2>1
  <2>3. SameAs(acc[m], writer'.work)
    BY <1>2, <1>10, <2>1
  <2> QED
    BY <1>6, <2>1, <2>2, <2>3 DEF MemRuns
<1>13. writer'.op.arg = arg
  BY <1>2, <1>4
<1>14. writer'.work.bound = db.bound
  <2>1. writer.work.bound = db.bound
    BY <1>3 DEF Follows
  <2>2. r.work.bound = writer.work.bound
    BY <1>2, <1>3 DEF PutDoes, Marks, Deletes, Inserts, Tables
  <2> QED
    BY <1>2, <2>1, <2>2
<1> QED
  BY <1>11, <1>12, <1>13, <1>14 DEF Follows

\* A write begins with an empty run.
LEMMA BeginFollows ==
  ASSUME MaxTombstones = Nothing, Stored, NEW op \in Ops, Begin(op)
  PROVE  Follows'
<1>1. /\ writer'.op = op /\ writer'.work = db /\ db' = db
      /\ writer'.left = IF op.kind = "put" THEN op.arg ELSE <<Nothing>>
  BY BeginIs DEF Begin
<1>2. Base \in MemTables /\ SameAs(Base, db)
  BY BaseIs
<1>3. Base' = Base
  BY <1>1 DEF Base, Mem, Canon
<1>4. CASE op.kind = "put"
  <2>1. PICK arg \in Seq(Events) : arg = op.arg
    BY <1>4, OpIs
  <2>2. PICK acc : MemRun(acc, Base, arg)
    BY <1>2, <2>1, MemRunExists
  <2>3. acc[0] = Base
    BY <2>2 DEF MemRun
  <2>4. arg = SubSeq(arg, 0 + 1, Len(arg)) /\ 0 \in 0..Len(arg)
    BY <2>1
  <2>5. MemRuns(Base, arg, arg, db)
    BY <1>2, <2>2, <2>3, <2>4 DEF MemRuns
  <2> QED
    BY <1>1, <1>3, <1>4, <2>1, <2>5 DEF Follows
<1> QED
  BY <1>1, <1>4 DEF Follows

\* Every step keeps the memory store in step.
LEMMA NextFollows ==
  ASSUME MaxTombstones = Nothing, Stored, Orderly, Follows, [SNext]_vars
  PROVE  Follows'
<1>1. ASSUME writer' = Idle PROVE Follows'
  BY <1>1 DEF Follows
<1>2. ASSUME db' = db, writer' = writer PROVE Follows'
  <2>1. Base' = Base
    BY <1>2 DEF Base, Mem, Canon
  <2> QED
    BY <1>2, <2>1 DEF Follows
<1>3. CASE Committed
  BY <1>1, <1>3 DEF Committed, Commit
<1>4. CASE Loaded
  <2>1. writer = Idle
    BY <1>4 DEF Loaded, Orderly, Turns, Stored
  <2> QED
    BY <1>1, <1>4, <2>1 DEF Loaded
<1>5. CASE Open \/ Opened \/ Close \/ Yield
  BY <1>2, <1>5 DEF Open, Opened, Close, Yield
<1>6. CASE \E op \in Ops : Begin(op)
  BY <1>6, BeginFollows
<1>7. CASE PutNext
  BY <1>7, PutFollows
<1>8. CASE OtherWrite
  <2>1. writer.op.kind # "put" /\ writer'.op = writer.op
    BY <1>8, OtherWriteIs DEF OtherDoes
  <2> QED
    BY <2>1 DEF Follows
<1>9. CASE Abort \/ Crash
  BY <1>1, <1>9 DEF Abort, Crash
<1>10. CASE UNCHANGED vars
  BY <1>2, <1>10 DEF vars, idbVars
<1> QED
  BY <1>3, <1>4, <1>5, <1>6, <1>7, <1>8, <1>9, <1>10 DEF SNext

\* The commit of a write is that write of the memory store.
LEMMA CommitRefines ==
  ASSUME MaxTombstones = Nothing, Stored, InStep, Follows, Commit
  PROVE  Memory!Next
<1>1. /\ writer # Idle /\ Writing(writer) /\ writer.left = <<>> /\ db' = writer.work
      /\ writer.op \in Ops /\ writer.work \in Tables
  BY BusyIs DEF Commit, Running, Stored
<1>2. db \in Tables /\ RowsExact(db) /\ db.del \in Deletions
  BY DEF Stored, Tables
<1>3. PICK s : s = Base /\ s \in MemTables /\ SameAs(s, db) /\ Memory!Index = s
               /\ s = Mem(db.stored, Canon(db.del))
  BY BaseIs DEF Base
<1>4. CASE writer.op.kind = "put"
  <2>1. PICK arg \in Seq(Events) : arg = writer.op.arg /\ arg \in Batches
    BY <1>1, <1>4, OpIs
  <2>2. PICK acc : \E n \in 0..Len(arg) : /\ MemRun(acc, s, arg)
                                          /\ writer.left = SubSeq(arg, n + 1, Len(arg))
                                          /\ SameAs(acc[n], writer.work)
    BY <1>1, <1>3, <1>4, <2>1 DEF Follows, MemRuns
  <2>3. PICK n \in 0..Len(arg) : /\ MemRun(acc, s, arg)
                                 /\ writer.left = SubSeq(arg, n + 1, Len(arg))
                                 /\ SameAs(acc[n], writer.work)
    BY <2>2
  <2>4. n = Len(arg)
    BY <1>1, <2>1, <2>3
  <2>5. Memory!PutMany(s, arg) = acc[n] /\ acc[n] \in MemTables
    BY <2>3, <2>4 DEF MemRun
  <2>6. Memory!Becomes(acc[n])
    BY <1>1, <2>3, <2>5, BecomesIs
  <2>7. db'.bound = db.bound
    BY <1>1, <1>4 DEF Follows
  <2>8. Memory!PutBatch(arg)
    BY <1>3, <2>5, <2>6, <2>7 DEF Memory!PutBatch
  <2> QED
    BY <2>1, <2>8 DEF Memory!Next
<1>5. CASE writer.op.kind # "put"
  <2>1. PICK mem \in Deletions :
          \E mem2 \in Deletions : OtherDoes(writer.op, db, writer.work, mem, mem2)
    <3>1. writer.left # <<Nothing>>
      BY <1>1
    <3> QED
      BY <1>1, <1>5, <3>1 DEF InStep, OtherRuns
  <2>2. PICK mem2 \in Deletions : OtherDoes(writer.op, db, writer.work, mem, mem2)
    BY <2>1
  <2>3. CASE writer.op.kind = "remove" /\ writer.work = Removed(db, writer.op.arg)
    <3>1. PICK ids \in SUBSET Ids : ids = writer.op.arg /\ ids \in Removals
      BY <1>1, <2>3, OpIs
    <3>2. /\ writer.work.stored = Sans(db.stored, ids) /\ writer.work.del = Tombstone(db.del, ids)
          /\ writer.work.bound = db.bound
      BY <1>2, <2>3, <3>1, RemoveIs
    <3>3. PICK c \in Deletions : c = Canon(db.del) /\ Alike(c, db.del)
      BY <1>2, CanonIs
    <3>4. PICK dl : dl = Tombstone(c, ids) /\ dl \in Deletions /\ Alike(dl, writer.work.del)
      BY <1>2, <3>2, <3>3, TombstoneIs, TombstoneAlike
    <3>5. PICK kept : kept = Sans(db.stored, ids) /\ kept \in SUBSET Events
      BY <1>2 DEF Sans, Tables
    <3>6. PICK u : u = Mem(kept, dl) /\ u \in MemTables /\ SameAs(u, writer.work)
      BY <3>2, <3>4, <3>5, MemParts DEF SameAs
    <3>7. Memory!RemoveIds(s, ids) = u
      <4>1. Memory!IndexRemove(s, ids) = Mem(kept, c)
        BY <1>3, <3>3, <3>5, MemIndexIs
      <4>2. Mem(kept, c).del = c
        BY MemParts
      <4>3. Memory!RemoveIds(s, ids) = [Mem(kept, c) EXCEPT !.del = Memory!Tombstone(@, ids)]
        BY <4>1, TrimIs DEF Memory!RemoveIds
      <4>4. Memory!RemoveIds(s, ids) = [Mem(kept, c) EXCEPT !.del = dl]
        BY <3>4, <4>2, <4>3, SameOperators
      <4> QED
        BY <3>6, <4>4, MemIndexIs
    <3>8. Memory!Becomes(u)
      BY <1>1, <3>6, BecomesIs
    <3>9. Memory!RemoveBatch(ids)
      BY <1>1, <1>3, <3>2, <3>7, <3>8 DEF Memory!RemoveBatch
    <3> QED
      BY <3>1, <3>9 DEF Memory!Next
  <2>4. CASE writer.op.kind = "clear" /\ writer.work = EmptyTables
    <3>1. EmptyTables.stored = {} /\ EmptyTables.del = NoDeletion /\ EmptyTables.bound = Nothing
      BY DEF EmptyTables
    <3>2. Canon(NoDeletion) = NoDeletion
      <4>1. PICK c : c = Canon(NoDeletion) /\ c.ids = {} /\ c.until = <<>>
                     /\ c.pending = Without(<<>>, NoDeletion.ids \cup RequestIds) /\ c \in Deletions
        BY EmptyIs, CanonIs DEF NoDeletion
      <4>2. Without(<<>>, NoDeletion.ids \cup RequestIds) = <<>>
        BY DEF Without, Restrict
      <4>3. c = [ids |-> c.ids, pending |-> c.pending, until |-> c.until]
        BY <4>1 DEF Deletions
      <4> QED
        BY <4>1, <4>2, <4>3 DEF NoDeletion
    <3>3. (Canon(db.del))' = Canon(NoDeletion)
      BY <1>1, <2>4, <3>1 DEF Canon
    <3>4. Memory!NoDeletion = NoDeletion
      BY DEF Memory!NoDeletion, NoDeletion
    <3>5. Memory!ClearAll
      BY <1>1, <2>4, <3>1, <3>2, <3>3, <3>4 DEF Memory!ClearAll
    <3> QED
      BY <3>5 DEF Memory!Next
  <2>5. CASE writer.op.kind = "bound" /\ writer.work = [db EXCEPT !.bound = writer.op.arg]
    <3>1. PICK b \in Bounds : b = writer.op.arg
      BY <1>1, <2>5, OpIs
    <3>2. db'.stored = db.stored /\ db'.del = db.del /\ db'.bound = b
      BY <1>1, <1>2, <2>5, <3>1 DEF Tables
    <3>3. (Canon(db.del))' = Canon(db.del)
      BY <3>2 DEF Canon
    <3>4. Memory!SetBound(b)
      BY <3>2, <3>3 DEF Memory!SetBound
    <3> QED
      BY <3>4 DEF Memory!Next
  <2> QED
    BY <2>2, <2>3, <2>4, <2>5 DEF OtherDoes
<1> QED
  BY <1>4, <1>5

\* The database starts as the memory store may.
LEMMA InitRefines == SInit => Memory!Init
<1> SUFFICES ASSUME SInit PROVE Memory!Init
  OBVIOUS
<1>1. PICK legacy \in SUBSET Events : db = Migrate(legacy)
  BY WritesAssumption DEF SInit, Init
<1>2. db \in Tables /\ RowsExact(db) /\ Clean(db) /\ db.bound = Nothing
  BY <1>1, MigrateIs
<1>3. db.stored \in SUBSET Events /\ db.del \in Deletions
  BY <1>2 DEF Tables
<1>4. OnePerAddress(db.stored)
  BY <1>2, <1>3, RowsOne
<1>5. PICK c \in Deletions : c = Canon(db.del) /\ Alike(c, db.del)
  BY <1>3, CanonIs
<1>6. \A ev \in db.stored : ~Covers(c, ev)
  BY <1>2, <1>3, <1>5, AlikeCovers DEF Clean
<1>7. \A ev \in db.stored : ~Memory!Covers(c, ev)
  BY <1>6, SameOperators
<1>8. \A x, y \in db.stored : x # y => x.id # y.id /\ (x.addr = y.addr => x.addr = Nothing)
  BY <1>3, <1>4, EventsAssumption DEF OnePerAddress
<1> QED
  BY <1>2, <1>5, <1>7, <1>8 DEF Memory!Init

\* The IndexedDB store implements the memory store with atomic batches
\* (types.ts: one transaction, abort rolls the batch back): a commit is one
\* write of the memory store, every other step is none.  Without caps on the
\* memory store's tombstones, for an application that opens once and awaits its
\* writes.
THEOREM StoreRefinesMemory ==
  ASSUME Disciplined, MaxTombstones = Nothing
  PROVE  SSpec => ImplementsMemoryStore
<1>1. SInit => Stored /\ Orderly /\ InStep /\ Follows
  <2>1. Init => Follows
    BY DEF Init, Follows
  <2> QED
    BY <2>1, InitStored, InitOrderly, InitInStep DEF SInit
<1>2. Stored /\ Orderly /\ InStep /\ Follows /\ [SNext]_vars => (Stored /\ Orderly /\ InStep /\ Follows)'
  BY NextStored, NextOrderly, NextInStep, NextFollows, StepOfIdb
<1>3. Stored /\ Orderly /\ InStep /\ Follows /\ [SNext]_vars
        => [Memory!Next]_<<db.stored, Canon(db.del), db.bound>>
  <2> SUFFICES ASSUME Stored, InStep, Follows, [SNext]_vars
               PROVE  [Memory!Next]_<<db.stored, Canon(db.del), db.bound>>
    OBVIOUS
  <2>1. CASE Committed
    BY <2>1, CommitRefines DEF Committed
  <2>2. ASSUME db' = db PROVE UNCHANGED <<db.stored, Canon(db.del), db.bound>>
    BY <2>2 DEF Canon
  <2>3. CASE Open \/ Opened \/ Loaded
    BY <2>2, <2>3 DEF Open, Opened, Loaded
  <2>4. CASE \E op \in Ops : Begin(op)
    BY <2>2, <2>4 DEF Begin
  <2>5. CASE PutNext \/ OtherWrite \/ Abort
    BY <2>2, <2>5 DEF PutNext, OtherWrite, Abort
  <2>6. CASE Close \/ Yield \/ Crash
    BY <2>2, <2>6 DEF Close, Yield, Crash
  <2>7. CASE UNCHANGED vars
    BY <2>2, <2>7 DEF vars, idbVars
  <2> QED
    BY <2>1, <2>3, <2>4, <2>5, <2>6, <2>7 DEF SNext
<1>4. SInit => Memory!Init
  BY InitRefines
<1> QED
  BY <1>1, <1>2, <1>3, <1>4, PTL DEF SSpec, ImplementsMemoryStore, Memory!Spec

=============================================================================
