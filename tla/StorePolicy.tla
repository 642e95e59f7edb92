----------------------------- MODULE StorePolicy -----------------------------
(* What every event store does with an event it is given: the decision of   *)
(* storage/put.ts and the NIP-09 deletion state of storage/deletion.ts.     *)
(* An event is a record; tags that name nothing are left out.               *)
EXTENDS Naturals, Functions, FiniteSetsExt

CONSTANTS
  Events,    \* records [id, by, kind, at, addr, e, a]
  Nothing    \* no event, no address, no author

(* id: order of the hex ids; addr: <<author, identifier>> or Nothing;       *)
(* e, a: the ids and addresses a deletion names.                            *)
Kinds == {"note", "replaceable", "delete", "ephemeral", "invalid"}
Ids == {ev.id : ev \in Events} \cup UNION {ev.e : ev \in Events}
Addrs == ({ev.addr : ev \in Events} \cup UNION {ev.a : ev \in Events}) \ {Nothing}
Authors == {ev.by : ev \in Events}

\* An id is the hash of its event; an address starts with its author, and a
\* deletion request has none.
ASSUME EventsAssumption ==
  /\ IsFiniteSet(Events)
  /\ \A ev \in Events : /\ ev.id \in Nat /\ ev.at \in Nat /\ ev.kind \in Kinds
                        /\ ev.kind = "delete" => ev.addr = Nothing
                        /\ ev.addr # Nothing => ev.addr[1] = ev.by
                        /\ IsFiniteSet(ev.e) /\ IsFiniteSet(ev.a) /\ Nothing \notin ev.a
  /\ \A x, y \in Events : x.id = y.id => x = y
  /\ Nothing \notin Events \cup Authors
  /\ Nothing \notin [id : Ids, at : Nat, evicted : BOOLEAN]

IsWinner(x, y) == x.at > y.at \/ (x.at = y.at /\ x.id < y.id)

At(f, x) == IF x \in DOMAIN f THEN f[x] ELSE Nothing
Without(f, S) == Restrict(f, DOMAIN f \ S)
\* The later of two partial maps wins.
Over(f, g) == [x \in DOMAIN f \cup DOMAIN g |-> IF x \in DOMAIN g THEN g[x] ELSE f[x]]

ById(stored, id) == IF \E ev \in stored : ev.id = id
                    THEN CHOOSE ev \in stored : ev.id = id ELSE Nothing
Sans(stored, ids) == {ev \in stored : ev.id \notin ids}
ByAddr(stored, addr) == {ev \in stored : ev.addr = addr}

-----------------------------------------------------------------------------
(* DeletionState: ids deleted for good, the author (one per id) whose       *)
(* request waits for an unknown event, and per address the second up to     *)
(* which versions are deleted.                                              *)
NoDeletion == [ids |-> {}, pending |-> <<>>, until |-> <<>>]

Covers(del, ev) ==
  \/ ev.id \in del.ids
  \/ /\ ev.kind # "delete"
     /\ \/ At(del.pending, ev.id) = ev.by
        \/ ev.addr \in DOMAIN del.until /\ ev.at <= del.until[ev.addr]

\* A request removes its author's stored events, never another request, waits
\* for the ids it does not know and marks its author's addresses.
Plan(req, stored) ==
  [remove  |-> {id \in req.e : LET ev == ById(stored, id)
                               IN /\ ev # Nothing
                                  /\ ev.kind # "delete"
                                  /\ ev.by = req.by},
   pending |-> [id \in {i \in req.e : ById(stored, i) = Nothing} |-> req.by],
   until   |-> [c \in {x \in req.a : x[1] = req.by} |-> req.at]]

Absorb_LastUntil(del, plan) ==
  [ids     |-> del.ids \cup plan.remove,
   pending |-> Over(Without(del.pending, plan.remove),
                    Without(plan.pending, del.ids \cup plan.remove)),
   until   |-> Over(del.until, plan.until)]
Absorb(del, plan) ==
  LET ids == del.ids \cup plan.remove
      later(c) == IF c \in DOMAIN del.until THEN Max({del.until[c], plan.until[c]})
                                            ELSE plan.until[c]
  IN [ids     |-> ids,
      pending |-> Over(Without(del.pending, plan.remove), Without(plan.pending, ids)),
      until   |-> Over(del.until, [c \in DOMAIN plan.until |-> later(c)])]

\* Current holders (evicted ones too) of the plan's addresses that it deletes.
CoordinateRemovals(plan, holder) ==
  {holder[c].id : c \in {x \in DOMAIN plan.until :
                           holder[x] # Nothing /\ holder[x].at <= plan.until[x]}}

\* What waits for an id that is deleted already, or for a deletion request,
\* deletes nothing: two states that differ in this judge alike.
Canon(dl) ==
  [dl EXCEPT !.pending =
     Without(@, dl.ids \cup {ev.id : ev \in {x \in Events : x.kind = "delete"}})]

Tombstone(del, ids) == [del EXCEPT !.ids = @ \cup ids, !.pending = Without(@, ids)]

-----------------------------------------------------------------------------
(* decidePut(): stored is what getById() finds, holder[addr] what           *)
(* getReplaceable() returns: [id, at, evicted] or Nothing.                  *)
Skip(result) == [action |-> "skip", result |-> result]

Decide(ev, del, stored, holder) ==
  LET known == ev.id \in del.ids \/ ById(stored, ev.id) # Nothing
      plan  == Plan(ev, stored)
      prev  == IF ev.addr = Nothing THEN Nothing ELSE holder[ev.addr]
      insert(result, drop) == [action |-> "insert", result |-> result, drop |-> drop]
  IN IF ev.kind = "invalid" THEN Skip("invalid")
     ELSE IF known THEN Skip("duplicate")
     ELSE IF ev.kind = "delete"
       THEN [action |-> "delete", result |-> "deleted", plan |-> plan,
             coords |-> CoordinateRemovals(plan, holder)]
     ELSE IF Covers(del, ev) THEN [action |-> "tombstone", result |-> "duplicate"]
     ELSE IF ev.kind = "ephemeral" THEN Skip("ephemeral")
     ELSE IF prev = Nothing THEN insert("accepted", {})
     ELSE IF prev.id # ev.id /\ ~IsWinner(ev, prev) THEN Skip("rejected")
     ELSE IF prev.evicted THEN insert("accepted", {})
     ELSE insert("replaced", {prev.id})

=============================================================================
