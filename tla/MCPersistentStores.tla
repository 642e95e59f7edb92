-------------------------- MODULE MCPersistentStores --------------------------
(* TLC instance of PersistentStores: a note and three versions of an        *)
(* address by author A (two of the same second), requests by A for the note *)
(* and the oldest version, for the address, and for a request, and one by   *)
(* B for A's events.                                                        *)
EXTENDS PersistentStores

CONSTANTS A, B

Ev(id, by, kind, at, addr, e, a) ==
  [id |-> id, by |-> by, kind |-> kind, at |-> at, addr |-> addr, e |-> e, a |-> a]
x == <<A, "x">>
note == Ev(1, A, "note", 1, Nothing, {}, {})
old  == Ev(2, A, "replaceable", 1, x, {}, {})
hi   == Ev(4, A, "replaceable", 2, x, {}, {})
lo   == Ev(3, A, "replaceable", 2, x, {}, {})
delE == Ev(5, A, "delete", 2, Nothing, {1, 2}, {})
delA == Ev(6, A, "delete", 1, Nothing, {}, {x})
delB == Ev(7, B, "delete", 2, Nothing, {1, 3}, {x})
delD == Ev(8, A, "delete", 3, Nothing, {5, 3}, {x})
eph  == Ev(9, A, "ephemeral", 1, Nothing, {}, {})
bad  == Ev(10, A, "invalid", 1, Nothing, {}, {})

MCEvents == {note, old, hi, lo, delE, delA, delB, delD, eph, bad}
Real == {ev \in MCEvents : ev.kind \notin {"ephemeral", "invalid"}}
MCBatches == {<<ev>> : ev \in MCEvents} \cup {s \in Real \X Real : s[1] # s[2]}
MCRemovals == {{1}, {3, 5}}
MCBounds == {1}
MCLegacy == SUBSET (MCEvents \ {eph})
=============================================================================
