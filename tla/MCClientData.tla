----------------------------- MODULE MCClientData -----------------------------
(* TLC instances of what a client keeps: its reactive index, and an outbox   *)
(* feed with the persistence queue.  They share nothing, so a behaviour is   *)
(* that of one of them, named by `mode`: "own" and "other" are the index      *)
(* with the requests of the author, and with those of somebody else.         *)
EXTENDS ReactiveStore

CONSTANTS
  LastEvent, MaxTime, Ahead, MaxTrouble,
  Modes, A, B, QueryWatch, AddrWatch

VARIABLES
  mode,
  now, stamp, held, bounds, boundTimer, queue, flushing, sync, since, live, unseen, status, disk,
  diskNewest, writes, excused, late, owed, trouble

feedVars == <<now, stamp, held, bounds, boundTimer, queue, flushing, sync, since, live, unseen,
              status, disk, diskNewest, writes, excused, late, owed, trouble>>

F == INSTANCE ClientFeed

-----------------------------------------------------------------------------
\* The index has room for one event: two versions of an address and a note by
\* A, a request by A for the address and the note, and one by B for the newer
\* version.  One of the two watches is used in a behaviour.
Ev(id, by, kind, at, addr, e, a) ==
  [id |-> id, by |-> by, kind |-> kind, at |-> at, addr |-> addr, e |-> e, a |-> a]
AddrX == <<A, "x">>
OldX  == Ev(1, A, "replaceable", 1, AddrX, {}, {})
NewX  == Ev(2, A, "replaceable", 2, AddrX, {}, {})
NoteA == Ev(3, A, "note", 1, Nothing, {}, {})
DelA  == Ev(4, A, "delete", 2, Nothing, {3}, {AddrX})
DelB  == Ev(5, B, "delete", 1, Nothing, {2}, {})

MCEvents == {OldX, NewX, NoteA, DelA, DelB}
MCTarget == [w \in Watches |->
               IF w = QueryWatch THEN [kind |-> "query", key |-> {OldX, NewX, NoteA}, limit |-> 1]
               ELSE [kind |-> "replaceable", key |-> AddrX, limit |-> 1]]
MCHydrations == {<<NoteA, NewX>>}
MCRemovals == {{2}}

\* Bounds, stated as a state constraint.
OneWatch    == Cardinality({w \in Watches : watch[w].made}) <= 1
OneAuthor   == ix.stored \cap (IF mode = "own" THEN {DelB} ELSE {DelA, NoteA}) = {}
\* At most two writes are under way, and the first event is posted first thing.
SmallFeed   == Len(writes) <= 2 /\ (now > 1 => stamp[1] # 0) /\ stamp[2] # 1
SmallEnough == OneWatch /\ OneAuthor /\ SmallFeed

-----------------------------------------------------------------------------
MCInit == mode \in Modes /\ Init /\ F!Init

MCNext == \/ mode # "feed" /\ Next /\ UNCHANGED <<mode, feedVars>>
          \/ mode = "feed" /\ F!Next /\ UNCHANGED <<mode, reactiveVars>>

MCSpec == MCInit /\ [][MCNext]_<<mode, reactiveVars, feedVars>>

-----------------------------------------------------------------------------
(* Nothing that was once on a relay and asked for is lost to a feed, by a    *)
(* bound ahead of what was stored, a crash or a shutdown, but what a fetch   *)
(* leaves out of a batch and the other cases that ClientFeed excuses.        *)
FeedSafe == F!FeedSafe
=============================================================================
