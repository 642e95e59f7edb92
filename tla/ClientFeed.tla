------------------------------ MODULE ClientFeed ------------------------------
(* What a client keeps of an author's events over restarts: the outbox feed  *)
(* (loaders/outbox.ts) with its bound, the client's persistence queue and    *)
(* its shutdown (client/client.ts), over a store that writes in order        *)
(* (storage/indexeddb.ts, #writes).  One author, one kind, one relay; of a   *)
(* bound only `newest` is kept, which is all that sync() uses.  0: no bound. *)
EXTENDS Integers, Sequences, SequencesExt

CONSTANTS
  LastEvent,     \* events 1..LastEvent are posted in this order
  MaxTime,       \* bounds the clock
  Ahead,         \* events may be dated ahead of the clock
  MaxTrouble     \* bounds crashes and failed writes

VARIABLES
  now, stamp,    \* the clock; created_at of the events on the relay, 0: not there
  held,          \* the events the client has, in its index or its store
  bounds, boundTimer,   \* the newest of #bounds; #boundTimer: #dirtyBounds is not empty
  queue, flushing,  \* #persistQueue and #flushing: "no", "armed" or "putting"
  sync, since,   \* where sync() is, and the since of its filter while that matters
  live, unseen,  \* the live subscription; what it has still to deliver
  status,        \* of the client: "alive", "stopping" or "down"
  disk, diskNewest, writes,   \* the store, and its writes in order
  excused,       \* history, until stored: what no later sync() can be blamed for
  late,          \* history, until stored: events that came live behind a bound, or that it
                 \* overtakes while a slow putMany() holds the queue up
  owed,          \* history: events queued before the client was down, until
                 \* they are stored or reported
  trouble

memVars == <<held, bounds, boundTimer, queue, flushing, sync, since, live, unseen>>
feedVars == <<now, stamp, memVars, status, disk, diskNewest, writes, excused, late, owed, trouble>>

AllEvents == 1..LastEvent
OnRelay == {e \in AllEvents : stamp[e] # 0}
Max2(a, b) == IF a > b THEN a ELSE b
Write(op, es, bound) == [op |-> op, events |-> es, newest |-> bound]
NewestOf(es) == LET s == {stamp[e] : e \in es} IN CHOOSE t \in s : \A u \in s : u <= t

Init ==
  /\ now = 1 /\ stamp = [e \in AllEvents |-> 0]
  /\ held = {} /\ bounds = 0 /\ boundTimer = FALSE
  /\ queue = {} /\ flushing = "no" /\ sync = "no" /\ since = 0 /\ live = FALSE /\ unseen = {}
  /\ status = "alive"
  /\ disk = {} /\ diskNewest = 0 /\ writes = <<>>
  /\ excused = {} /\ late = {} /\ owed = {} /\ trouble = 0

-----------------------------------------------------------------------------
\* Microtasks, the start of a flush among them, run before anything else does.
Settled == flushing # "armed"

(* External: time, and the author's posts on the relay.                      *)
Tick == /\ Settled /\ now < MaxTime /\ now' = now + 1
        /\ UNCHANGED <<stamp, memVars, status, disk, diskNewest, writes, excused, late, owed, trouble>>

Post(e) ==
  /\ Settled /\ stamp[e] = 0 /\ \A d \in 1..(e - 1) : stamp[d] # 0
  /\ \E t \in {now} \cup IF Ahead THEN {MaxTime} ELSE {} : stamp' = [stamp EXCEPT ![e] = t]
  /\ unseen' = IF live THEN unseen \cup {e} ELSE unseen
  /\ UNCHANGED <<now, held, bounds, boundTimer, queue, flushing, sync, since, live, status,
                 disk, diskNewest, writes, excused, late, owed, trouble>>

-----------------------------------------------------------------------------
(* The persistence queue.                                                    *)

\* #queuePersist() and #armFlush().
Queue(e) ==
  /\ queue' = queue \cup {e}
  /\ flushing' = IF flushing = "no" THEN "armed" ELSE flushing
  /\ owed' = IF status = "down" THEN owed ELSE owed \cup {e}

\* observe(), and the fetches of the application.
Observe(e) ==
  /\ e \in OnRelay \ held
  /\ held' = held \cup {e}
  /\ Queue(e)
  /\ UNCHANGED <<now, stamp, bounds, boundTimer, sync, since, live, unseen, status,
                 disk, diskNewest, writes, excused, late, trouble>>

\* #flushLoop(): a microtask after it is armed, and after each putMany().
FlushBatch ==
  /\ flushing = "armed" /\ queue # {}
  /\ flushing' = "putting"
  /\ writes' = Append(writes, Write("flush", queue, 0))
  /\ queue' = {}
  /\ UNCHANGED <<now, stamp, held, bounds, boundTimer, sync, since, live, unseen, status,
                 disk, diskNewest, excused, late, owed, trouble>>

FlushEnds ==
  /\ flushing = "armed" /\ queue = {}
  /\ flushing' = "no"
  /\ UNCHANGED <<now, stamp, held, bounds, boundTimer, queue, sync, since, live, unseen,
                 status, disk, diskNewest, writes, excused, late, owed, trouble>>

\* shutdown() waits for the flush and closes the pool.
Shutdown ==
  /\ \/ status = "alive" /\ status' = "stopping" /\ UNCHANGED <<live, unseen, excused>>
     \/ /\ status = "stopping" /\ flushing = "no" /\ status' = "down"
        /\ live' = FALSE /\ unseen' = {} /\ excused' = excused \cup (unseen \ disk)
  /\ UNCHANGED <<now, stamp, held, bounds, boundTimer, queue, flushing, sync, since,
                 disk, diskNewest, writes, late, owed, trouble>>

-----------------------------------------------------------------------------
(* sync().                                                                   *)

\* #hydrateBoundsFromStore(): a bound that is not in memory is read, written
\* back and then set, after an await.  A bound the store has no row of is
\* derived from the events it holds, however they came there.
Stored == IF diskNewest # 0 \/ disk = {} THEN diskNewest ELSE NewestOf(disk)

SyncBegins ==
  /\ sync = "no" /\ status = "alive"
  /\ IF bounds = 0 /\ Stored # 0
     THEN /\ sync' = "reading"
          /\ writes' = Append(writes, Write("rewrite", {}, Stored))
     ELSE sync' = "ready" /\ UNCHANGED writes
  /\ excused' = IF bounds = 0 /\ diskNewest = 0
                THEN excused \cup {e \in OnRelay \ disk : stamp[e] < Stored} ELSE excused
  /\ UNCHANGED <<now, stamp, held, bounds, boundTimer, queue, flushing, since, live, unseen,
                 status, disk, diskNewest, late, owed, trouble>>

\* #syncFilters()
Since(bound) ==
  LET m == (IF bound < now THEN bound ELSE now) - 1 IN IF bound = 0 \/ m < 0 THEN 0 ELSE m

SyncFetches ==
  /\ sync = "ready"
  /\ sync' = "fetching" /\ since' = Since(bounds)
  /\ UNCHANGED <<now, stamp, held, bounds, boundTimer, queue, flushing, live, unseen, status,
                 disk, diskNewest, writes, excused, late, owed, trouble>>

\* The fetch ends: its batch is what the relay has delivered of what was asked for
\* before its limit (50), its EOSE, a CLOSED, the timeout or the loss of the socket,
\* and nothing when the relay could not be reached.  Events are indexed as they come
\* (`seen`); applySync() then puts the batch, unless an abort has ended the sync().
\* Mutant: the bounds are written before the events of the batch.
Applied_BoundFirst(batch) ==
  <<Write("bound", {}, NewestOf(batch)), Write("sync", batch, 0)>>
Applied(batch) == <<Write("sync", batch, 0)>>

SyncFetched ==
  /\ sync = "fetching" /\ Settled
  /\ \E batch \in SUBSET {e \in OnRelay : stamp[e] >= since} :
       /\ status = "down" => batch = {}
       /\ held' = held \cup batch
       /\ \/ sync' = "no" /\ since' = 0 /\ UNCHANGED writes
          \/ batch # {} /\ sync' = "applying" /\ UNCHANGED since /\ writes' = writes \o Applied(batch)
  /\ UNCHANGED <<now, stamp, bounds, boundTimer, queue, flushing, live, unseen, status,
                 disk, diskNewest, excused, late, owed, trouble>>

\* What the fetch of a batch, now stored, left out and the bound of the batch passes.
LeftOut(batch) == {e \in OnRelay \ disk : stamp[e] >= since /\ stamp[e] + 1 < NewestOf(batch)}

-----------------------------------------------------------------------------
(* The live subscription.                                                    *)

Pending == queue \cup UNION {writes[k].events : k \in DOMAIN writes}

\* startLive(): it asks for the last minute.  What no sync() has brought is
\* behind the bound as soon as a live event comes.
StartLive ==
  /\ ~live /\ status = "alive"
  /\ live' = TRUE
  /\ unseen' = {e \in OnRelay \ held : stamp[e] >= now - 1}
  /\ excused' = excused \cup (OnRelay \ (disk \cup Pending \cup unseen'))
  /\ UNCHANGED <<now, stamp, held, bounds, boundTimer, queue, flushing, sync, since, status,
                 disk, diskNewest, writes, late, owed, trouble>>

\* A bound that is in memory, on its way to the disk or there has passed e.  The
\* one in memory may be the lowest: sync() sets it to what it had read before
\* two awaits, whatever #noteEvent() has made of it meanwhile.
Passed(e) ==
  \E b \in {bounds, diskNewest} \cup {writes[k].newest : k \in DOMAIN writes} : stamp[e] <= b

\* #noteEvent()
Note(e) ==
  /\ live /\ e \in unseen
  /\ unseen' = unseen \ {e}
  /\ late' = (late \cup (IF flushing = "putting" THEN queue \cup {e} ELSE {})
                   \cup (IF Passed(e) THEN {e} ELSE {})) \ disk
  /\ bounds' = Max2(bounds, stamp[e])
  /\ boundTimer' = TRUE
  /\ held' = held \cup {e}
  /\ Queue(e)
  /\ UNCHANGED <<now, stamp, sync, since, live, status, disk, diskNewest, writes, excused, trouble>>

\* The subscription ends with or without having delivered everything.
LiveEnds ==
  /\ Settled /\ live /\ live' = FALSE
  /\ unseen' = {} /\ excused' = excused \cup (unseen \ disk)
  /\ UNCHANGED <<now, stamp, held, bounds, boundTimer, queue, flushing, sync, since, status,
                 disk, diskNewest, writes, late, owed, trouble>>

\* The flush of the bounds, a second later or on close().
FlushBounds ==
  /\ Settled /\ boundTimer /\ boundTimer' = FALSE
  /\ writes' = Append(writes, Write("bound", {}, bounds))
  /\ UNCHANGED <<now, stamp, held, bounds, queue, flushing, sync, since, live, unseen, status,
                 disk, diskNewest, excused, late, owed, trouble>>

-----------------------------------------------------------------------------
(* The store finishes its first write, or fails it.                          *)
WriteDone ==
  /\ writes # <<>> /\ Settled
  /\ LET w == Head(writes) IN
     /\ disk' = disk \cup w.events
     /\ diskNewest' = IF w.newest # 0 THEN w.newest ELSE diskNewest
     /\ bounds' = CASE w.op = "rewrite" -> w.newest
                    [] w.op = "sync" -> Max2(bounds, NewestOf(w.events))
                    [] OTHER -> bounds
     /\ flushing' = IF w.op = "flush" THEN "armed" ELSE flushing
     /\ sync' = CASE w.op = "rewrite" -> "ready"
                  [] w.op = "sync" -> "bounding"
                  [] w.op = "syncBound" -> "no"
                  [] OTHER -> sync
     /\ since' = IF w.op = "sync" THEN 0 ELSE since
     /\ writes' = Tail(writes) \o
                  IF w.op = "sync" THEN <<Write("syncBound", {}, bounds')>> ELSE <<>>
     /\ owed' = owed \ w.events /\ late' = late \ w.events
     /\ excused' = (excused \cup IF w.op = "sync" THEN LeftOut(w.events) ELSE {}) \ w.events
  /\ UNCHANGED <<now, stamp, held, boundTimer, queue, live, unseen, status, trouble>>

\* A failed putMany() of the queue is reported and its events dropped; a sync()
\* throws; a bound is best-effort.
WriteFails ==
  /\ writes # <<>> /\ Settled /\ trouble < MaxTrouble
  /\ LET w == Head(writes) IN
     /\ excused' = excused \cup {e \in w.events \ disk :
                                   w.op = "flush" \/ live \/ stamp[e] < Since(bounds)}
     /\ flushing' = IF w.op = "flush" THEN "armed" ELSE flushing
     /\ sync' = IF w.op \in {"flush", "bound"} THEN sync ELSE "no"
     /\ since' = IF w.op = "sync" THEN 0 ELSE since
     /\ owed' = owed \ w.events
  /\ writes' = Tail(writes) /\ trouble' = trouble + 1
  /\ UNCHANGED <<now, stamp, held, bounds, boundTimer, queue, live, unseen, status,
                 disk, diskNewest, late>>

\* The process dies and starts again with what is on disk.
Crash ==
  /\ status # "down" => trouble < MaxTrouble
  /\ trouble' = IF status = "down" THEN trouble ELSE trouble + 1
  /\ held' = disk /\ bounds' = 0 /\ boundTimer' = FALSE
  /\ queue' = {} /\ flushing' = "no" /\ sync' = "no" /\ since' = 0 /\ live' = FALSE /\ unseen' = {}
  /\ status' = "alive" /\ writes' = <<>>
  /\ excused' = excused \cup (unseen \ disk) \cup late /\ late' = {}
  /\ owed' = {}
  /\ UNCHANGED <<now, stamp, disk, diskNewest>>

Next == \/ Tick \/ Shutdown \/ FlushBatch \/ FlushEnds \/ SyncBegins \/ SyncFetches \/ SyncFetched
        \/ StartLive \/ LiveEnds \/ FlushBounds \/ WriteDone \/ WriteFails \/ Crash
        \/ \E e \in AllEvents : Post(e) \/ Observe(e) \/ Note(e)

Spec == Init /\ [][Next]_feedVars

-----------------------------------------------------------------------------
(* Every event on the relay is with the client, on its way, or not older     *)
(* than what the next sync() asks for.  Excused: what a fetch left out of a  *)
(* batch that moved the bound past it (LeftOut), so that "Worst case is      *)
(* re-delivery, never loss" (#syncFilters) holds of complete batches only;   *)
(* puts that failed; what a live subscription had not delivered when it      *)
(* ended; what one jumps over that was started before a sync() has brought   *)
(* it; history older than a bound that was derived from events stored by     *)
(* another way.                                                              *)
FeedNeverSkips ==
  LET bound == IF bounds # 0 THEN bounds ELSE diskNewest IN
  \A e \in OnRelay \ excused : e \in held \cup unseen \/ stamp[e] >= Since(bound)

(* The same of what a crash leaves: a bound never reaches the disk before    *)
(* the events that moved it.  Excused too: events that came live behind a    *)
(* bound or were overtaken by one.                                           *)
BoundBehindStore ==
  \A e \in OnRelay \ (excused \cup late) : e \in disk \cup unseen \/ stamp[e] >= Since(diskNewest)

(* When shutdown() has resolved, every event that was queued by then is      *)
(* stored or its failure was reported.                                       *)
ShutdownFlushes == status = "down" => owed = {}

(* All three: nothing that was asked for is lost, but what is excused.       *)
FeedSafe == FeedNeverSkips /\ BoundBehindStore /\ ShutdownFlushes

=============================================================================
