---------------------------- MODULE ReactiveStore ----------------------------
(* store/reactive.ts: watches with cached snapshots over the memory index,  *)
(* notifications batched into one microtask, eviction of what was used      *)
(* least recently.                                                          *)
(*   ix       the memory index                                              *)
(*   recency  stored ids, least recently used first                         *)
(*   watch    per watch: made; snap, the ids of its snapshot; behind, the   *)
(*            snapshot's version is not the store's; dirty; subs, it has a  *)
(*            subscriber; reg, it is registered; removing and tasks, its    *)
(*            pending removal and the microtasks queued for it; pins        *)
(*   dirty    watches to notify, flush: the microtask is queued or running, *)
(*   batch    the watches the running microtask has yet to notify           *)
(* told, newest and spoiled are history: the result when a watch's          *)
(* subscriber was last called or subscribed, the newest version stored at   *)
(* each address, and the addresses whose newest a request named in vain.    *)
(* seenOn and the store's insert and remove listeners are left out.         *)
EXTENDS MemoryIndex

CONSTANTS
  Watches,
  Target,      \* [Watches -> [kind, key, limit]]: an id, an address, or the set
               \* of events that the filters match
  MaxEvents,
  Hydrations,  \* sequences of events in created_at order
  Removals     \* sets of ids given to remove()

VARIABLES ix, recency, watch, dirty, flush, batch, told, newest, spoiled

reactiveVars == <<ix, recency, watch, dirty, flush, batch, told, newest, spoiled>>

MaxTasks == 2    \* bound: unregister microtasks queued for a watch at a time

ASSUME ReactiveAssumption ==
  /\ MaxEvents \in Nat /\ MaxWatermarks \in Nat
  /\ \A w \in Watches : /\ Target[w].kind \in {"event", "replaceable", "query"}
                        /\ Target[w].kind = "query" => Target[w].key \subseteq Events
  /\ Hydrations \subseteq Seq(Events) /\ Removals \subseteq SUBSET Ids

NewWatch == [made |-> FALSE, snap |-> {}, behind |-> FALSE, dirty |-> FALSE, subs |-> FALSE,
             reg |-> FALSE, removing |-> FALSE, tasks |-> 0, pins |-> {}]

IdsOf(evs) == {ev.id : ev \in evs}
Matching(w) == CASE Target[w].kind = "event" -> {ev \in Events : ev.id = Target[w].key}
                 [] Target[w].kind = "replaceable" -> ByAddr(Events, Target[w].key)
                 [] Target[w].kind = "query" -> Target[w].key
\* compute(): what the watch would show now.
Fresh(w) ==
  CASE Target[w].kind = "event" -> IdsOf({Get(ix, Target[w].key)} \ {Nothing})
    [] Target[w].kind = "replaceable" -> IdsOf({GetByAddress(ix, Target[w].key)} \ {Nothing})
    [] Target[w].kind = "query" -> IdsOf(Query(ix, Matching(w), Target[w].limit))

\* #touch() of the ids of a result, oldest event first.
OldestFirst(evs) ==
  CHOOSE ids \in SetToSeqs(IdsOf(evs)) :
    \A i, j \in DOMAIN ids : i < j => IsWinner(ById(evs, ids[j]), ById(evs, ids[i]))
Touched(rec, evs) == Only(rec, ToSet(rec) \ IdsOf(evs)) \o OldestFirst(evs)

\* #invalidateByEvent(): a registered watch that matches an event inserted or
\* removed, or is keyed on an id or address a deletion names.
Concerns(ev, w) ==
  \/ ev \in Matching(w)
  \/ ev.kind = "delete" /\ Target[w].kind = "event" /\ Target[w].key \in ev.e
  \/ ev.kind = "delete" /\ Target[w].kind = "replaceable" /\ Target[w].key \in ev.a

Invalidated(changed) == {w \in Watches : watch[w].reg /\ \E ev \in changed : Concerns(ev, w)}

Mark(changed) ==
  LET hit == Invalidated(changed)
  IN /\ watch' = [w \in Watches |-> [watch[w] EXCEPT !.behind = @ \/ changed # {},
                                                     !.dirty = @ \/ w \in hit]]
     /\ dirty' = dirty \cup hit
     /\ flush' = (flush \/ hit # {})

-----------------------------------------------------------------------------
(* Eviction: the least recently used ids that no registered watch shows,    *)
(* the protected one excepted, as many as are over the cap.                 *)
Pinned == UNION {watch[w].pins : w \in {v \in Watches : watch[v].reg}}

EvictIfNeeded(st, rec, protected) ==
  LET may  == Only(rec, ToSet(rec) \ (Pinned \cup protected))
      over == Max({0, Cardinality(st.stored) - MaxEvents})
  IN Evict(st, SubSeq(may, 1, Min({over, Len(may)})))

Kept_NoTouch(rec, st, ins) == Only(rec, IdsOf(st.stored))
\* #onInsert() and #onRemove() keep recency to the stored ids, a new one last.
Kept(rec, st, ins) == Only(rec, IdsOf(st.stored)) \o SetToSeq(IdsOf(ins))

Names(req, ev) == req.kind = "delete" /\ (ev.id \in req.e \/ ev.addr \in req.a)
Deletes(req, ev) == /\ Names(req, ev) /\ req.by = ev.by
                    /\ ev.id \in req.e \/ ev.at <= req.at
\* The newest of a version and those among evs.
Better(old, evs, c) ==
  LET all == ByAddr(evs, c) \cup ({old} \ {Nothing})
  IN IF all = {} THEN Nothing ELSE CHOOSE ev \in all : \A y \in all \ {ev} : IsWinner(ev, y)

\* The state of a series of writes: changed are the events inserted or removed.
Now == [st |-> ix, rec |-> recency, changed |-> {}, newest |-> newest, spoiled |-> spoiled]

\* put() of one event.  The newest version each address had is forgotten when
\* its author deletes it; a request that names it and may not delete it spoils
\* the address.
PutOne(r, ev) ==
  LET st      == Put(r.st, ev)
      ins     == st.stored \ r.st.stored
      named   == {c \in Addrs : r.newest[c] # Nothing /\ Names(ev, r.newest[c])}
      deletes == {c \in named : Deletes(ev, r.newest[c])}
  IN [st      |-> st,
      rec     |-> Kept(r.rec, st, ins),
      changed |-> r.changed \cup ins \cup (r.st.stored \ st.stored),
      newest  |-> [c \in Addrs |-> Better(IF c \in deletes THEN Nothing ELSE r.newest[c],
                                           st.stored, c)],
      spoiled |-> r.spoiled \cup (named \ deletes)]

\* The writes end with an eviction.
Write(r, protected) ==
  LET st == EvictIfNeeded(r.st, r.rec, protected)
  IN /\ ix' = st
     /\ recency' = Only(r.rec, IdsOf(st.stored))
     /\ newest' = r.newest
     /\ spoiled' = r.spoiled
     /\ Mark(r.changed \cup (r.st.stored \ st.stored))
     /\ UNCHANGED <<batch, told>>

-----------------------------------------------------------------------------
Init == /\ ix = EmptyIndex
        /\ recency = <<>>
        /\ watch = [w \in Watches |-> NewWatch]
        /\ dirty = {} /\ flush = FALSE /\ batch = {}
        /\ told = [w \in Watches |-> {}]
        /\ newest = [c \in Addrs |-> Nothing] /\ spoiled = {}

\* add(): the event just inserted survives its own eviction pass.
Add(ev) == Write(PutOne(Now, ev), {ev.id})

Hydrate(evs) == Write(FoldLeft(PutOne, Now, evs), {})

\* remove(): what the caller removes is forgotten.
RemoveAll(ids) ==
  LET st == RemoveIds(ix, ids)
  IN /\ ix' = st
     /\ recency' = Only(recency, IdsOf(st.stored))
     /\ newest' = [c \in Addrs |-> IF newest[c] # Nothing /\ newest[c].id \in ids
                                    THEN Nothing ELSE newest[c]]
     /\ Mark(ix.stored \ st.stored)
     /\ UNCHANGED <<spoiled, batch, told>>

\* clear() invalidates every registered watch.
Clear ==
  LET hit == {w \in Watches : watch[w].reg}
  IN /\ ix' = EmptyIndex
     /\ recency' = <<>>
     /\ watch' = [w \in Watches |-> [watch[w] EXCEPT !.behind = TRUE, !.dirty = @ \/ w \in hit]]
     /\ dirty' = dirty \cup hit
     /\ flush' = TRUE
     /\ newest' = [c \in Addrs |-> Nothing]
     /\ spoiled' = {}
     /\ UNCHANGED <<batch, told>>

\* get(), getByAddress() and query() of the application, by one event.
Read(ev) == /\ ev \in Visible(ix)
            /\ recency' = Touched(recency, {ev})
            /\ UNCHANGED <<ix, watch, dirty, flush, batch, told, newest, spoiled>>

-----------------------------------------------------------------------------
Compute(w) == recency' = Touched(recency, {ev \in ix.stored : ev.id \in Fresh(w)})

\* watchEvent(), watchReplaceable(), watchQuery() for a key that is not cached.
MakeWatch(w) == /\ ~watch[w].made
                /\ Compute(w)
                /\ watch' = [watch EXCEPT ![w].made = TRUE, ![w].snap = Fresh(w), ![w].behind = FALSE]
                /\ UNCHANGED <<ix, dirty, flush, batch, told, newest, spoiled>>

CaughtUp_DirtyOnly(w) == watch[w].dirty
\* A write that landed while nobody subscribed must show.
CaughtUp(w) == watch[w].dirty \/ watch[w].behind

Subscribe(w) ==
  /\ watch[w].made /\ ~watch[w].subs
  /\ watch' = [watch EXCEPT ![w].subs = TRUE, ![w].removing = FALSE, ![w].reg = TRUE,
                            ![w].dirty = CaughtUp(w),
                            ![w].pins = IF watch[w].reg THEN @ ELSE watch[w].snap]
  /\ told' = [told EXCEPT ![w] = Fresh(w)]
  /\ UNCHANGED <<ix, recency, dirty, flush, batch, newest, spoiled>>

Unsubscribe(w) ==
  /\ watch[w].subs
  /\ watch[w].tasks < MaxTasks
  /\ watch' = [watch EXCEPT ![w].subs = FALSE, ![w].removing = TRUE, ![w].tasks = @ + 1]
  /\ UNCHANGED <<ix, recency, dirty, flush, batch, told, newest, spoiled>>

StillRemoving_Unchecked(w) == TRUE
\* The queued microtask; a subscriber that came back keeps the watch.
StillRemoving(w) == watch[w].removing /\ ~watch[w].subs
Unregister(w) ==
  /\ watch[w].tasks > 0 /\ batch = {}
  /\ watch' = [watch EXCEPT ![w].tasks = @ - 1,
                            ![w].reg = @ /\ ~StillRemoving(w),
                            ![w].pins = IF StillRemoving(w) THEN {} ELSE @]
  /\ UNCHANGED <<ix, recency, dirty, flush, batch, told, newest, spoiled>>

Outdated(w) == IF watch[w].subs THEN watch[w].dirty ELSE watch[w].behind
GetSnapshot(w) ==
  /\ watch[w].made /\ Outdated(w)
  /\ Compute(w)
  /\ watch' = [watch EXCEPT ![w].snap = Fresh(w), ![w].behind = FALSE, ![w].dirty = FALSE,
                            ![w].pins = IF watch[w].reg THEN Fresh(w) ELSE @]
  /\ UNCHANGED <<ix, dirty, flush, batch, told, newest, spoiled>>

\* The flush microtask takes the dirty watches and notifies one after the
\* other; a subscriber may call anything, and what gets dirty meanwhile is
\* taken in the same pass.
TakeDirty == /\ flush /\ batch = {} /\ dirty # {}
             /\ batch' = dirty
             /\ dirty' = {}
             /\ UNCHANGED <<ix, recency, watch, flush, told, newest, spoiled>>
Notify(w) == /\ w \in batch
             /\ batch' = batch \ {w}
             /\ told' = IF watch[w].subs THEN [told EXCEPT ![w] = Fresh(w)] ELSE told
             /\ UNCHANGED <<ix, recency, watch, dirty, flush, newest, spoiled>>
FlushDone == /\ flush /\ batch = {} /\ dirty = {}
             /\ flush' = FALSE
             /\ UNCHANGED <<ix, recency, watch, dirty, batch, told, newest, spoiled>>

Next == \/ \E ev \in Events : Add(ev) \/ Read(ev)
        \/ \E evs \in Hydrations : Hydrate(evs)
        \/ \E ids \in Removals : RemoveAll(ids)
        \/ Clear
        \/ \E w \in Watches : \/ MakeWatch(w) \/ Subscribe(w) \/ Unsubscribe(w)
                              \/ Unregister(w) \/ GetSnapshot(w) \/ Notify(w)
        \/ TakeDirty \/ FlushDone

Spec == Init /\ [][Next]_reactiveVars
-----------------------------------------------------------------------------
(* Types.                                                                   *)
TypeOK ==
  /\ ix.stored \subseteq Events
  /\ ix.del.ids \subseteq Ids /\ DOMAIN ix.del.pending \subseteq Ids
  /\ DOMAIN ix.del.until \subseteq Addrs
  /\ Len(ix.marks) <= MaxWatermarks
  /\ MaxTombstones # Nothing => Cardinality(ix.del.ids) <= MaxTombstones
  /\ ToSet(recency) \subseteq Ids
  /\ \A w \in Watches : watch[w].snap \subseteq Ids /\ watch[w].tasks \in 0..MaxTasks
  /\ dirty \subseteq Watches /\ batch \subseteq Watches /\ flush \in BOOLEAN
  /\ \A c \in Addrs : newest[c] \in Events \cup {Nothing}

(* What getSnapshot() returns without computing is what computing would     *)
(* return, through writes, evictions, deletions and every sequence of       *)
(* subscribing and unsubscribing (WatchImpl.getSnapshot, subscribe).        *)
SnapshotFresh ==
  \A w \in Watches : watch[w].made /\ ~Outdated(w) => watch[w].snap = Fresh(w)

(* A subscriber is never left with an outdated result and no call on its    *)
(* way: if the result differs from what it was when the subscriber was last *)
(* called, the watch waits in #dirty or in the running flush.               *)
NoMissedNotification ==
  /\ \A w \in Watches : watch[w].subs => Fresh(w) = told[w] \/ w \in dirty \cup batch
  /\ dirty # {} => flush

(* The eviction pass bounds the store: after a write that inserted events,  *)
(* more than maxEvents are stored only if a registered watch shows every    *)
(* other one.  It needs recency to hold exactly the stored ids.             *)
EvictionBounds ==
  [][LET ins == ix'.stored \ ix.stored
     IN ins # {} => \/ Cardinality(ix'.stored) <= MaxEvents
                    \/ IdsOf(ix'.stored \ ins) \subseteq Pinned]_reactiveVars

(* A version that was evicted still rejects older ones: what is stored at   *)
(* an address is the newest version ever stored there, unless its author or *)
(* the caller deleted that one (the watermarks, evict()).  A request that   *)
(* names it without being able to delete it is excepted.                    *)
NewestHolds ==
  \A c \in Addrs \ spoiled : \A ev \in ByAddr(ix.stored, c) : newest[c] = ev

(* The same without the exception, as the comment in the constructor says:  *)
(* evicted winners stay rejectable while their body is gone.                *)
NewestHoldsAlways == \A c \in Addrs : \A ev \in ByAddr(ix.stored, c) : newest[c] = ev

=============================================================================
