---------------------------- MODULE EventQueries ----------------------------
(* One filter asked of the three stores.  IndexedDB (storage/idb-query.ts)  *)
(* opens a cursor per range of an index and merges them by callbacks, the   *)
(* state machine of this module; SQLite (compileFilter, #planRows) and the  *)
(* memory index (#eachCandidate) are functions.  A store holds events       *)
(* [id, by, kind, at, tags]; tags are pairs <<name, value>>.  A filter      *)
(* [ids, by, kinds, tags, since, until, limit] has Nothing for a field it   *)
(* lacks; tags maps names to sets of values.                                *)
EXTENDS Integers, SequencesExt, FiniteSetsExt

CONSTANTS
  Contents,       \* the sets of events a store may hold
  Filters, Nothing,
  MaxCursors,     \* MAX_MERGE_CURSORS
  Chunk           \* IN_CHUNK

VARIABLES
  filter, stored,    \* the question and the events held, constant
  phase,             \* "merge", "drain", "done" or "failed"
  second, buffer,    \* the second being drained and its events so far
  head,              \* per cursor the event it offers, or Nothing
  request,           \* per cursor "cursor" or "get" while one is in flight
  rest,              \* per cursor the events it has not delivered
  out                \* the events taken

vars == <<filter, stored, phase, second, buffer, head, request, rest, out>>

Before(x, y) == x.at > y.at \/ (x.at = y.at /\ x.id < y.id)
\* Sorting: each event has the place of the number of events before it.
InOrder(evs, before(_, _)) ==
  [k \in 1..Cardinality(evs) |-> CHOOSE x \in evs : Cardinality({y \in evs : before(y, x)}) = k - 1]
Sorted(evs) == InOrder(evs, Before)
First(s, limit) == IF limit = Nothing \/ limit >= Len(s) THEN s ELSE SubSeq(s, 1, limit)

Allows(set, v) == set = Nothing \/ v \in set
InTime(f, ev) == /\ f.since # Nothing => ev.at >= f.since
                 /\ f.until # Nothing => ev.at <= f.until
\* matchFilter()
Match(f, ev) ==
  /\ Allows(f.ids, ev.id) /\ Allows(f.kinds, ev.kind) /\ Allows(f.by, ev.by)
  /\ \A n \in DOMAIN f.tags : \E v \in f.tags[n] : <<n, v>> \in ev.tags
  /\ InTime(f, ev)

\* What a query means.
Answer(f, evs) == First(Sorted({ev \in evs : Match(f, ev)}), f.limit)

-----------------------------------------------------------------------------
(* The memory index: candidates by the first index the filter has a list    *)
(* for, then matchFilter().                                                 *)
EpTags(f) == UNION {{<<n, v>> : v \in f.tags[n]} : n \in DOMAIN f.tags \cap {"e", "p"}}
HasEp(f) == DOMAIN f.tags \cap {"e", "p"} # {}

Candidates(f, evs) ==
  IF f.ids # Nothing THEN {ev \in evs : ev.id \in f.ids}
  ELSE IF f.by # Nothing /\ f.kinds # Nothing
    THEN {ev \in evs : ev.by \in f.by /\ ev.kind \in f.kinds}
  ELSE IF f.by # Nothing THEN {ev \in evs : ev.by \in f.by}
  ELSE IF f.kinds # Nothing THEN {ev \in evs : ev.kind \in f.kinds}
  ELSE IF HasEp(f) THEN {ev \in evs : ev.tags \cap EpTags(f) # {}}
  ELSE evs

MemoryQuery(f, evs) ==
  IF f.limit = 0 THEN <<>>
  ELSE First(Sorted({ev \in Candidates(f, evs) : Match(f, ev)}), f.limit)

-----------------------------------------------------------------------------
(* SQLite: every list becomes chunks and every combination of chunks a      *)
(* statement with the limit; the rows are merged, sorted and cut again.  A  *)
(* tag name of several letters is not indexed and is checked afterwards,    *)
(* before the limit.                                                        *)
Chunks(set) == LET s == SetToSeq(set)
               IN {{s[k] : k \in DOMAIN s \cap n * Chunk + 1..(n + 1) * Chunk} :
                     n \in {k \in 0..Len(s) : k * Chunk < Len(s)}}
ChunksOf(set) == IF set = Nothing THEN {Nothing} ELSE Chunks(set)
Indexed(f) == DOMAIN f.tags \ {"ext"}

Plans(f) ==
  [ids : ChunksOf(f.ids), by : ChunksOf(f.by), kinds : ChunksOf(f.kinds),
   tags : {c \in [Indexed(f) -> UNION {Chunks(f.tags[n]) : n \in Indexed(f)}] :
             \A n \in Indexed(f) : c[n] \in Chunks(f.tags[n])},
   since : {f.since}, until : {f.until}, limit : {f.limit}]

Deferred(f) == Indexed(f) # DOMAIN f.tags
PushedLimit(f) == IF Deferred(f) THEN Nothing ELSE f.limit

SqlQuery(f, evs) ==
  LET rows == UNION {ToSet(Answer([p EXCEPT !.limit = PushedLimit(f)], evs)) : p \in Plans(f)}
  IN IF f.limit = 0 THEN <<>>
     ELSE First(Sorted(IF Deferred(f) THEN {ev \in rows : Match(f, ev)} ELSE rows), f.limit)

-----------------------------------------------------------------------------
(* scanFilter(): the ranges to merge.  Past the cap fewer and wider ones.   *)
Fits(n) == n <= MaxCursors
FullScan == {<<"all">>}
ByKind(f) == {<<"kind", k>> : k \in f.kinds}

Ranges(f) ==
  IF f.by # Nothing /\ f.kinds # Nothing THEN
    IF Fits(Cardinality(f.by) * Cardinality(f.kinds))
    THEN {<<"both", k, b>> : k \in f.kinds, b \in f.by}
    ELSE IF Fits(Cardinality(f.kinds)) THEN ByKind(f) ELSE FullScan
  ELSE IF f.by # Nothing THEN
    IF Fits(Cardinality(f.by)) THEN {<<"by", b>> : b \in f.by} ELSE FullScan
  ELSE IF f.kinds # Nothing THEN
    IF Fits(Cardinality(f.kinds)) THEN ByKind(f) ELSE FullScan
  ELSE IF EpTags(f) # {} /\ Fits(Cardinality(EpTags(f)))
    THEN {<<"tag", t>> : t \in EpTags(f)} ELSE FullScan

InRange(c, ev) == CASE c[1] = "all" -> TRUE
                    [] c[1] = "kind" -> ev.kind = c[2]
                    [] c[1] = "by" -> ev.by = c[2]
                    [] c[1] = "both" -> ev.kind = c[2] /\ ev.by = c[3]
                    [] c[1] = "tag" -> c[2] \in ev.tags

\* A cursor walks its index backwards: newest second first, and within a
\* second the highest key, that is id, first.
Walk(c, f, evs) == InOrder({ev \in evs : InRange(c, ev) /\ InTime(f, ev)},
                           LAMBDA x, y : x.at > y.at \/ (x.at = y.at /\ x.id > y.id))

\* limit 0, an empty span and a list of ids need no cursor.
NeedsCursors(f) == /\ f.limit # 0 /\ f.ids = Nothing
                   /\ ~(f.since # Nothing /\ f.until # Nothing /\ f.since > f.until)
Open(f) == IF NeedsCursors(f) THEN Ranges(f) ELSE {}

Init ==
  /\ filter \in Filters
  /\ stored \in Contents
  /\ phase = IF Open(filter) = {} THEN "done" ELSE "merge"
  /\ second = 0 /\ buffer = {}
  /\ head = [c \in Open(filter) |-> Nothing]
  /\ request = [c \in Open(filter) |-> "cursor"]
  /\ rest = [c \in Open(filter) |-> Walk(c, filter, stored)]
  /\ out = IF filter.ids # Nothing THEN Answer(filter, stored) ELSE <<>>

-----------------------------------------------------------------------------
(* pump(), once no request is in flight: the drained second is sorted and   *)
(* taken, then the next second is chosen and every cursor that offers one   *)
(* of its events goes on.                                                   *)
Full(s) == filter.limit # Nothing /\ Len(s) >= filter.limit
Taken(buf) == First(out \o Sorted({ev \in buf \ ToSet(out) : Match(filter, ev)}), filter.limit)

NextSecond(hd) == Max({hd[c].at : c \in {k \in DOMAIN hd : hd[k] # Nothing}})
Offers(hd, t) == {c \in DOMAIN hd : hd[c] # Nothing /\ hd[c].at = t}

Drain(hd, req) ==
  LET t == NextSecond(hd)
  IN /\ phase' = "drain"
     /\ second' = t
     /\ buffer' = {hd[c] : c \in Offers(hd, t)}
     /\ head' = [c \in DOMAIN hd |-> IF c \in Offers(hd, t) THEN Nothing ELSE hd[c]]
     /\ request' = [c \in DOMAIN hd |-> IF c \in Offers(hd, t) THEN "cursor" ELSE req[c]]

Pump(hd, req) ==
  \/ /\ \E c \in DOMAIN req : req[c] # "none"
     /\ head' = hd /\ request' = req
     /\ UNCHANGED <<phase, second, buffer, out>>
  \/ /\ \A c \in DOMAIN req : req[c] = "none"
     /\ out' = IF phase = "drain" THEN Taken(buffer) ELSE out
     /\ IF Full(out') \/ \A c \in DOMAIN hd : hd[c] = Nothing
        THEN /\ phase' = "done" /\ head' = hd /\ request' = req
             /\ UNCHANGED <<second, buffer>>
        ELSE Drain(hd, req)

\* Mutant: a plain merge of cursors, one event at a time.
Joins_Never(ev) == FALSE
\* onEvent(): an event of the second being drained joins it and its cursor
\* goes on, any other is offered.
Joins(ev) == phase = "drain" /\ ev.at = second
OnEvent(c, ev) ==
  \/ /\ Joins(ev)
     /\ buffer' = buffer \cup {ev}
     /\ request' = [request EXCEPT ![c] = "cursor"]
     /\ UNCHANGED <<phase, second, head, out>>
  \/ /\ ~Joins(ev)
     /\ Pump([head EXCEPT ![c] = ev], [request EXCEPT ![c] = "none"])

\* A cursor request succeeds: at the end of its range, on an event, or on a
\* row of tag_refs whose event is fetched first.
CursorEnds(c) == /\ request[c] = "cursor" /\ rest[c] = <<>>
                 /\ Pump([head EXCEPT ![c] = Nothing], [request EXCEPT ![c] = "none"])
                 /\ UNCHANGED rest
CursorMoves(c) == /\ request[c] = "cursor" /\ rest[c] # <<>> /\ c[1] # "tag"
                  /\ rest' = [rest EXCEPT ![c] = Tail(@)]
                  /\ OnEvent(c, Head(rest[c]))
TagMoves(c) == /\ request[c] = "cursor" /\ rest[c] # <<>> /\ c[1] = "tag"
               /\ request' = [request EXCEPT ![c] = "get"]
               /\ UNCHANGED <<phase, second, buffer, head, rest, out>>
TagFetched(c) == /\ request[c] = "get"
                 /\ rest' = [rest EXCEPT ![c] = Tail(@)]
                 /\ OnEvent(c, Head(rest[c]))
Fails(c) == /\ request[c] # "none"
            /\ phase' = "failed"
            /\ UNCHANGED <<second, buffer, head, request, rest, out>>

Next == /\ phase \notin {"done", "failed"}
        /\ \E c \in DOMAIN request :
             CursorEnds(c) \/ CursorMoves(c) \/ TagMoves(c) \/ TagFetched(c) \/ Fails(c)
        /\ UNCHANGED <<filter, stored>>

Spec == Init /\ [][Next]_vars
-----------------------------------------------------------------------------
(* Whatever the order of the callbacks, the scan takes the matching events  *)
(* newest first, each once, no more than the limit, and is never left       *)
(* without a request in flight before it is done (kWayMerge).               *)
ScanExact ==
  /\ IsPrefix(out, Answer(filter, stored))
  /\ phase = "done" => out = Answer(filter, stored)
  /\ phase \in {"merge", "drain"} => \E c \in DOMAIN request : request[c] # "none"

(* The stores answer a filter alike, with chunks of values, tag names that  *)
(* are not indexed and limits pushed down to each statement.                *)
StoresAnswerAlike ==
  phase = "done" => /\ MemoryQuery(filter, stored) = out
                    /\ SqlQuery(filter, stored) = out

(* Both: the stores give one answer, however the cursors of one interleave.  *)
QueriesExact == ScanExact /\ StoresAnswerAlike

=============================================================================
