-------------------------- MODULE RelaySubscriptions --------------------------
(***************************************************************************)
(* The REQ subscriptions of one relay connection: SubscriptionRegistry of  *)
(* src/relay/subscription-registry.ts and Subscription of                  *)
(* src/relay/subscription.ts, with the dispatch of EVENT, EOSE and CLOSED  *)
(* in src/relay/relay.ts, over a connection that breaks and comes back     *)
(* (RelayConnection says when) and a relay that keeps to NIP-01.           *)
(*                                                                         *)
(* All subscribers ask for one filter: groups of other filters are         *)
(* independent.  A REQ is named after the handle that opened it, so a      *)
(* one-shot subscription and its REQ share a name, and a live group is     *)
(* named after its first handle.  Subscription ids are fresh, so whatever  *)
(* is in flight for a REQ that was closed is ignored, and the channels     *)
(* need no state: the relay has sent an event when it arrives.             *)
(***************************************************************************)
EXTENDS Integers, FiniteSets, Sequences

CONSTANTS
  Handles,      \* subscribers, each subscribing at most once
  Events,       \* event ids
  Valid,        \* the events that match the filter and verify
  At,           \* created_at of every event
  Known,        \* pairs <<h, e>> for which alreadyHaveEvent says true
  LastSecond,   \* bound on the wall clock
  Nobody        \* JavaScript's undefined

ASSUME ValidAssumption == Valid \subseteq Events /\ At \in [Events -> Nat \ {0}]
ASSUME KnownAssumption == Known \subseteq Handles \X Events
ASSUME ClockAssumption == LastSecond \in Nat \ {0}
ASSUME NobodyAssumption == Nobody \notin Handles

VARIABLES
  conn,        \* the relay is open
  now,         \* wall clock, in seconds
  kind,        \* closeOnEose of each handle: live or one-shot; "new" before subscribe()
  open,        \* handles that are not closed
  wire,        \* the REQ each handle is attached to
  subs,        \* #subs: registered REQs (those of live groups are also #liveBySubId)
  joinable,    \* #liveByFp: the live group of the filter, or Nobody
  wireEosed,   \* REQs with #eosed set
  eosed,       \* handles with #eosed set
  timer,       \* handles whose EOSE timer is armed
  authRetried, \* REQs with #authRetried set
  awaiting,    \* REQs in authRetry(), begun on this connection ...
  stale,       \* ... or on an earlier one
  last,        \* #lastCreatedAt of each REQ, 0 for undefined
  ids,         \* #idsAtWatermark of each REQ
  store,       \* the events the relay holds
  req,         \* the REQs the relay holds open
  since,       \* their since
  stored,      \* stored events the relay has still to send
  live,        \* new events the relay has still to send, in the order they came
  count,       \* history: how often each handle was handed each event, up to 2
  before,      \* history: what the relay held when the handle subscribed
  fresh,       \* history: events that were not backdated when published
  ahead,       \* history: events published before their created_at
  cut,         \* history: events at risk in each REQ, in flight when it was cut
  relayEosed,  \* history: handles whose oneose was due to the relay's EOSE
  spanned,     \* history: REQs with an authRetry() that outlived its connection
  stranded,    \* history: live handles opened while closeAll() was running
  bornClosed   \* history: one-shot subscriptions whose signal was already aborted

retryVars == <<awaiting, stale, spanned>>
remoteVars == <<req, since, stored, live, cut>>
handleVars == <<kind, open, wire, eosed, timer>>
wireVars == <<subs, joinable, wireEosed, authRetried, retryVars, last, ids>>
histVars == <<count, before, fresh, ahead, relayEosed, stranded, bornClosed>>
vars == <<conn, now, store, remoteVars, handleVars, wireVars, histVars>>

TypeOK ==
  /\ conn \in BOOLEAN
  /\ now \in 1..LastSecond
  /\ kind \in [Handles -> {"new", "live", "oneshot"}]
  /\ open \subseteq {h \in Handles : kind[h] # "new"}
  /\ wire \in [Handles -> Handles \cup {Nobody}]
  /\ subs \subseteq Handles
  /\ joinable \in Handles \cup {Nobody}
  /\ wireEosed \subseteq Handles /\ eosed \subseteq Handles
  /\ timer \subseteq open
  /\ authRetried \subseteq Handles
  /\ awaiting \subseteq Handles /\ stale \subseteq Handles
  /\ last \in [Handles -> 0..LastSecond]
  /\ ids \in [Handles -> SUBSET Valid]
  /\ store \subseteq Valid
  /\ req \subseteq Handles
  /\ since \in [Handles -> 0..LastSecond]
  /\ stored \in [Handles -> SUBSET Valid] /\ live \in [Handles -> Seq(Valid)]
  /\ count \in [Handles -> [Events -> 0..2]]
  /\ before \in [Handles -> SUBSET Valid]
  /\ fresh \subseteq store /\ ahead \subseteq store
  /\ cut \in [Handles -> SUBSET Valid]
  /\ relayEosed \subseteq Handles /\ stale \subseteq spanned /\ spanned \subseteq Handles
  /\ stranded \subseteq Handles /\ bornClosed \subseteq Handles

Init ==
  /\ conn \in BOOLEAN
  /\ now = 1
  /\ kind = [h \in Handles |-> "new"]
  /\ open = {}
  /\ wire = [h \in Handles |-> Nobody]
  /\ subs = {}
  /\ joinable = Nobody
  /\ wireEosed = {} /\ eosed = {} /\ timer = {}
  /\ authRetried = {} /\ awaiting = {} /\ stale = {}
  /\ last = [h \in Handles |-> 0]
  /\ ids = [h \in Handles |-> {}]
  /\ store \in SUBSET {e \in Valid : At[e] = 1}
  /\ req = {}
  /\ since = [h \in Handles |-> 0]
  /\ stored = [h \in Handles |-> {}] /\ live = [h \in Handles |-> <<>>]
  /\ count = [h \in Handles |-> [e \in Events |-> 0]]
  /\ before = [h \in Handles |-> {}]
  /\ cut = [h \in Handles |-> {}]
  /\ fresh = {} /\ ahead = {} /\ relayEosed = {}
  /\ spanned = {} /\ stranded = {} /\ bornClosed = {}

Attached(w) == {h \in open : wire[h] = w}

\* Registered REQs whose Subscription is not closed.
OpenWires == {w \in subs : Attached(w) # {}}

-----------------------------------------------------------------------------
(* The relay's side: what it holds after a REQ or a CLOSE.                  *)

ToSet(s) == {s[i] : i \in DOMAIN s}

\* replayFilters(): `since` is the watermark, inclusive.
ReplaySince_Exclusive(w) == IF last[w] = 0 THEN 0 ELSE last[w] + 1

ReplaySince(w) == last[w]

\* The relay holds exactly the REQs W, those in New being new or sent again.
RelayHolds(W, New) ==
  /\ req' = W
  /\ since' = [w \in Handles |-> IF w \in New THEN ReplaySince(w)
                                 ELSE IF w \in W THEN since[w] ELSE 0]
  /\ stored' = [w \in Handles |-> IF w \in New THEN {e \in store : At[e] >= since'[w]}
                                  ELSE IF w \in W THEN stored[w] ELSE {}]
  /\ live' = [w \in Handles |-> IF w \in W \ New THEN live[w] ELSE <<>>]
  /\ cut' = [w \in Handles |->
       IF w \in W \ New THEN cut[w]
       ELSE cut[w] \cup stored[w] \cup (IF ahead = {} THEN {} ELSE ToSet(live[w]))]

-----------------------------------------------------------------------------
(* Pieces of the registry.                                                 *)

\* Remove the REQs W from the three maps.
Unlink(W) ==
  /\ subs' = subs \ W
  /\ joinable' = IF joinable \in W THEN Nobody ELSE joinable

\* Subscription.close() of the handles C: a REQ that loses its last handle is
\* unlinked and a CLOSE goes out if the relay is open.
CloseHandles_KeepTimer(C) ==
  LET emptied == {w \in OpenWires : Attached(w) \subseteq C}
  IN /\ open' = open \ C
     /\ UNCHANGED timer
     /\ Unlink(emptied)
     /\ RelayHolds(req \ emptied, {})

CloseHandles_NoClose(C) ==
  LET emptied == {w \in OpenWires : Attached(w) \subseteq C}
  IN /\ open' = open \ C
     /\ timer' = timer \ C
     /\ Unlink(emptied)
     /\ UNCHANGED remoteVars

CloseHandles(C) ==
  LET emptied == {w \in OpenWires : Attached(w) \subseteq C}
  IN /\ open' = open \ C
     /\ timer' = timer \ C
     /\ Unlink(emptied)
     /\ RelayHolds(req \ emptied, {})

\* drop(): unlink the REQ and close its handles; no CLOSE is sent.
Drop_KeepHandles(w) ==
  /\ Unlink({w})
  /\ UNCHANGED <<open, timer>>

Drop(w) ==
  /\ open' = open \ Attached(w)
  /\ timer' = timer \ Attached(w)
  /\ Unlink({w})

\* rearm() of the REQs W and of their handles.
Rearm(W) ==
  /\ wireEosed' = wireEosed \ W
  /\ eosed' = eosed \ {h \in open : wire[h] \in W}

\* noteVerified(): the watermark advances to created_at, clamped to the clock.
NoteVerified(w, e) ==
  LET ts == IF At[e] < now THEN At[e] ELSE now
  IN /\ last' = [last EXCEPT ![w] = IF ts > @ THEN ts ELSE @]
     /\ ids' = [ids EXCEPT ![w] = IF ts > last[w] THEN {e}
                                  ELSE IF ts = last[w] THEN @ \cup {e} ELSE @]

\* isAtWatermark().
AtWatermark_Never(w, e) == FALSE

AtWatermark(w, e) == e \in ids[w]

-----------------------------------------------------------------------------
(* Application calls.                                                      *)

\* The REQ of a new subscription, registered before it is sent.  send() may throw:
\* the subscription stays registered although subscribe() throws.
OpenReq(h) ==
  /\ subs' = subs \cup {h}
  /\ IF conn
     THEN \/ RelayHolds(req \cup {h}, {h})
          \/ UNCHANGED remoteVars
     ELSE UNCHANGED remoteVars

\* #openLive() coalesces only into a group whose REQ has not EOSE'd.
Joinable == joinable # Nobody /\ joinable \notin wireEosed

\* subscribe(), with or without eoseTimeoutMs.
Subscribe(h, k, t) ==
  /\ kind[h] = "new"
  /\ kind' = [kind EXCEPT ![h] = k]
  /\ open' = open \cup {h}
  /\ timer' = IF t THEN timer \cup {h} ELSE timer
  /\ before' = [before EXCEPT ![h] = store]
  /\ IF k = "live" /\ Joinable
     THEN /\ wire' = [wire EXCEPT ![h] = joinable]
          /\ UNCHANGED <<subs, joinable, remoteVars>>
     ELSE /\ wire' = [wire EXCEPT ![h] = h]
          /\ joinable' = IF k = "live" THEN h ELSE joinable
          /\ OpenReq(h)
  /\ UNCHANGED <<conn, now, store, eosed, wireEosed, authRetried, retryVars, last, ids,
                 count, fresh, ahead, relayEosed, stranded, bornClosed>>

\* subscribe() with a signal that is already aborted: the constructor closes the
\* handle.  A live group made for it is forgotten again; a one-shot one is
\* registered and its REQ is sent all the same.
SubscribeAborted(h, k) ==
  /\ kind[h] = "new"
  /\ kind' = [kind EXCEPT ![h] = k]
  /\ wire' = [wire EXCEPT ![h] = h]
  /\ IF k = "live"
     THEN /\ joinable' = IF Joinable THEN joinable ELSE Nobody
          /\ UNCHANGED <<subs, remoteVars, bornClosed>>
     ELSE /\ OpenReq(h)
          /\ bornClosed' = bornClosed \cup {h}
          /\ UNCHANGED joinable
  /\ UNCHANGED <<conn, now, store, open, eosed, timer, wireEosed, authRetried, retryVars,
                 last, ids, count, before, fresh, ahead, relayEosed, stranded>>

\* close() of a handle, or its abort signal.
Close(h) ==
  /\ h \in open
  /\ CloseHandles({h})
  /\ UNCHANGED <<conn, now, store, kind, wire, eosed, wireEosed, authRetried, retryVars,
                 last, ids, histVars>>

\* The retries go on; they find out about the connection when they settle.
OutliveConnection ==
  /\ stale' = stale \cup awaiting
  /\ awaiting' = {}
  /\ spanned' = spanned \cup awaiting

\* closeAll(), by close() or by a socket death without reconnect.
CloseAll ==
  /\ subs # {}
  /\ conn' = FALSE
  /\ open' = stranded \cap open
  /\ timer' = timer \cap stranded
  /\ Unlink(subs)
  /\ joinable' = Nobody
  /\ RelayHolds({}, {})
  /\ OutliveConnection
  /\ UNCHANGED <<now, store, kind, wire, eosed, wireEosed, authRetried, last, ids, histVars>>

\* closeAll(), when an onclose callback opens a live subscription that joins no
\* group: its REQ is ended and the maps are cleared, its handle is not closed.
CloseAllReopened(h) ==
  /\ open # {} /\ kind[h] = "new"
  /\ kind' = [kind EXCEPT ![h] = "live"]
  /\ wire' = [wire EXCEPT ![h] = h]
  /\ conn' = FALSE
  /\ open' = (stranded \cap open) \cup {h}
  /\ timer' = timer \cap stranded
  /\ subs' = {}
  /\ joinable' = Nobody
  /\ RelayHolds({}, {})
  /\ OutliveConnection
  /\ stranded' = stranded \cup {h}
  /\ UNCHANGED <<now, store, eosed, wireEosed, authRetried, last, ids,
                 count, before, fresh, ahead, relayEosed, bornClosed>>

-----------------------------------------------------------------------------
(* The connection.                                                         *)

\* The socket dies and the relay will reconnect: the registry is kept.
SocketDies ==
  /\ conn
  /\ conn' = FALSE
  /\ RelayHolds({}, {})
  /\ OutliveConnection
  /\ UNCHANGED <<now, store, handleVars, subs, joinable, wireEosed, authRetried, last, ids, histVars>>

\* replayAll() of a new connection.
Reconnect ==
  /\ ~conn
  /\ conn' = TRUE
  /\ Rearm(OpenWires)
  /\ authRetried' = authRetried \ OpenWires
  /\ RelayHolds(OpenWires, OpenWires)
  /\ UNCHANGED <<now, store, kind, open, wire, timer, subs, joinable, retryVars, last, ids, histVars>>

\* replayAll() when a send throws: some REQs are rearmed, the socket is given up.
ReconnectFails ==
  /\ ~conn
  /\ \E W \in SUBSET OpenWires \ {{}} :
       Rearm(W) /\ authRetried' = authRetried \ W
  /\ UNCHANGED <<conn, now, store, remoteVars, kind, open, wire, timer, subs, joinable,
                 retryVars, last, ids, histVars>>

-----------------------------------------------------------------------------
(* Messages from the relay.                                                *)

\* handleEvent(): the handles that are given e, if it passes every check.
Recipients(w, e) ==
  IF AtWatermark(w, e) \/ e \notin Valid THEN {}
  ELSE {h \in Attached(w) : <<h, e>> \notin Known}

RecvEvent(w, e) ==
  /\ w \in req
  /\ \/ /\ e \in stored[w]
        /\ stored' = [stored EXCEPT ![w] = @ \ {e}]
        /\ UNCHANGED live
     \/ /\ live[w] # <<>> /\ e = Head(live[w])
        /\ live' = [live EXCEPT ![w] = Tail(@)]
        /\ UNCHANGED stored
     \/ /\ e \in Events \ Valid
        /\ UNCHANGED <<stored, live>>
  /\ IF w \in subs /\ Recipients(w, e) # {}
     THEN /\ NoteVerified(w, e)
          /\ count' = [h \in Handles |-> IF h \in Recipients(w, e) /\ count[h][e] < 2
                                         THEN [count[h] EXCEPT ![e] = @ + 1] ELSE count[h]]
     ELSE UNCHANGED <<last, ids, count>>
  /\ UNCHANGED <<conn, now, store, req, since, cut, handleVars, subs, joinable, wireEosed, authRetried,
                 retryVars, before, fresh, ahead, relayEosed, stranded, bornClosed>>

\* EOSE, once the relay has sent what it had stored; a second one is ignored.
RecvEose(w) ==
  /\ w \in req /\ stored[w] = {}
  /\ w \in OpenWires /\ w \notin wireEosed
  /\ wireEosed' = wireEosed \cup {w}
  /\ eosed' = eosed \cup Attached(w)
  /\ relayEosed' = relayEosed \cup (Attached(w) \ eosed)
  /\ IF kind[w] = "oneshot"
     THEN CloseHandles({w})
     ELSE timer' = timer \ Attached(w) /\ UNCHANGED <<open, subs, joinable, remoteVars>>
  /\ UNCHANGED <<conn, now, store, kind, wire, authRetried, retryVars, last, ids,
                 count, before, fresh, ahead, stranded, bornClosed>>

\* CLOSED: drop the subscription, or try once to authenticate and ask again.
RecvClosed(w) ==
  /\ w \in req
  /\ RelayHolds(req \ {w}, {})
  /\ IF w \in subs THEN Drop(w) ELSE UNCHANGED <<open, timer, subs, joinable>>
  /\ UNCHANGED <<conn, now, store, kind, wire, eosed, wireEosed, authRetried, retryVars,
                 last, ids, histVars>>

RecvClosedAuthRequired(w) ==
  /\ w \in req /\ w \in subs /\ w \notin authRetried
  /\ RelayHolds(req \ {w}, {})
  /\ authRetried' = authRetried \cup {w}
  /\ awaiting' = awaiting \cup {w}
  /\ UNCHANGED <<conn, now, store, handleVars, subs, joinable, wireEosed, stale, spanned, last, ids, histVars>>

\* The EOSE timer of a handle: markEose().
EoseTimeout(h) ==
  /\ h \in timer
  /\ eosed' = eosed \cup {h}
  /\ IF kind[h] = "oneshot"
     THEN CloseHandles({h})
     ELSE timer' = timer \ {h} /\ UNCHANGED <<open, subs, joinable, remoteVars>>
  /\ UNCHANGED <<conn, now, store, kind, wire, wireEosed, authRetried, retryVars,
                 last, ids, histVars>>

\* ensureAuthed() settles and authRetry() goes on.
AuthSettles(w, ok) ==
  /\ \/ w \in awaiting /\ awaiting' = awaiting \ {w} /\ UNCHANGED stale
     \/ w \in stale /\ stale' = stale \ {w} /\ UNCHANGED awaiting
  /\ UNCHANGED spanned
  /\ IF ok /\ conn /\ w \in OpenWires
     THEN /\ Rearm({w})
          /\ RelayHolds(req \cup {w}, {w})
          /\ UNCHANGED <<open, timer, subs, joinable>>
     ELSE /\ Drop(w)
          /\ UNCHANGED <<eosed, wireEosed, remoteVars>>
  /\ UNCHANGED <<conn, now, store, kind, wire, authRetried, last, ids, histVars>>

-----------------------------------------------------------------------------
(* The world.                                                              *)

Publish(e) ==
  /\ e \in Valid \ store
  /\ store' = store \cup {e}
  /\ live' = [w \in Handles |-> IF w \in req /\ At[e] >= since[w] THEN Append(live[w], e) ELSE live[w]]
  /\ fresh' = IF At[e] >= now THEN fresh \cup {e} ELSE fresh
  /\ ahead' = IF At[e] > now THEN ahead \cup {e} ELSE ahead
  /\ UNCHANGED <<conn, now, req, since, stored, cut, handleVars, wireVars,
                 count, before, relayEosed, stranded, bornClosed>>

Tick ==
  /\ now < LastSecond
  /\ now' = now + 1
  /\ UNCHANGED <<conn, store, remoteVars, handleVars, wireVars, histVars>>

Next ==
  \/ \E h \in Handles :
       \/ \E k \in {"live", "oneshot"} :
            SubscribeAborted(h, k) \/ \E t \in BOOLEAN : Subscribe(h, k, t)
       \/ Close(h)
       \/ CloseAllReopened(h)
       \/ EoseTimeout(h)
       \/ RecvEose(h)
       \/ RecvClosed(h)
       \/ RecvClosedAuthRequired(h)
       \/ \E ok \in BOOLEAN : AuthSettles(h, ok)
       \/ \E e \in Events : RecvEvent(h, e)
  \/ \E e \in Events : Publish(e)
  \/ CloseAll
  \/ SocketDies
  \/ Reconnect
  \/ ReconnectFails
  \/ Tick

Spec == Init /\ [][Next]_vars

-----------------------------------------------------------------------------
(* Properties.                                                             *)

\* Every open handle belongs to a registered REQ, so that it can still be served
\* and closeAll() can still end it, and every registered REQ has an open handle,
\* so that it keeps no reconnect going for nobody.  The exceptions are live
\* handles opened inside closeAll() and one-shot ones born aborted.
RegistryOwnsHandles ==
  /\ \A h \in open \ stranded : wire[h] \in subs
  /\ subs \ OpenWires \subseteq bornClosed
  /\ joinable # Nobody => joinable \in subs /\ kind[joinable] = "live"
  /\ \A h \in open : kind[h] = "oneshot" => Attached(h) = {h}

\* A subscription that ends while the connection stays up is also ended at the
\* relay, by its own CLOSED or by a CLOSE: the relay does not go on sending to
\* nobody.  The exception is a REQ with an AUTH retry that outlived a connection.
NoReqLeaks ==
  [][\A w \in subs \ (subs' \cup spanned) : conn' => w \notin req']_vars

\* Reconnecting loses no new event: whatever is published with a current
\* created_at after a handle subscribed was handed to it, or is still to come on
\* the open REQ, or lies within the `since` of the REQ that will be sent again.
\* The exception is cut: stored events that were in flight when the REQ was cut
\* (the relay need not send them oldest first), and live ones behind an event
\* from a clock that runs ahead.
NoFreshEventLost ==
  \A h \in open \ stranded : \A e \in fresh \ (before[h] \cup cut[wire[h]]) :
    LET w == wire[h]
    IN \/ count[h][e] > 0 \/ <<h, e>> \in Known
       \/ e \in stored[w] \cup ToSet(live[w])
       \/ w \notin req /\ At[e] >= last[w]

\* Same-second dedup: an event is handed to a handle a second time only if the
\* watermark has moved past the `since` the REQ was replayed with, or if some event
\* was dated ahead; the inclusive `since` alone never redelivers.
RepeatsOnlyBehindWatermark ==
  [][\A h \in Handles, e \in Events :
       count[h][e] > 0 /\ count'[h][e] > count[h][e] /\ ahead = {} => last[wire[h]] > since[wire[h]]]_vars

\* src/relay/subscription.ts says of the reconnect watermark that the worst case is
\* re-delivery, never event loss: what the relay held when the first handle of a
\* REQ subscribed is handed to it or still to come, at least while nothing new is
\* published and the REQ is replayed by reconnects alone.
NeverEventLoss ==
  \A h \in open \ stranded : h \in req \ authRetried /\ store = before[h] =>
    \A e \in before[h] : count[h][e] > 0 \/ <<h, e>> \in Known \/ e \in stored[h]

\* src/relay/subscription-registry.ts says a late subscriber does not join a REQ
\* where it would see an empty EOSE and no replay: when the relay's EOSE has reached
\* a live handle, the events the relay held when it subscribed have reached it too,
\* or are on their way on its REQ.
LateSubscriberSeesStored ==
  \A h \in relayEosed \cap open :
    LET w == wire[h]
    IN w # h /\ w \in req =>
         \A e \in before[h] : \/ count[h][e] > 0 \/ <<h, e>> \in Known
                              \/ e \in stored[w] \cup ToSet(live[w])

\* src/relay/relay.ts says a subscription survives reconnect: a REQ that was sent
\* again on the new connection, and that the relay serves, is not ended locally.
SurvivesReconnect ==
  [][\A w \in subs \ subs' : conn' => w \notin req']_vars

=============================================================================
