---------------------------- MODULE MCClientParts ----------------------------
(* TLC instances of the client's self-contained parts: the fan-in over       *)
(* relays, a NIP-77 sync, the remote signer, the replaceable loader, one     *)
(* query of the three stores and the routing table.  They share nothing, so  *)
(* a behaviour is that of one of them, named by `mode`.                      *)
EXTENDS Integers, FiniteSets, SequencesExt

CONSTANTS
  Modes,
  Entries,
  LastItem, Buckets, Threshold, ClientLimit, RelayLimit, MaxRounds, BatchSize, Refused,
  Requests, Switches, HandshakeSwitch, HandshakeAsk,
  Calls, Keys, MaxBatch, MaxClears, LastVersion, NoCall, NoKey,
  Contents, Filters, Absent, MaxCursors, Chunk,
  Lists, Pubkeys, Discovery, Preferred, MaxRelays, MaxPubkeys, MaxAsked,
  A, B, C

VARIABLES
  mode,
  entry, closed, eoseFired, sawEose, eoseDone, pendingEose, pending, eoseTimer, byTimer, endedItself,
  local, remote, mine, theirs, direction, stage, wire, round, have, need, todo, received, failed,
  missed,
  call, answer, listeners, timers, sub, open, wasClosed, lateSwitch, handshake, outcome,
  keyOf, loads, promise, awaits, waiting, scheduled, ticks, inflight, fetches, onRelays, index,
  record, found, denied, clears,
  filter, stored, phase, second, buffer, head, request, rest, out,
  routes, recency, heard

fanInVars == <<entry, closed, eoseFired, sawEose, eoseDone, pendingEose, pending, eoseTimer, byTimer,
               endedItself>>
syncVars == <<local, remote, mine, theirs, direction, stage, wire, round, have, need, todo,
              received, failed, missed>>
signerVars == <<call, answer, listeners, timers, sub, open, wasClosed, lateSwitch, handshake, outcome>>
loaderVars == <<keyOf, loads, promise, awaits, waiting, scheduled, ticks, inflight, fetches,
                onRelays, index, record, found, denied, clears>>
queryVars == <<filter, stored, phase, second, buffer, head, request, rest, out>>
gossipVars == <<routes, recency, heard>>
partVars == <<mode, fanInVars, syncVars, signerVars, loaderVars, queryVars, gossipVars>>

\* The requests of the handshake and of switchRelays() are requests.
ASSUME SignerAssumption ==
  HandshakeSwitch \in Requests /\ HandshakeAsk \in Requests /\ Switches \subseteq Requests

\* A call of fanIn() names finitely many URLs.
ASSUME FanInAssumption == IsFiniteSet(Entries)

\* No call is that of nobody.
ASSUME LoaderAssumption == NoCall \notin Calls

\* A relay list is an event: its id is its own.  Somewhere is asked for an author
\* without routes.
ASSUME GossipAssumption ==
  /\ \A l \in Lists : /\ l.author \in Pubkeys /\ l.kind \in {"relays", "dm"}
                      /\ l.at \in Nat /\ l.id \in Nat \ {0}
                      /\ l.tags \in Seq(ToSet(l.tags))
  /\ \A l, m \in Lists : l.id = m.id => l = m
  /\ Discovery \in Seq(ToSet(Discovery)) /\ Discovery # <<>>
  /\ MaxRelays \in Nat /\ MaxPubkeys \in Nat /\ MaxAsked \in Nat \ {0}

\* BUCKETS is 16 and ID_LIST_THRESHOLD twice that.
ASSUME SyncAssumption ==
  /\ LastItem \in Nat /\ ClientLimit \in Nat /\ BatchSize \in Nat \ {0}
  /\ Buckets \in Nat \ {0} /\ Threshold \in Nat /\ Threshold >= Buckets

\* A store holds finitely many events, each with an id of its own; the lists of a
\* filter are finite.
ASSUME QueriesAssumption ==
  /\ \A evs \in Contents :
       /\ IsFiniteSet(evs) /\ Absent \notin evs
       /\ \A x \in evs : x.id \in Nat /\ x.at \in Nat
       /\ \A x, y \in evs : x.id = y.id => x = y
  /\ \A f \in Filters :
       /\ {f.limit, f.since, f.until} \subseteq Nat \cup {Absent}
       /\ \A set \in {f.ids, f.by, f.kinds} :
            set # Absent => IsFiniteSet(set) /\ \A part \in SUBSET set : part # Absent
       /\ \A n \in DOMAIN f.tags : IsFiniteSet(f.tags[n])
  /\ Absent \notin Nat /\ Chunk \in Nat \ {0}

\* Every key is of the same address: keys differ in their hints.
AddressOf == [k \in Keys |-> "address"]

F == INSTANCE FanIn
N == INSTANCE NegSync
S == INSTANCE Nip46
L == INSTANCE Loaders
Q == INSTANCE EventQueries WITH Nothing <- Absent
G == INSTANCE Gossip WITH Authors <- Pubkeys

-----------------------------------------------------------------------------
\* Queries: five events in two seconds, and filters whose lists are below and
\* above the cap on cursors and the chunk size.
Ev(id, by, kind, at, tags) == [id |-> id, by |-> by, kind |-> kind, at |-> at, tags |-> tags]
MCStored == SUBSET
  {Ev(1, A, 1, 1, {<<"e", 1>>}), Ev(2, A, 1, 2, {<<"e", 1>>, <<"p", 1>>}),
   Ev(3, B, 1, 2, {<<"p", 1>>, <<"ext", 1>>}), Ev(4, B, 2, 2, {<<"e", 2>>, <<"ext", 1>>}),
   Ev(5, A, 2, 1, {<<"p", 1>>, <<"t", 1>>})}

Tags(n, vs) == [x \in {n} |-> vs]
MCTags == {<<>>, Tags("e", {1}), Tags("e", {1, 2}), Tags("t", {1}), Tags("ext", {1}),
           [x \in {"e", "p"} |-> {1}], Tags("e", {1, 2, 3})}
MCFilters ==
  [ids : {Absent}, by : {Absent, {A}, {A, B}}, kinds : {Absent, {1}, {1, 2, 3}},
   tags : MCTags, since : {Absent, 2}, until : {Absent, 1}, limit : {Absent, 0, 2}]
  \cup [ids : {{}, {1, 3, 4}}, by : {Absent, {A}}, kinds : {Absent, {1}}, tags : MCTags,
        since : {Absent}, until : {Absent}, limit : {Absent, 2}]

\* Routes: three lists of A, two of them of one second, one of them empty; DM
\* lists of one second by B; room for two pubkeys and two relays of each.
List(author, kind, at, id, tags) ==
  [author |-> author, kind |-> kind, at |-> at, id |-> id, tags |-> tags]
Tag(url, marker) == [url |-> url, marker |-> marker]
MCLists ==
  {List(A, "relays", 1, 1, <<Tag(1, "both"), Tag(2, "write"), Tag(3, "write")>>),
   List(A, "relays", 2, 2, <<Tag(2, "read"), Tag(2, "write"), Tag(1, "write")>>),
   List(A, "relays", 2, 3, <<>>),
   List(A, "dm", 2, 4, <<Tag(3, "both"), Tag(3, "both")>>),
   List(B, "relays", 1, 5, <<Tag(2, "read"), Tag(3, "both")>>),
   List(B, "dm", 1, 6, <<Tag(1, "both")>>), List(B, "dm", 1, 7, <<Tag(2, "both")>>),
   List(C, "relays", 1, 8, <<Tag(1, "write")>>)}
MCDiscovery == <<4, 2>>

-----------------------------------------------------------------------------
\* What is not looked at starts in one of its initial states.
NoFilter == [ids |-> {}, by |-> Absent, kinds |-> Absent, tags |-> <<>>, since |-> Absent,
             until |-> Absent, limit |-> Absent]
Init == /\ mode \in Modes
        /\ F!Init /\ (mode = "fan-in" \/ F!Wanted = {})
        /\ N!Init /\ (mode = "sync" \/ (local = {} /\ remote = {} /\ direction = "down"))
        /\ S!Init /\ (mode = "signer" \/ handshake = "none")
        /\ L!Init /\ G!Init
        /\ (mode = "query" \/ (filter = NoFilter /\ stored = {})) /\ Q!Init

Next ==
  \/ mode = "fan-in" /\ F!Next
     /\ UNCHANGED <<mode, syncVars, signerVars, loaderVars, queryVars, gossipVars>>
  \/ mode = "sync" /\ N!Next
     /\ UNCHANGED <<mode, fanInVars, signerVars, loaderVars, queryVars, gossipVars>>
  \/ mode = "signer" /\ S!Next
     /\ UNCHANGED <<mode, fanInVars, syncVars, loaderVars, queryVars, gossipVars>>
  \/ mode = "loads" /\ L!Next
     /\ UNCHANGED <<mode, fanInVars, syncVars, signerVars, queryVars, gossipVars>>
  \/ mode = "query" /\ Q!Next
     /\ UNCHANGED <<mode, fanInVars, syncVars, signerVars, loaderVars, gossipVars>>
  \/ mode = "routes" /\ G!Next
     /\ UNCHANGED <<mode, fanInVars, syncVars, signerVars, loaderVars, queryVars>>

\* The fairness of Nip46 and of Loaders, each in its mode.
Fairness ==
  /\ \A r \in Requests : /\ WF_signerVars(mode = "signer" /\ S!Publish(r))
                         /\ WF_signerVars(mode = "signer" /\ S!Timeout(r))
                         /\ WF_signerVars(mode = "signer" /\ S!Return(r))
  /\ WF_loaderVars(mode = "loads" /\ L!Tick)
  /\ WF_loaderVars(mode = "loads" /\ \E batch \in fetches : L!Fetched(batch) \/ L!FetchFails(batch))
  /\ WF_loaderVars(mode = "loads" /\ \E c \in Calls : L!Settle(c))

Spec == Init /\ [][Next]_partVars /\ Fairness

-----------------------------------------------------------------------------
(* A fan-in is open exactly while an entry may deliver, and calls oneose     *)
(* when it has to (fan-in.ts:116).                                           *)
FanInCounts == mode = "fan-in" => F!FanInCounts

(* A NIP-77 session finds the exact difference of the two sides, and the     *)
(* sync then moves it or reports what it could not (client/sync.ts).         *)
SyncExact == mode = "sync" => N!SyncExact

(* A session that converges has found the exact difference ("Event ids the   *)
(* peer holds that the local side does not.", nip77.ts:40).                  *)
ReconcileExact == mode = "sync" => N!ReconcileExact

(* Every listener of the remote signer has its one timer, and a signer that  *)
(* was closed stays closed (nip46.ts, #sendRequest, close()).                *)
SignerSound == mode = "signer" => S!SignerSound

(* A handshake that failed leaves no signer subscribed ("Do not leak the     *)
(* signer's subscription on a shared pool.", nip46.ts:358).                  *)
NoLeakedSigner == mode = "signer" => S!NoLeakedSigner

(* Loads of one key share one request, and none is denied from memory an     *)
(* event that the last fetch found (dataloader.ts, replaceable.ts).          *)
LoadsShared == mode = "loads" => L!LoadsShared

(* The three stores give one answer to a filter, whatever the order in which *)
(* the cursors of IndexedDB call back (idb-query.ts).                        *)
QueriesExact == mode = "query" => Q!QueriesExact

(* The routes of a pubkey are those of its winning lists, and routing a      *)
(* filter or a feed leaves nobody out (gossip.ts, outbox.ts).                *)
RoutesRight == mode = "routes" => G!RoutesRight

(* Every request to the remote signer is settled (nip46.ts, #sendRequest).   *)
RequestsReturn == mode = "signer" => S!RequestsReturn

(* Every load() is settled (dataloader.ts).                                  *)
LoadsSettle == mode = "loads" => L!LoadsSettle
=============================================================================
