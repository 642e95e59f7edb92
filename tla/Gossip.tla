-------------------------------- MODULE Gossip --------------------------------
(* The routing table of NIP-65 and NIP-17 relay lists (gossip/gossip.ts),    *)
(* and what is made of it: routed filters, and the authors asked per outbox  *)
(* relay (loaders/outbox.ts).  A list is an event of kind 10002 ("relays")   *)
(* or 10050 ("dm") whose tags name URLs, malformed ones left out.            *)
EXTENDS Integers, FiniteSets, Sequences, SeqFilter

CONSTANTS
  Lists,        \* the lists: [author, kind, at, id, tags]; a tag is [url, marker]
  Authors, Discovery, Preferred,   \* Discovery: the relays asked without routes
  MaxRelays, MaxPubkeys, MaxAsked  \* maxRelaysPerPubkey, maxPubkeys, maxRelaysPerAuthor

VARIABLES
  routes,    \* of the pubkeys tracked
  recency,   \* their order in the map, least recently used first
  heard      \* history: the lists ingested while their pubkey was tracked

gossipVars == <<routes, recency, heard>>

NoList == [at |-> 0, id |-> 0]
EmptyRoutes == [write |-> <<>>, read |-> <<>>, dm |-> <<>>, relayList |-> NoList, dmList |-> NoList]
Tracked == DOMAIN routes
Urls(tags) == [i \in DOMAIN tags |-> tags[i].url]
First(seq, n) == SubSeq(seq, 1, IF Len(seq) < n THEN Len(seq) ELSE n)

-----------------------------------------------------------------------------
\* parseRelayList() and parseDmRelayList(): of the tags of one URL the first is
\* kept, with its marker.
Items(tags) ==
  LET IsFirst(i) == \A j \in 1..(i - 1) : tags[j].url # tags[i].url
      firsts == Only([i \in DOMAIN tags |-> i], {i \in DOMAIN tags : IsFirst(i)})
  IN [n \in DOMAIN firsts |-> tags[firsts[n]]]

Lookup(pubkey) == IF pubkey \in Tracked THEN routes[pubkey] ELSE EmptyRoutes

\* The staleness checks of setRoutes() and setDmRoutes().
\* Mutant: no tie-break between two lists of the same second.
Accepts_Latest(list, prev) == list.at >= prev.at
Accepts(list, prev) ==
  \/ list.at > prev.at
  \/ list.at = prev.at /\ (prev = NoList \/ list.id < prev.id)

RoutesFrom(list, prev) ==
  LET last == [at |-> list.at, id |-> list.id] IN
  IF list.kind = "dm"
  THEN [prev EXCEPT !.dm = First(Urls(Items(list.tags)), MaxRelays), !.dmList = last]
  ELSE LET items == Items(list.tags)
           Side(other) == Only(items, {tag \in ToSet(items) : tag.marker # other})
       IN [prev EXCEPT !.write = First(Urls(Side("read")), MaxRelays),
                       !.read = First(Urls(Side("write")), MaxRelays), !.relayList = last]

\* #lookup() refreshes the recency; #put() trims the oldest.  A pubkey that is
\* looked up or set moves behind the others.
Others(pubkeys) == Only(recency, ToSet(recency) \ pubkeys)
Touched(pubkey) == Others({pubkey}) \o (IF pubkey \in Tracked THEN <<pubkey>> ELSE <<>>)

\* ingest()
Ingest(list) ==
  LET prev == Lookup(list.author)
      last == IF list.kind = "dm" THEN prev.dmList ELSE prev.relayList
  IN IF Accepts(list, last)
     THEN LET order == Append(Others({list.author}), list.author)
              kept  == IF Len(order) > MaxPubkeys THEN Tail(order) ELSE order
          IN /\ recency' = kept
             /\ routes' = [p \in ToSet(kept) |->
                             IF p = list.author THEN RoutesFrom(list, prev) ELSE routes[p]]
             /\ heard' = {l \in heard \cup {list} : l.author \in ToSet(kept)}
     ELSE /\ recency' = Touched(list.author)
          /\ heard' = heard \cup {list}
          /\ UNCHANGED routes

\* getRoutes(), outboxRelays(), inboxRelays(), dmRelays() and, for each pubkey of
\* a filter, route().
Read(pubkey) ==
  /\ pubkey \in Tracked
  /\ recency' = Touched(pubkey)
  /\ UNCHANGED <<routes, heard>>

\* clear()
Clear(pubkeys) ==
  /\ routes' = [p \in Tracked \ pubkeys |-> routes[p]]
  /\ recency' = Others(pubkeys)
  /\ heard' = {l \in heard : l.author \notin pubkeys}

Init == routes = <<>> /\ recency = <<>> /\ heard = {}

Next == \/ \E list \in Lists : Ingest(list)
        \/ \E p \in Authors : Read(p) \/ Clear({p})
        \/ Clear(Authors)

Spec == Init /\ [][Next]_gossipVars

-----------------------------------------------------------------------------
(* route(): the parts of a filter by relay, and its remainder.  A filter is  *)
(* [authors, tagged], {} standing for a field that is not there.             *)
NoFilter == [authors |-> {}, tagged |-> {}]
RouteFilters == [authors : SUBSET Authors, tagged : SUBSET Authors]

\* #breakAuthors(): the pubkeys in a field of the filter, each at its own urls.
Broken(filter, field, urls) ==
  LET pubkeys == filter[field]
      routed == {p \in pubkeys : urls[p] # <<>>}
      Narrow(ps) == [filter EXCEPT ![field] = ps]
  IN IF routed = {} THEN [perRelay |-> <<>>, remainder |-> filter]
     ELSE [perRelay |-> [url \in UNION {ToSet(urls[p]) : p \in routed} |->
                           Narrow({p \in routed : url \in ToSet(urls[p])})],
           remainder |-> IF routed = pubkeys THEN NoFilter ELSE Narrow(pubkeys \ routed)]

Route(filter) ==
  LET outbox == [p \in Authors |-> Lookup(p).write]
      inbox  == [p \in Authors |-> Lookup(p).read]
      both   == filter.authors \cup filter.tagged
      relays == UNION {ToSet(outbox[p] \o inbox[p]) : p \in both}
  IN CASE both = {} -> [perRelay |-> <<>>, remainder |-> filter]
       [] filter.authors # {} /\ filter.tagged = {} -> Broken(filter, "authors", outbox)
       [] filter.authors = {} /\ filter.tagged # {} -> Broken(filter, "tagged", inbox)
       [] OTHER ->
            [perRelay |-> [url \in relays |-> filter],
             remainder |-> IF \E p \in both : outbox[p] \o inbox[p] = <<>> THEN filter ELSE NoFilter]

\* groupAuthorsByOutboxRelay(): what an author without routes has left of the
\* remainder is asked at the discovery relays, preferred ones first.
AskedAt(author, authors) ==
  LET left == Route([authors |-> authors, tagged |-> {}]).remainder.authors
      urls == IF author \in left THEN Discovery ELSE Lookup(author).write
  IN ToSet(First(Only(urls, Preferred) \o Only(urls, ToSet(urls) \ Preferred), MaxAsked))

-----------------------------------------------------------------------------
(* The routes of a tracked pubkey are those of the winner (NIP-01) among the *)
(* lists it sent since it is tracked, whatever order they came in.           *)
Winner(p, kind) ==
  LET ls == {l \in heard : l.author = p /\ l.kind = kind}
      Wins(l) == \A o \in ls : o.at < l.at \/ (o.at = l.at /\ l.id <= o.id)
  IN IF ls = {} THEN [kind |-> kind, at |-> 0, id |-> 0, tags |-> <<>>] ELSE CHOOSE l \in ls : Wins(l)

RoutesOfWinner ==
  \A p \in Tracked :
    routes[p] = RoutesFrom(Winner(p, "relays"), RoutesFrom(Winner(p, "dm"), EmptyRoutes))

(* A routed filter asks for everything its whole asks for, exactly where it  *)
(* has to: each author at each of its outbox relays, each tagged pubkey at   *)
(* its inbox relays, and whoever has none in the remainder; and an outbox    *)
(* feed asks for every author somewhere, at its own relays if it has any.    *)
RouteCovers ==
  /\ \A filter \in RouteFilters :
       LET r == Route(filter)
           whole == filter.authors # {} /\ filter.tagged # {}
           Part(url) == IF url \in DOMAIN r.perRelay THEN r.perRelay[url] ELSE NoFilter
       IN /\ \A p \in filter.authors : \A url \in ToSet(Lookup(p).write) : p \in Part(url).authors
          /\ \A p \in filter.tagged : \A url \in ToSet(Lookup(p).read) : p \in Part(url).tagged
          /\ \A p \in filter.authors :
               Lookup(p).write = <<>> => p \in r.remainder.authors \/ (whole /\ Lookup(p).read # <<>>)
          /\ \A p \in filter.tagged :
               Lookup(p).read = <<>> => p \in r.remainder.tagged \/ (whole /\ Lookup(p).write # <<>>)
          /\ \A url \in DOMAIN r.perRelay :
               \/ whole /\ r.perRelay[url] = filter
               \/ \A p \in r.perRelay[url].authors : url \in ToSet(Lookup(p).write)
  /\ \A authors \in SUBSET Authors : \A p \in authors :
       /\ AskedAt(p, authors) # {} /\ Cardinality(AskedAt(p, authors)) <= MaxAsked
       /\ AskedAt(p, authors) \subseteq
            IF Lookup(p).write = <<>> THEN ToSet(Discovery) ELSE ToSet(Lookup(p).write)

(* Both: the right routes, and nothing lost in using them.                   *)
RoutesRight == RoutesOfWinner /\ RouteCovers

=============================================================================
