---------------------------- MODULE RelayPool_proofs ----------------------------
(***************************************************************************)
(* Theorems about RelayPool, for every set of URLs, relays and callers,    *)
(* every cap and every policy.                                             *)
(***************************************************************************)
EXTENDS RelayPool, SequenceTheorems, TLAPS

USE NobodyAssumption, OptionsAssumption DEF relayVars, suspensionVars

\* The pooled relay of a suspended URL has been stopped, and a caller that is about
\* to use a relay that was stopped is not holding the pooled one: its fetch() then
\* does not bring a suspended relay back.
Halted ==
  /\ \A u \in Urls :
       suspended[u] \in 1..Cooldown /\ relays[u] # Nobody => status[relays[u]] = "stopped"
  /\ \A c \in Callers :
       caller[c].stage = "got" /\ status[caller[c].relay] = "stopped"
         => relays[url[caller[c].relay]] # caller[c].relay

Core == Typed /\ Linked /\ PoolOwnsSockets /\ Halted

\* The resume timers are apart: nothing above depends on them.
IInv == Core /\ Clocked

\* Every initial state satisfies the inductive invariant.
LEMMA InitInv == Init => IInv
<1> SUFFICES ASSUME Init PROVE IInv
  OBVIOUS
<1>1. Core
  BY DEF Init, Core, Typed, Linked, PoolOwnsSockets, Halted, Live, NoCall,
         Stages, Kinds, States, Calls
<1>2. Clocked
  BY DEF Init, Clocked
<1> QED
  BY <1>1, <1>2 DEF IInv

\* The call of one caller changes.
LEMMA OneCaller ==
  ASSUME caller \in [Callers -> Calls], NEW c \in Callers, NEW w \in Calls,
         caller' = [caller EXCEPT ![c] = w]
  PROVE  /\ caller' \in [Callers -> Calls]
         /\ caller'[c] = w
         /\ \A d \in Callers : d # c => caller'[d] = caller[d]
  OBVIOUS

\* The callers f are those of this state after the relays R have stopped: who waited
\* for one of them fails, and the others go on or are done.
Kept(f, R) ==
  /\ f \in [Callers -> Calls]
  /\ \A c \in Callers :
       /\ f[c].stage # "idle" =>
            caller[c].stage # "idle" /\ f[c].url = caller[c].url /\ f[c].relay = caller[c].relay
       /\ f[c].stage \notin {"idle", "attach"} => caller[c].stage \notin {"idle", "attach"}
       /\ f[c].stage = "await" => caller[c].stage = "await" /\ caller[c].relay \notin R
       /\ f[c].stage = "got" => caller[c].stage = "got"

\* When relays stop, callers stay callers.
LEMMA DroppedFacts == ASSUME Core, NEW R, NEW keep \in BOOLEAN PROVE Kept(Dropped(R, keep), R)
<1>1. \A c \in Callers : caller[c] \in Calls
  BY DEF Core, Typed
<1> QED
  BY <1>1 DEF Kept, Dropped, Waiters, NoCall, Stages, Kinds, Calls

\* Live, for other states and timers of the relays.
Alive(st, tm, r) == st[r] \in {"connecting", "open"} \/ (st[r] = "down" /\ r \in tm)

\* The pool rel, the states st and the timers tm are those of this state after the
\* URLs U were closed: every other live relay stays in its place.
Closed(rel, st, tm, U) ==
  /\ rel \in [Urls -> Relays \cup {Nobody}]
  /\ st \in [Relays -> States]
  /\ tm \subseteq timers
  /\ \A u \in Urls : rel[u] # Nobody => rel[u] = relays[u]
  /\ \A r \in Relays :
       /\ st[r] # status[r] => st[r] = "stopped" /\ url[r] \in Urls /\ rel[url[r]] = Nobody
       /\ r \notin ClosedRelays(U) => st[r] = status[r]
       /\ EnableReconnect /\ r \notin strays /\ Alive(st, tm, r) => rel[url[r]] = r

\* Closing the relays of some URLs leaves every other live relay in its place.
LEMMA CloseUrlsFacts ==
  ASSUME Core, NEW U \in SUBSET Urls
  PROVE  Closed(Forgotten(U), DownStatus(ClosedRelays(U)), timers \ ClosedRelays(U), U)
<1> DEFINE st == DownStatus(ClosedRelays(U))
<1> DEFINE tm == timers \ ClosedRelays(U)
<1> USE DEF Core, Typed, Linked
<1>1. \A r \in ClosedRelays(U) : r \in Relays /\ url[r] \in U /\ relays[url[r]] = r
  BY DEF ClosedRelays
<1>2. st = [r \in Relays |-> IF r \in ClosedRelays(U) THEN "stopped" ELSE status[r]]
  BY DEF DownStatus
<1>3. /\ Forgotten(U) \in [Urls -> Relays \cup {Nobody}]
      /\ \A u \in Urls : Forgotten(U)[u] # Nobody => Forgotten(U)[u] = relays[u]
      /\ \A u \in U : Forgotten(U)[u] = Nobody
      /\ \A u \in Urls \ U : Forgotten(U)[u] = relays[u]
  BY DEF Forgotten
<1>4. ASSUME NEW r \in Relays, Alive(st, tm, r), EnableReconnect, r \notin strays
      PROVE  Forgotten(U)[url[r]] = r
  <2>1. r \notin ClosedRelays(U) /\ Live(r)
    BY <1>2, <1>4 DEF Alive, Live
  <2>2. relays[url[r]] = r /\ url[r] \in Urls
    BY <1>4, <2>1 DEF PoolOwnsSockets, Live
  <2>3. url[r] \notin U
    BY <2>1, <2>2 DEF ClosedRelays
  <2> QED
    BY <1>3, <2>2, <2>3
<1>5. \A r \in Relays : /\ st[r] # status[r] => st[r] = "stopped" /\ r \in ClosedRelays(U)
                        /\ r \notin ClosedRelays(U) => st[r] = status[r]
  BY <1>2
<1>6. st \in [Relays -> States]
  BY <1>2 DEF States
<1>7. \A r \in Relays : st[r] # status[r] => url[r] \in Urls /\ Forgotten(U)[url[r]] = Nobody
  BY <1>1, <1>3, <1>5
<1>8. tm \subseteq timers
  OBVIOUS
<1> HIDE DEF st, tm
<1>9. Closed(Forgotten(U), st, tm, U)
  BY <1>3, <1>4, <1>5, <1>6, <1>7, <1>8 DEF Closed
<1> QED
  BY <1>9 DEF st, tm

\* close(), closeRelays() and the idle cleanup.
LEMMA CloseStep ==
  ASSUME Core, NEW U \in SUBSET Urls, CloseUrls(U), UNCHANGED <<url, strays>>,
         invalid' \in [Urls -> 0..Limit],
         suspended' \in [Urls -> 0..Cooldown \cup {Nobody}],
         \A u \in Urls : suspended'[u] \in {suspended[u], Nobody}
  PROVE  Core'
<1> DEFINE R == ClosedRelays(U)
<1>1. Kept(caller', R)
  BY DroppedFacts DEF CloseUrls
<1>2. Closed(relays', status', timers', U)
  BY CloseUrlsFacts DEF CloseUrls
<1>4. \A r \in Relays : r \notin R => status'[r] = status[r]
  BY <1>2 DEF Closed
<1> HIDE DEF R
<1> USE DEF Core, Typed, Linked
<1>5. Typed'
  BY <1>1, <1>2 DEF Kept, Closed
<1>6. Linked'
  <2>1. /\ \A u \in Urls : relays'[u] # Nobody => url'[relays'[u]] = u
        /\ \A r \in Relays : status'[r] # "down" \/ r \in timers' => url'[r] \in Urls
    BY <1>2 DEF Closed
  <2>2. ASSUME NEW c \in Callers
        PROVE  /\ caller'[c].stage # "idle" => caller'[c].url \in Urls
               /\ caller'[c].stage \notin {"idle", "attach"} => caller'[c].relay \in Relays
    BY <1>1 DEF Kept
  <2>3. ASSUME NEW c \in Callers, caller'[c].stage = "await"
        PROVE  status'[caller'[c].relay] = "connecting"
    <3>1. /\ caller[c].stage = "await" /\ caller'[c].relay = caller[c].relay
          /\ caller[c].relay \in Relays /\ caller[c].relay \notin R
      BY <1>1, <2>3 DEF Kept
    <3> QED
      BY <1>4, <3>1
  <2>4. ASSUME NEW c \in Callers, caller'[c].stage = "got"
        PROVE  status'[caller'[c].relay] # "down"
    <3>1. /\ caller[c].stage = "got" /\ caller'[c].relay = caller[c].relay
          /\ caller[c].relay \in Relays
      BY <1>1, <2>4 DEF Kept
    <3> QED
      BY <1>2, <3>1 DEF Closed
  <2> QED
    BY <2>1, <2>2, <2>3, <2>4
<1>7. PoolOwnsSockets'
  BY <1>2 DEF Closed, Alive, PoolOwnsSockets, Live
<1>8. Halted'
  <2>1. ASSUME NEW u \in Urls, suspended'[u] \in 1..Cooldown, relays'[u] # Nobody
        PROVE  status'[relays'[u]] = "stopped"
    <3>1. suspended[u] \in 1..Cooldown /\ relays'[u] = relays[u]
      BY <1>2, <2>1 DEF Closed
    <3>2. status[relays[u]] = "stopped" /\ relays[u] \in Relays
      BY <2>1, <3>1 DEF Halted
    <3> QED
      BY <1>2, <3>1, <3>2 DEF Closed
  <2>2. ASSUME NEW c \in Callers, caller'[c].stage = "got", status'[caller'[c].relay] = "stopped"
        PROVE  relays'[url'[caller'[c].relay]] # caller'[c].relay
    <3> DEFINE r == caller[c].relay
    <3>1. /\ caller[c].stage = "got" /\ caller'[c].relay = r /\ r \in Relays
      BY <1>1, <2>2 DEF Kept
    <3> HIDE DEF r
    <3>2. CASE status'[r] # status[r]
      BY <1>2, <3>1, <3>2 DEF Closed
    <3>3. CASE status'[r] = status[r]
      <4>1. relays[url[r]] # r /\ url[r] \in Urls
        BY <2>2, <3>1, <3>3 DEF Halted, r
      <4> QED
        BY <1>2, <3>1, <4>1 DEF Closed
    <3> QED
      BY <3>2, <3>3
  <2> QED
    BY <2>1, <2>2 DEF Halted
<1> QED
  BY <1>5, <1>6, <1>7, <1>8

\* A step of one caller that leaves the relays alone.
LEMMA CallerStep ==
  ASSUME Core, NEW c \in Callers, NEW stage \in {"failing", "using"}, NEW kind \in Kinds,
         caller' \in {[caller EXCEPT ![c].stage = stage],
                      [caller EXCEPT ![c] = [@ EXCEPT !.stage = stage, !.kind = kind]],
                      [caller EXCEPT ![c] = NoCall]},
         caller[c].stage \notin {"idle", "attach"},
         UNCHANGED <<relays, url, status, timers, invalid, suspended, strays>>
  PROVE  Core'
<1> USE DEF Core, Typed, Linked
<1> DEFINE Changed(w) ==
      /\ w \in Calls /\ w.stage \in {"idle", "failing", "using"}
      /\ w.stage # "idle" => w.url = caller[c].url /\ w.relay = caller[c].relay
<1>1. PICK w : Changed(w) /\ caller' = [caller EXCEPT ![c] = w]
  <2> DEFINE call == caller[c]
  <2>1. call \in Calls
    OBVIOUS
  <2>2. \/ caller' = [caller EXCEPT ![c] = [call EXCEPT !.stage = stage]]
        \/ caller' = [caller EXCEPT ![c] = [call EXCEPT !.stage = stage, !.kind = kind]]
        \/ caller' = [caller EXCEPT ![c] = NoCall]
    OBVIOUS
  <2>3. \A w : Changed(w) <=> /\ w \in Calls /\ w.stage \in {"idle", "failing", "using"}
                              /\ w.stage # "idle" => w.url = call.url /\ w.relay = call.relay
    OBVIOUS
  <2> HIDE DEF call, Changed
  <2>4. Changed([call EXCEPT !.stage = stage])
    BY <2>1, <2>3 DEF Calls, Stages
  <2>5. Changed([call EXCEPT !.stage = stage, !.kind = kind])
    BY <2>1, <2>3 DEF Calls, Stages
  <2>6. Changed(NoCall)
    BY <2>3 DEF NoCall, Calls, Stages, Kinds
  <2> QED
    BY <2>2, <2>4, <2>5, <2>6
<1>2. caller' \in [Callers -> Calls]
  BY <1>1, OneCaller
<1>3. /\ caller'[c].stage \in {"idle", "failing", "using"}
      /\ caller'[c].stage # "idle" => caller'[c].url = caller[c].url /\ caller'[c].relay = caller[c].relay
      /\ \A d \in Callers : d # c => caller'[d] = caller[d]
  BY <1>1, OneCaller
<1>4. Typed'
  BY <1>2
<1>5. Linked'
  BY <1>3
<1>6. PoolOwnsSockets' /\ Halted'
  BY <1>3 DEF PoolOwnsSockets, Halted, Live
<1> QED
  BY <1>4, <1>5, <1>6

\* After the await: only a fetch() touches its relay, which then is no longer the
\* pool's concern.
LEMMA UseStep == ASSUME Core, NEW c \in Callers, NEW kind \in Kinds, Use(c, kind) PROVE Core'
<1> DEFINE r == caller[c].relay
<1>1. caller[c].stage = "got" /\ r \in Relays /\ status[r] # "down"
  BY DEF Use, Core, Linked
<1>2. CASE UNCHANGED <<status, timers, strays>>
  <2>1. caller' \in {[caller EXCEPT ![c] = [@ EXCEPT !.stage = "using", !.kind = kind]],
                     [caller EXCEPT ![c] = [@ EXCEPT !.stage = "using", !.kind = "sub"]],
                     [caller EXCEPT ![c] = NoCall]}
    BY <1>2 DEF Use, Core, Typed, Calls
  <2>2. UNCHANGED <<relays, url, invalid, suspended>>
    BY DEF Use
  <2>3. "sub" \in Kinds
    BY DEF Kinds
  <2> QED
    BY <1>1, <1>2, <2>1, <2>2, <2>3, CallerStep
<1>3. CASE status[r] # "open" /\ kind = "fetch"
  <2>1. /\ caller' = [caller EXCEPT ![c] = [@ EXCEPT !.stage = "using", !.kind = kind]]
        /\ status' = [status EXCEPT ![r] = "connecting"]
        /\ timers' \subseteq timers \cup {r}
        /\ strays' = strays \cup {r}
        /\ UNCHANGED <<relays, url, invalid, suspended>>
    BY <1>3 DEF Use, Connected, ConnectedTimers
  <2>2. \A u \in Urls : suspended[u] \in 1..Cooldown => relays[u] # r
    BY <1>1 DEF Halted, Core, Typed, Linked
  <2> HIDE DEF r
  <2> USE DEF Core, Typed, Linked
  <2> DEFINE w == [caller[c] EXCEPT !.stage = "using", !.kind = kind]
  <2>3. w \in Calls /\ w.stage = "using" /\ w.url \in Urls /\ w.relay = r
    <3> DEFINE call == caller[c]
    <3>1. call \in Calls /\ call.url \in Urls /\ call.relay = r
      BY <1>1 DEF r
    <3> HIDE DEF call
    <3>2. LET v == [call EXCEPT !.stage = "using", !.kind = kind]
          IN v \in Calls /\ v.stage = "using" /\ v.url = call.url /\ v.relay = call.relay
      BY <3>1 DEF Calls, Stages
    <3> QED
      BY <3>1, <3>2 DEF call
  <2> HIDE DEF w
  <2>4. /\ caller' \in [Callers -> Calls] /\ caller'[c] = w
        /\ \A d \in Callers : d # c => caller'[d] = caller[d]
    BY <2>1, <2>3, OneCaller DEF w
  <2>5. Typed'
    BY <1>1, <2>1, <2>4 DEF States
  <2>6. \A d \in Callers : /\ caller'[d].stage # "idle" => caller'[d].url \in Urls
                           /\ caller'[d].stage \notin {"idle", "attach"} => caller'[d].relay \in Relays
                           /\ caller'[d].stage \in {"await", "got"} => caller'[d] = caller[d]
    BY <1>1, <2>3, <2>4
  <2>7. \A q \in Relays : status'[q] # status[q] => q = r /\ status'[q] = "connecting"
    BY <1>1, <2>1
  <2>8. Linked'
    <3>1. \A q \in Relays : status'[q] # "down" \/ q \in timers' => url'[q] \in Urls
      BY <1>1, <2>1
    <3> QED
      BY <2>1, <2>6, <2>7, <3>1
  <2>9. PoolOwnsSockets'
    BY <1>1, <2>1 DEF PoolOwnsSockets, Live
  <2>10. Halted'
    BY <1>1, <2>1, <2>2, <2>6, <2>7 DEF Halted
  <2> QED
    BY <2>5, <2>8, <2>9, <2>10
<1>4. CASE status[r] # "open" /\ kind # "fetch"
  <2>1. CASE UNCHANGED timers
    BY <1>2, <1>4, <2>1 DEF Use
  <2>2. CASE kind = "sub" /\ EnableReconnect /\ timers' = timers \cup {r}
    <3>1. /\ caller' = [caller EXCEPT ![c] = [@ EXCEPT !.stage = "using", !.kind = kind]]
          /\ UNCHANGED <<relays, url, status, invalid, suspended, strays>>
      BY <1>4, <2>2 DEF Use
    <3> HIDE DEF r
    <3> USE DEF Core, Typed, Linked
    <3> DEFINE w == [caller[c] EXCEPT !.stage = "using", !.kind = kind]
    <3>2. w \in Calls /\ w.stage = "using" /\ w.url \in Urls /\ w.relay = r
      <4> DEFINE call == caller[c]
      <4>1. call \in Calls /\ call.url \in Urls /\ call.relay = r
        BY <1>1 DEF r
      <4> HIDE DEF call
      <4>2. LET v == [call EXCEPT !.stage = "using", !.kind = kind]
            IN v \in Calls /\ v.stage = "using" /\ v.url = call.url /\ v.relay = call.relay
        BY <4>1 DEF Calls, Stages
      <4> QED
        BY <4>1, <4>2 DEF call
    <3> HIDE DEF w
    <3>3. /\ caller' \in [Callers -> Calls] /\ caller'[c] = w
          /\ \A d \in Callers : d # c => caller'[d] = caller[d]
      BY <3>1, <3>2, OneCaller DEF w
    <3>4. Typed'
      BY <1>1, <2>2, <3>1, <3>3
    <3>5. \A q \in Relays : status'[q] # "down" \/ q \in timers' => url'[q] \in Urls
      BY <1>1, <2>2, <3>1
    <3>6. Linked'
      BY <1>1, <3>1, <3>2, <3>3, <3>5
    <3>7. PoolOwnsSockets'
      BY <1>1, <2>2, <3>1 DEF PoolOwnsSockets, Live
    <3>8. Halted'
      BY <3>1, <3>2, <3>3 DEF Halted
    <3> QED
      BY <3>4, <3>6, <3>7, <3>8
  <2> QED
    BY <1>4, <2>1, <2>2 DEF Use, Subscribed
<1>5. CASE status[r] = "open"
  BY <1>2, <1>5 DEF Use
<1> QED
  BY <1>3, <1>4, <1>5

\* The fan-in falls back on the pooled relay, and may schedule its reconnect: not
\* that of a suspended one, which was stopped.
LEMMA AttachStep == ASSUME Core, NEW c \in Callers, Attach(c) PROVE Core'
<1> DEFINE u == caller[c].url
<1> DEFINE r == relays[u]
<1> USE DEF Core, Typed, Linked
<1>1. /\ caller[c].stage = "attach" /\ u \in Urls
      /\ UNCHANGED <<relays, url, status, invalid, suspended, strays>>
  BY DEF Attach
<1>2. \/ caller' = [caller EXCEPT ![c] = NoCall] /\ UNCHANGED timers
      \/ /\ r \in Relays
         /\ caller' = [caller EXCEPT ![c] = [@ EXCEPT !.stage = "using", !.relay = r, !.kind = "sub"]]
         /\ timers' \subseteq timers \cup {r}
  BY <1>1 DEF Attach, Subscribed
<1>3. r \in Relays => url[r] = u /\ relays[u] = r
  BY <1>1
<1> HIDE DEF r
<1> DEFINE Changed(w) ==
      /\ w \in Calls /\ w.stage \in {"idle", "using"}
      /\ w.stage # "idle" => w.url = u /\ w.relay \in Relays
<1>4. PICK w : Changed(w) /\ caller' = [caller EXCEPT ![c] = w]
  <2> DEFINE call == caller[c]
  <2>1. call \in Calls /\ call.url = u /\ u \in Urls
    BY <1>1 DEF u
  <2>2. \/ caller' = [caller EXCEPT ![c] = NoCall]
        \/ r \in Relays /\ caller' = [caller EXCEPT ![c] = [call EXCEPT !.stage = "using", !.relay = r, !.kind = "sub"]]
    BY <1>2
  <2> HIDE DEF u, call
  <2>3. r \in Relays => Changed([call EXCEPT !.stage = "using", !.relay = r, !.kind = "sub"])
    BY <2>1 DEF Calls, Stages, Kinds
  <2>4. Changed(NoCall)
    BY DEF NoCall, Calls, Stages, Kinds
  <2> HIDE DEF Changed
  <2> QED
    BY <2>2, <2>3, <2>4
<1>5. caller' \in [Callers -> Calls]
  BY <1>4, OneCaller
<1>6. /\ caller'[c].stage \in {"idle", "using"}
      /\ caller'[c].stage # "idle" => caller'[c].url = u /\ caller'[c].relay \in Relays
      /\ \A d \in Callers : d # c => caller'[d] = caller[d]
  BY <1>4, OneCaller
<1>7. \A q \in timers' : q \in timers \/ (r \in Relays /\ q = r)
  BY <1>2
<1> HIDE DEF u
<1>8. Typed'
  BY <1>1, <1>5, <1>7
<1>9. Linked'
  <2>1. \A q \in Relays : status'[q] # "down" \/ q \in timers' => url'[q] \in Urls
    BY <1>1, <1>3, <1>7
  <2>2. \A d \in Callers : /\ caller'[d].stage # "idle" => caller'[d].url \in Urls
                           /\ caller'[d].stage \notin {"idle", "attach"} => caller'[d].relay \in Relays
    BY <1>1, <1>6
  <2>3. \A d \in Callers : /\ caller'[d].stage = "await" => status'[caller'[d].relay] = "connecting"
                           /\ caller'[d].stage = "got" => status'[caller'[d].relay] # "down"
    BY <1>1, <1>6
  <2> QED
    BY <1>1, <2>1, <2>2, <2>3
<1>10. PoolOwnsSockets'
  BY <1>1, <1>3, <1>7 DEF PoolOwnsSockets, Live, r
<1>11. Halted'
  BY <1>1, <1>6, <1>7 DEF Halted
<1> QED
  BY <1>8, <1>9, <1>10, <1>11

\* The attempt succeeds: whoever waited for the relay gets it.
LEMMA OpenedStep == ASSUME Core, NEW r \in Relays, Opened(r) PROVE Core'
<1> USE DEF Core, Typed, Linked
<1>1. /\ status[r] = "connecting" /\ status' = [status EXCEPT ![r] = "open"]
      /\ UNCHANGED <<relays, url, timers, invalid, suspended, strays>>
  BY DEF Opened
<1>2. caller' \in [Callers -> Calls]
  BY DEF Opened, Calls, Stages, Kinds
<1>3. \A c \in Callers :
        /\ caller'[c].url = caller[c].url /\ caller'[c].relay = caller[c].relay
        /\ caller'[c].stage = caller[c].stage
             \/ (caller'[c].stage = "got" /\ caller[c].relay = r /\ caller[c].stage = "await")
        /\ caller'[c].stage = "await" => caller[c].relay # r
  BY DEF Opened, Waiters, Calls
<1>4. Typed'
  BY <1>1, <1>2 DEF States
<1>5. Linked'
  BY <1>1, <1>3
<1>6. PoolOwnsSockets' /\ Halted'
  BY <1>1, <1>3 DEF PoolOwnsSockets, Halted, Live
<1> QED
  BY <1>4, <1>5, <1>6

\* A relay that stops, with or without its subscriptions.
LEMMA DeathStep == ASSUME Core, NEW r \in Relays, SocketDeath(r) PROVE Core'
<1> DEFINE keep == EnableReconnect /\ HasSubs(r)
<1>1. Kept(caller', {r})
  BY DroppedFacts DEF SocketDeath
<1>2. \A c \in Callers : caller'[c].stage # "got"
  BY <1>1 DEF SocketDeath, Macrotask, Continuations, Kept
<1>3. /\ status[r] \in {"connecting", "open"}
      /\ status' = [status EXCEPT ![r] = "down"]
      /\ timers' = IF keep THEN timers \cup {r} ELSE timers
      /\ \/ relays' = relays
         \/ /\ ~keep /\ relays[url[r]] = r /\ relays' = [relays EXCEPT ![url[r]] = Nobody]
            /\ r \in timers => r \in strays'
      /\ strays' = strays \/ strays' = strays \cup {r}
      /\ UNCHANGED <<url, invalid, suspended>>
  BY DEF SocketDeath, OnClose
<1> HIDE DEF keep
<1> USE DEF Core, Typed, Linked
<1>4. Typed'
  <2>1. /\ status' \in [Relays -> States] /\ relays' \in [Urls -> Relays \cup {Nobody}]
        /\ timers' \in SUBSET Relays
    BY <1>3 DEF States
  <2> QED
    BY <1>1, <1>3, <2>1 DEF Kept
<1>5. Linked'
  <2>1. /\ \A u \in Urls : relays'[u] # Nobody => url'[relays'[u]] = u
        /\ \A q \in Relays : status'[q] # "down" \/ q \in timers' => url'[q] \in Urls
    BY <1>3
  <2>2. \A c \in Callers : /\ caller'[c].stage # "idle" => caller'[c].url \in Urls
                           /\ caller'[c].stage \notin {"idle", "attach"} => caller'[c].relay \in Relays
    BY <1>1 DEF Kept
  <2>3. \A c \in Callers : caller'[c].stage = "await" => status'[caller'[c].relay] = "connecting"
    BY <1>1, <1>3 DEF Kept
  <2> QED
    BY <1>2, <2>1, <2>2, <2>3
<1>6. PoolOwnsSockets'
  <2> SUFFICES ASSUME EnableReconnect, NEW q \in Relays \ strays', Live(q)'
               PROVE  relays'[url'[q]] = q
    BY DEF PoolOwnsSockets
  <2>1. q \notin strays /\ Live(q)
    BY <1>3 DEF Live
  <2>2. relays[url[q]] = q /\ url[q] \in Urls /\ url'[q] = url[q]
    BY <1>3, <2>1 DEF PoolOwnsSockets, Live
  <2>3. CASE q = r
    BY <1>3, <2>2, <2>3 DEF Live
  <2>4. CASE q # r
    BY <1>3, <2>2, <2>4
  <2> QED
    BY <2>3, <2>4
<1>7. Halted'
  BY <1>2, <1>3 DEF Halted
<1> QED
  BY <1>4, <1>5, <1>6, <1>7

\* An invalid event: the pooled relay of the URL is cut off.
LEMMA InvalidStep == ASSUME Core, NEW r \in Relays, InvalidEvent(r) PROVE Core'
<1> USE DEF Core, Typed, Linked
<1>1. /\ url[r] \in Urls /\ status[r] = "open"
      /\ \A c \in Callers : caller[c].stage # "got"
  BY DEF InvalidEvent, Macrotask, Continuations
<1>2. /\ invalid' \in [Urls -> 0..Limit]
      /\ UNCHANGED <<relays, url, strays>>
  <2>1. PICK k \in 1..(invalid[url[r]] + 1) :
          invalid' = [invalid EXCEPT ![url[r]] = IF k <= Limit THEN k ELSE 0]
    BY DEF InvalidEvent
  <2>2. (IF k <= Limit THEN k ELSE 0) \in 0..Limit
    BY <1>1
  <2> QED
    BY <2>1, <2>2 DEF InvalidEvent
<1>3. CASE UNCHANGED <<status, timers, caller, suspended>>
  BY <1>2, <1>3 DEF PoolOwnsSockets, Halted, Live
<1>4. CASE /\ suspended' = [suspended EXCEPT ![url[r]] = Cooldown]
           /\ status' = Disconnected(ClosedRelays({url[r]}))
           /\ caller' = Dropped(ClosedRelays({url[r]}), TRUE)
           /\ timers' = timers \ ClosedRelays({url[r]})
  <2> DEFINE R == ClosedRelays({url[r]})
  <2>1. Kept(caller', R)
    BY <1>4, DroppedFacts
  <2>2. \A c \in Callers : caller'[c].stage # "got"
    BY <1>1, <2>1 DEF Kept
  <2>3. /\ status' = [q \in Relays |-> IF q \in R THEN "stopped" ELSE status[q]]
        /\ R = {relays[url[r]]} \ {Nobody}
    BY <1>4 DEF Disconnected, DownStatus, ClosedRelays
  <2>4. \A q \in Relays : status'[q] # status[q] => status'[q] = "stopped" /\ q = relays[url[r]]
    BY <2>3
  <2>5. relays[url[r]] # Nobody => status'[relays[url[r]]] = "stopped"
    BY <1>1, <2>3
  <2>6. \A q \in Relays : q \notin R => status'[q] = status[q]
    BY <2>3
  <2> HIDE DEF R
  <2>7. Typed'
    <3>1. status' \in [Relays -> States]
      BY <2>3 DEF States
    <3>2. Cooldown \in 0..Cooldown
      OBVIOUS
    <3>3. suspended' \in [Urls -> 0..Cooldown \cup {Nobody}] /\ timers' \in SUBSET Relays
      BY <1>1, <1>4, <3>2
    <3> QED
      BY <1>2, <2>1, <3>1, <3>3 DEF Kept
  <2>8. Linked'
    <3>1. /\ \A u \in Urls : relays'[u] # Nobody => url'[relays'[u]] = u
          /\ \A q \in Relays : status'[q] # "down" \/ q \in timers' => url'[q] \in Urls
      <4>1. \A q \in Relays :
              status'[q] # "down" \/ q \in timers'
                => status[q] # "down" \/ q \in timers \/ q = relays[url[r]]
        BY <1>4, <2>4
      <4> QED
        BY <1>1, <1>2, <4>1
    <3>2. \A c \in Callers : /\ caller'[c].stage # "idle" => caller'[c].url \in Urls
                             /\ caller'[c].stage \notin {"idle", "attach"} => caller'[c].relay \in Relays
      BY <2>1 DEF Kept
    <3>3. \A c \in Callers : caller'[c].stage = "await" => status'[caller'[c].relay] = "connecting"
      BY <2>1, <2>6 DEF Kept
    <3> QED
      BY <2>2, <3>1, <3>2, <3>3
  <2>9. PoolOwnsSockets'
    BY <1>2, <1>4, <2>4 DEF PoolOwnsSockets, Live
  <2>10. Halted'
    <3>1. ASSUME NEW u \in Urls, suspended'[u] \in 1..Cooldown, relays'[u] # Nobody
          PROVE  status'[relays'[u]] = "stopped"
      <4>1. CASE u = url[r]
        BY <1>2, <2>5, <3>1, <4>1
      <4>2. CASE u # url[r]
        BY <1>1, <1>2, <1>4, <2>4, <3>1, <4>2 DEF Halted
      <4> QED
        BY <4>1, <4>2
    <3> QED
      BY <2>2, <3>1 DEF Halted
  <2> QED
    BY <2>7, <2>8, <2>9, <2>10
<1> QED
  BY <1>3, <1>4 DEF InvalidEvent

\* The resume timer of a URL whose suspension is over.
LEMMA ResumeStep == ASSUME Core, NEW u \in Urls, ResumeTimer(u) PROVE Core'
<1> USE DEF Core, Typed, Linked
<1>1. /\ suspended' = [suspended EXCEPT ![u] = Nobody] /\ timers' \subseteq timers
      /\ suspended' \in [Urls -> 0..Cooldown \cup {Nobody}]
      /\ UNCHANGED <<relays, url, caller, invalid, strays>>
      /\ Nobody \notin 1..Cooldown
  BY DEF ResumeTimer, Resume
<1>2. /\ status' \in [Relays -> States]
      /\ \A q \in Relays : status'[q] # status[q] => q = relays[u] /\ status'[q] = "connecting"
  BY DEF ResumeTimer, Resume, Connected, States
<1>3. Typed'
  BY <1>1, <1>2
<1>4. Linked'
  <2>1. \A q \in Relays : status'[q] # "down" \/ q \in timers' => url'[q] \in Urls
    BY <1>1, <1>2
  <2>2. \A c \in Callers : /\ caller'[c].stage = "await" => status'[caller'[c].relay] = "connecting"
                           /\ caller'[c].stage = "got" => status'[caller'[c].relay] # "down"
    BY <1>1, <1>2
  <2> QED
    BY <1>1, <2>1, <2>2
<1>5. PoolOwnsSockets'
  BY <1>1, <1>2 DEF PoolOwnsSockets, Live
<1>6. Halted'
  <2>1. ASSUME NEW v \in Urls, suspended'[v] \in 1..Cooldown, relays'[v] # Nobody
        PROVE  status'[relays'[v]] = "stopped"
    <3>1. v # u /\ suspended[v] \in 1..Cooldown /\ relays'[v] = relays[v]
      BY <1>1, <2>1
    <3>2. relays[v] # relays[u] /\ relays[v] \in Relays
      BY <1>1, <2>1, <3>1
    <3> QED
      BY <1>2, <2>1, <3>1, <3>2 DEF Halted
  <2>2. ASSUME NEW c \in Callers, caller'[c].stage = "got", status'[caller'[c].relay] = "stopped"
        PROVE  relays'[url'[caller'[c].relay]] # caller'[c].relay
    BY <1>1, <1>2, <2>2 DEF Halted
  <2> QED
    BY <2>1, <2>2 DEF Halted
<1> QED
  BY <1>3, <1>4, <1>5, <1>6

\* ensureRelay(), which may make room by closing an idle relay: whichever relay r it
\* leaves in the pool, the others are as they were or have been closed.
LEMMA EnsureStep ==
  ASSUME Core, NEW c \in Callers, NEW u \in Urls, NEW aborted \in BOOLEAN, EnsureRelay(c, u, aborted)
  PROVE  Core'
<1>1. Typed /\ Linked /\ PoolOwnsSockets /\ Halted
  BY DEF Core
<1>2. /\ suspended' = [suspended EXCEPT ![u] = Nobody]
      /\ suspended' \in [Urls -> 0..Cooldown \cup {Nobody}]
      /\ suspended'[u] = Nobody
      /\ \A v \in Urls : v # u => suspended'[v] = suspended[v]
      /\ invalid' \in [Urls -> 0..Limit]
      /\ Nobody \notin 1..Cooldown
  BY <1>1 DEF EnsureRelay, Typed
<1> DEFINE Shaped(r, st, tm) ==
      /\ r \in Relays /\ st \in [Relays -> States] /\ tm \in SUBSET Relays
      /\ relays' \in [Urls -> Relays \cup {Nobody}] /\ url' \in [Relays -> Urls \cup {Nobody}]
      /\ strays' \in SUBSET Relays
      /\ relays'[u] = r
      /\ \A v \in Urls : relays'[v] # Nobody => url'[relays'[v]] = v
      /\ \A q \in Relays : st[q] # "down" \/ q \in tm => url'[q] \in Urls
<1> DEFINE Owned(st, tm) ==
      EnableReconnect => \A q \in Relays \ strays' : Alive(st, tm, q) => relays'[url'[q]] = q
<1> DEFINE Quiet(st) ==
      \A v \in Urls : suspended'[v] \in 1..Cooldown /\ relays'[v] # Nobody => st[relays'[v]] = "stopped"
<1> DEFINE Waited(st) ==
      \A d \in Callers :
        /\ caller[d].stage = "await" => st[caller[d].relay] = "connecting"
        /\ caller[d].stage = "got" =>
             /\ st[caller[d].relay] # "down"
             /\ st[caller[d].relay] = "stopped" => relays'[url'[caller[d].relay]] # caller[d].relay
<1> DEFINE Joined(r, st, tm) ==
      Shaped(r, st, tm) /\ Owned(st, tm) /\ Quiet(st) /\ Waited(st) /\ Join(c, u, r, aborted, st, tm)
<1>3. ASSUME relays[u] # Nobody PROVE Joined(relays[u], status, timers)
  <2>1. /\ Join(c, u, relays[u], aborted, status, timers)
        /\ UNCHANGED <<relays, url, strays>>
    BY <1>3 DEF EnsureRelay
  <2>2. \A v \in Urls : suspended'[v] \in 1..Cooldown => suspended[v] = suspended'[v]
    BY <1>2
  <2> QED
    BY <1>1, <1>3, <2>1, <2>2 DEF Typed, Linked, PoolOwnsSockets, Halted, Live, Alive
<1>4. ASSUME relays[u] = Nobody PROVE \E r, st, tm : Joined(r, st, tm)
  <2> DEFINE N == NewRelay
  <2>1. PICK V \in Evictions(u) :
          /\ relays' = [Forgotten(V) EXCEPT ![u] = N]
          /\ url' = [url EXCEPT ![N] = u]
          /\ strays' = strays \ {N}
          /\ Join(c, u, N, aborted, [DownStatus(ClosedRelays(V)) EXCEPT ![N] = "down"],
                  timers \ ClosedRelays(V))
    BY <1>4 DEF EnsureRelay
  <2>2. N \in Relays /\ Unused(N)
    <3>1. \E r \in Relays : Unused(r)
      BY <1>4 DEF EnsureRelay
    <3> QED
      BY <3>1 DEF NewRelay
  <2>3. V \in SUBSET Urls /\ \A q \in ClosedRelays(V) : status[q] # "connecting"
    BY DEF Evictions, Pooled, IsIdle, ClosedRelays
  <2> DEFINE rel == Forgotten(V)
  <2> DEFINE cs == DownStatus(ClosedRelays(V))
  <2> DEFINE st == [cs EXCEPT ![N] = "down"]
  <2> DEFINE tm == timers \ ClosedRelays(V)
  <2>4. Closed(rel, cs, tm, V)
    BY <2>3, CloseUrlsFacts
  <2>5. /\ N \in Relays /\ status[N] \in {"down", "stopped"} /\ N \notin timers
        /\ \A v \in Urls : relays[v] # N
        /\ \A d \in Callers : caller[d].relay # N
    BY <1>1, <2>2 DEF Typed, States, Unused, Live
  <2>6. Join(c, u, N, aborted, st, tm) /\ relays' = [rel EXCEPT ![u] = N] /\ url' = [url EXCEPT ![N] = u]
    BY <2>1
  <2> HIDE DEF rel, cs, tm, N
  <2>7. /\ st \in [Relays -> States] /\ st[N] = "down"
        /\ \A q \in Relays : q # N => st[q] = cs[q]
    BY <2>4, <2>5 DEF Closed, States
  <2> HIDE DEF st
  <2>8. /\ relays' \in [Urls -> Relays \cup {Nobody}] /\ url' \in [Relays -> Urls \cup {Nobody}]
        /\ strays' \in SUBSET Relays /\ tm \in SUBSET Relays
        /\ relays'[u] = N /\ url'[N] = u
        /\ \A v \in Urls : v # u => relays'[v] = rel[v]
        /\ \A q \in Relays : q # N => url'[q] = url[q]
    <3>1. rel \in [Urls -> Relays \cup {Nobody}]
      BY <2>4 DEF Closed
    <3>2. /\ relays' = [rel EXCEPT ![u] = N] /\ url' = [url EXCEPT ![N] = u]
          /\ strays' = strays \ {N} /\ tm \subseteq timers
      BY <2>1, <2>4, <2>6 DEF Closed
    <3> QED
      BY <1>1, <2>5, <3>1, <3>2 DEF Typed
  <2>9. \A v \in Urls : relays'[v] # Nobody => url'[relays'[v]] = v
    <3>1. ASSUME NEW v \in Urls, v # u, relays'[v] # Nobody PROVE url'[relays'[v]] = v
      <4>1. relays'[v] = relays[v] /\ relays[v] \in Relays /\ relays[v] # N
        BY <1>1, <2>4, <2>5, <2>8, <3>1 DEF Typed, Closed
      <4> QED
        BY <1>1, <2>8, <3>1, <4>1 DEF Linked
    <3> QED
      BY <2>8, <3>1
  <2>10. \A q \in Relays : st[q] # "down" \/ q \in tm => q # N /\ url'[q] = url[q] /\ url[q] \in Urls
    BY <1>1, <2>4, <2>5, <2>7, <2>8 DEF Linked, Closed
  <2>11. ASSUME EnableReconnect, NEW q \in Relays \ strays', Alive(st, tm, q)
         PROVE  relays'[url'[q]] = q
    <3>1. /\ q # N /\ url'[q] = url[q] /\ url[q] \in Urls /\ q \notin strays
      BY <2>1, <2>10, <2>11 DEF Alive
    <3>2. rel[url[q]] = q
      BY <2>4, <2>7, <2>11, <3>1 DEF Closed, Alive
    <3>3. url[q] # u
      BY <1>1, <1>4, <2>4, <3>1, <3>2 DEF Closed
    <3> QED
      BY <2>8, <3>1, <3>2, <3>3
  <2>12. ASSUME NEW v \in Urls, suspended'[v] \in 1..Cooldown, relays'[v] # Nobody
         PROVE  st[relays'[v]] = "stopped"
    <3>1. v # u /\ suspended[v] \in 1..Cooldown /\ relays'[v] = rel[v]
      BY <1>2, <2>8, <2>12
    <3>2. rel[v] = relays[v] /\ relays[v] \in Relays /\ relays[v] # N
      BY <1>1, <2>4, <2>5, <2>12, <3>1 DEF Typed, Closed
    <3>3. status[relays[v]] = "stopped"
      BY <1>1, <3>1, <3>2 DEF Halted
    <3> QED
      BY <2>4, <2>7, <3>1, <3>2, <3>3 DEF Closed
  <2>13. ASSUME NEW d \in Callers
         PROVE  /\ caller[d].stage = "await" => st[caller[d].relay] = "connecting"
                /\ caller[d].stage = "got" =>
                     /\ st[caller[d].relay] # "down"
                     /\ st[caller[d].relay] = "stopped" => relays'[url'[caller[d].relay]] # caller[d].relay
    <3> DEFINE q == caller[d].relay
    <3>1. q # N
      BY <2>5
    <3>2. CASE caller[d].stage = "await"
      <4>1. q \in Relays /\ status[q] = "connecting" /\ q \notin ClosedRelays(V)
        BY <1>1, <2>3, <3>2 DEF Linked
      <4> QED
        BY <2>4, <2>7, <3>1, <3>2, <4>1 DEF Closed
    <3>3. CASE caller[d].stage = "got"
      <4>1. q \in Relays /\ status[q] # "down" /\ (status[q] = "stopped" => relays[url[q]] # q)
        BY <1>1, <3>3 DEF Linked, Halted
      <4>2. st[q] = cs[q] /\ cs[q] # "down" /\ url'[q] = url[q] /\ url[q] \in Urls
        BY <1>1, <2>4, <2>7, <2>8, <3>1, <4>1 DEF Closed, Linked
      <4>3. cs[q] = "stopped" => rel[url[q]] # q
        BY <2>4, <4>1, <4>2 DEF Closed
      <4>4. relays'[url[q]] = q => rel[url[q]] = q
        BY <2>8, <3>1, <4>2
      <4> QED
        BY <3>3, <4>2, <4>3, <4>4
    <3> QED
      BY <3>2, <3>3
  <2>14. \A q \in Relays : st[q] # "down" \/ q \in tm => url'[q] \in Urls
    BY <2>10
  <2>15. Joined(N, st, tm)
    BY <2>5, <2>6, <2>7, <2>8, <2>9, <2>11, <2>12, <2>13, <2>14
  <2> HIDE DEF Joined
  <2> QED
    BY <2>15
<1>5. PICK r, st, tm : Joined(r, st, tm)
  <2> HIDE DEF Joined
  <2> QED
    BY <1>3, <1>4
<1> HIDE DEF Shaped, Owned, Quiet, Waited
<1> DEFINE stage == IF st[r] = "open" THEN "got" ELSE IF aborted THEN "failing" ELSE "await"
<1> DEFINE w == [NoCall EXCEPT !.stage = stage, !.url = u, !.relay = r]
<1>6. /\ caller' = [caller EXCEPT ![c] = w]
      /\ status' = IF stage = "await" THEN [st EXCEPT ![r] = "connecting"] ELSE st
      /\ timers' \subseteq tm \cup {r}
      /\ stage # "await" => timers' = tm
  BY <1>5 DEF Join, Connected, ConnectedTimers
<1>7. /\ stage \in {"got", "failing", "await"}
      /\ stage = "got" <=> st[r] = "open"
  OBVIOUS
<1> HIDE DEF stage
<1>8. w \in Calls /\ w.stage = stage /\ w.url = u /\ w.relay = r
  BY <1>5, <1>7 DEF Shaped, NoCall, Calls, Stages, Kinds
<1> HIDE DEF w
<1>9. /\ caller' \in [Callers -> Calls]
      /\ caller'[c].stage = stage /\ caller'[c].url = u /\ caller'[c].relay = r
      /\ \A d \in Callers : d # c => caller'[d] = caller[d]
  BY <1>1, <1>6, <1>8, OneCaller DEF Typed
<1>10. /\ status' \in [Relays -> States]
       /\ \A q \in Relays : status'[q] # st[q] => q = r /\ status'[q] = "connecting"
       /\ stage = "await" => status'[r] = "connecting"
  BY <1>5, <1>6 DEF Shaped, States
<1>11. url'[r] = u
  BY <1>5 DEF Shaped
<1>12. Typed'
  BY <1>2, <1>5, <1>6, <1>9, <1>10 DEF Typed, Shaped
<1>13. Linked'
  <2>1. \A q \in Relays : status'[q] # "down" \/ q \in timers' => url'[q] \in Urls
    BY <1>5, <1>6, <1>10, <1>11 DEF Shaped
  <2>2. ASSUME NEW d \in Callers
        PROVE  /\ caller'[d].stage # "idle" => caller'[d].url \in Urls
               /\ caller'[d].stage \notin {"idle", "attach"} => caller'[d].relay \in Relays
    BY <1>1, <1>5, <1>9 DEF Linked, Shaped
  <2>3. ASSUME NEW d \in Callers
        PROVE  /\ caller'[d].stage = "await" => status'[caller'[d].relay] = "connecting"
               /\ caller'[d].stage = "got" => status'[caller'[d].relay] # "down"
    <3>1. CASE d = c
      BY <1>5, <1>7, <1>9, <1>10, <3>1 DEF Shaped
    <3>2. CASE d # c
      BY <1>1, <1>5, <1>9, <1>10, <3>2 DEF Linked, Waited
    <3> QED
      BY <3>1, <3>2
  <2> QED
    BY <1>5, <2>1, <2>2, <2>3 DEF Linked, Shaped
<1>14. PoolOwnsSockets'
  <2> SUFFICES ASSUME EnableReconnect, NEW q \in Relays \ strays', Live(q)'
               PROVE  relays'[url'[q]] = q
    BY DEF PoolOwnsSockets
  <2>1. CASE q = r
    BY <1>5, <1>11, <2>1 DEF Shaped
  <2>2. CASE q # r
    <3>1. Alive(st, tm, q)
      BY <1>6, <1>10, <2>2 DEF Live, Alive
    <3> QED
      BY <1>5, <3>1 DEF Owned
  <2> QED
    BY <2>1, <2>2
<1>15. Halted'
  <2>1. ASSUME NEW v \in Urls, suspended'[v] \in 1..Cooldown, relays'[v] # Nobody
        PROVE  status'[relays'[v]] = "stopped"
    <3>1. v # u
      BY <1>2, <2>1
    <3>2. relays'[v] # r /\ relays'[v] \in Relays
      BY <1>5, <1>11, <2>1, <3>1 DEF Shaped
    <3> QED
      BY <1>5, <1>10, <2>1, <3>2 DEF Quiet
  <2>2. ASSUME NEW d \in Callers, caller'[d].stage = "got", status'[caller'[d].relay] = "stopped"
        PROVE  relays'[url'[caller'[d].relay]] # caller'[d].relay
    <3>1. CASE d = c
      BY <1>5, <1>7, <1>9, <1>10, <2>2, <3>1 DEF Shaped
    <3>2. CASE d # c
      BY <1>1, <1>5, <1>9, <1>10, <2>2, <3>2 DEF Linked, Shaped, Waited
    <3> QED
      BY <3>1, <3>2
  <2> QED
    BY <2>1, <2>2 DEF Halted
<1> QED
  BY <1>12, <1>13, <1>14, <1>15 DEF Core

\* The steps that touch the fields of one caller, the reconnect timer and the clock.
LEMMA SmallSteps ==
  ASSUME Core
  PROVE  /\ \A c \in Callers, u \in Urls : Suspended(c, u) => Core'
         /\ \A c \in Callers : Catch(c) => Core'
         /\ \A r \in Relays : ReconnectTimer(r) => Core'
         /\ Tick => Core'
<1> USE DEF Core, Typed, Linked
<1>1. ASSUME NEW c \in Callers, NEW u \in Urls, Suspended(c, u) PROVE Core'
  <2> DEFINE w == [NoCall EXCEPT !.stage = "attach", !.url = u]
  <2>1. /\ caller' = [caller EXCEPT ![c] = w]
        /\ UNCHANGED <<relays, url, status, timers, invalid, suspended, strays>>
    BY <1>1 DEF Suspended
  <2>2. w \in Calls /\ w.stage = "attach" /\ w.url = u
    BY DEF NoCall, Calls, Stages, Kinds
  <2> HIDE DEF w
  <2>3. /\ caller' \in [Callers -> Calls]
        /\ caller'[c].stage = "attach" /\ caller'[c].url = u
        /\ \A d \in Callers : d # c => caller'[d] = caller[d]
    BY <2>1, <2>2, OneCaller
  <2>4. Typed'
    BY <2>1, <2>3
  <2>5. Linked' /\ PoolOwnsSockets' /\ Halted'
    BY <2>1, <2>3 DEF PoolOwnsSockets, Halted, Live
  <2> QED
    BY <2>4, <2>5
<1>2. ASSUME NEW c \in Callers, Catch(c) PROVE Core'
  <2>1. /\ caller[c].stage = "failing" /\ caller[c].url \in Urls
        /\ relays' = relays \/ (~EnableReconnect /\ relays' = [relays EXCEPT ![caller[c].url] = Nobody])
        /\ UNCHANGED <<url, status, timers, invalid, suspended, strays>>
    BY <1>2 DEF Catch, Forgets
  <2>2. /\ caller' \in [Callers -> Calls]
        /\ caller'[c].stage \in {"idle", "attach"}
        /\ caller'[c].stage = "attach" => caller'[c].url = caller[c].url
        /\ \A d \in Callers : d # c => caller'[d] = caller[d]
    <3> DEFINE call == caller[c]
    <3> DEFINE v == [call EXCEPT !.stage = "attach", !.relay = Nobody]
    <3>1. call \in Calls
      OBVIOUS
    <3> HIDE DEF call
    <3>2. v \in Calls /\ v.stage = "attach" /\ v.url = call.url
      BY <3>1 DEF Calls, Stages
    <3>3. v \in Calls /\ v.stage = "attach" /\ v.url = caller[c].url
      BY <3>2 DEF call
    <3>4. NoCall \in Calls /\ NoCall.stage = "idle"
      BY DEF NoCall, Calls, Stages, Kinds
    <3>5. caller' = [caller EXCEPT ![c] = NoCall] \/ caller' = [caller EXCEPT ![c] = v]
      BY <1>2 DEF Catch, call
    <3> HIDE DEF v
    <3> QED
      BY <3>3, <3>4, <3>5, OneCaller
  <2>3. Typed'
    BY <2>1, <2>2
  <2>4. Linked'
    BY <2>1, <2>2
  <2>5. PoolOwnsSockets' /\ Halted'
    BY <2>1, <2>2 DEF PoolOwnsSockets, Halted, Live
  <2> QED
    BY <2>3, <2>4, <2>5
<1>3. ASSUME NEW r \in Relays, ReconnectTimer(r) PROVE Core'
  BY <1>3 DEF ReconnectTimer, Connected, PoolOwnsSockets, Halted, Live, States
<1>4. ASSUME Tick PROVE Core'
  <2>1. /\ suspended' = [u \in Urls |-> IF suspended[u] = Nobody THEN Nobody ELSE Less(suspended[u])]
        /\ UNCHANGED <<relays, url, status, timers, caller, invalid, strays>>
    BY <1>4 DEF Tick
  <2>2. \A u \in Urls : /\ suspended'[u] \in 0..Cooldown \cup {Nobody}
                        /\ suspended'[u] \in 1..Cooldown => suspended[u] \in 1..Cooldown
    BY <2>1 DEF Less
  <2>3. Typed' /\ Linked'
    BY <2>1, <2>2
  <2>4. PoolOwnsSockets' /\ Halted'
    BY <2>1, <2>2 DEF PoolOwnsSockets, Halted, Live
  <2> QED
    BY <2>3, <2>4
<1> QED
  BY <1>1, <1>2, <1>3, <1>4

\* Every call, continuation, socket event and timer preserves it.
LEMMA StepCore == Core /\ [Next]_vars => Core'
<1> SUFFICES ASSUME Core, [Next]_vars PROVE Core'
  OBVIOUS
<1>1. ASSUME NEW c \in Callers, NEW u \in Urls, NEW aborted \in BOOLEAN, EnsureRelay(c, u, aborted)
      PROVE  Core'
  BY <1>1, EnsureStep
<1>2. ASSUME NEW c \in Callers, NEW u \in Urls, Suspended(c, u) PROVE Core'
  BY <1>2, SmallSteps
<1>3. ASSUME NEW c \in Callers, NEW kind \in Kinds, Use(c, kind) PROVE Core'
  BY <1>3, UseStep
<1>4. ASSUME NEW c \in Callers, Abort(c) PROVE Core'
  BY <1>4, CallerStep DEF Abort, Kinds
<1>5. ASSUME NEW c \in Callers, Catch(c) PROVE Core'
  BY <1>5, SmallSteps
<1>6. ASSUME NEW c \in Callers, Attach(c) PROVE Core'
  BY <1>6, AttachStep
<1>7. ASSUME NEW c \in Callers, Release(c) PROVE Core'
  BY <1>7, CallerStep DEF Release, Kinds
<1>8. ASSUME NEW r \in Relays, Opened(r) PROVE Core'
  BY <1>8, OpenedStep
<1>9. ASSUME NEW r \in Relays, SocketDeath(r) PROVE Core'
  BY <1>9, DeathStep
<1>10. ASSUME NEW r \in Relays, ReconnectTimer(r) PROVE Core'
  BY <1>10, SmallSteps
<1>11. ASSUME NEW r \in Relays, InvalidEvent(r) PROVE Core'
  BY <1>11, InvalidStep
<1>12. ASSUME NEW u \in Urls, ResumeTimer(u) PROVE Core'
  BY <1>12, ResumeStep
<1>13. ASSUME NEW u \in Urls, CloseRelay(u) PROVE Core'
  BY <1>13, CloseStep DEF CloseRelay, Core, Typed
<1>14. ASSUME CleanIdleRelays PROVE Core'
  BY <1>14, CloseStep DEF CleanIdleRelays, Pooled, Core, Typed
<1>15. ASSUME Close PROVE Core'
  BY <1>15, CloseStep DEF Close
<1>16. CASE Tick
  BY <1>16, SmallSteps
<1>17. CASE UNCHANGED vars
  BY <1>17 DEF vars, Core, Typed, Linked, PoolOwnsSockets, Halted, Live
<1> QED
  BY <1>1, <1>2, <1>3, <1>4, <1>5, <1>6, <1>7, <1>8, <1>9, <1>10, <1>11, <1>12, <1>13, <1>14, <1>15,
     <1>16, <1>17 DEF Next

\* Timers are armed, tick, fire and are cleared.
LEMMA StepClocked == IInv /\ [Next]_vars => Clocked'
<1> SUFFICES ASSUME IInv, [Next]_vars PROVE Clocked'
  OBVIOUS
<1> USE DEF Clocked
<1>1. Clocked /\ url \in [Relays -> Urls \cup {Nobody}] /\ Cooldown \in 0..Cooldown
  BY DEF IInv, Core, Typed
<1>2. ASSUME NEW U, resume' = Cleared(U), recorded' = Unrecorded(U) PROVE Clocked'
  <2>1. ASSUME NEW u \in Urls, recorded[u]
        PROVE  SubSeq(resume[u], 1, Len(resume[u]) - 1) \in Seq(0..Cooldown)
    <3>1. resume[u] \in Seq(0..Cooldown) /\ Len(resume[u]) \in Nat \ {0}
      BY <1>1, <2>1
    <3> QED
      BY <3>1
  <2>2. ASSUME NEW u \in Urls PROVE resume'[u] \in Seq(0..Cooldown)
    BY <1>1, <1>2, <2>1 DEF Cleared
  <2>3. resume' \in [Urls -> Seq(0..Cooldown)]
    BY <1>2, <2>2 DEF Cleared
  <2>4. \A u \in Urls : recorded'[u] => u \notin U /\ recorded[u] /\ resume'[u] = resume[u]
    BY <1>2 DEF Cleared, Unrecorded
  <2>5. recorded' \in [Urls -> BOOLEAN]
    BY <1>1, <1>2 DEF Unrecorded
  <2> QED
    BY <1>1, <2>3, <2>4, <2>5
<1>3. CASE UNCHANGED <<resume, recorded>>
  BY <1>1, <1>3
<1>4. ASSUME NEW r \in Relays, InvalidEvent(r) PROVE Clocked'
  <2>1. CASE /\ resume' = [resume EXCEPT ![url[r]] = Append(@, Cooldown)]
             /\ recorded' = [recorded EXCEPT ![url[r]] = TRUE]
    <3>1. ASSUME NEW u \in Urls
          PROVE  /\ Append(resume[u], Cooldown) \in Seq(0..Cooldown)
                 /\ Append(resume[u], Cooldown) # <<>>
      <4>1. resume[u] \in Seq(0..Cooldown)
        BY <1>1
      <4> QED
        BY <1>1, <4>1, AppendProperties
    <3> QED
      BY <1>1, <2>1, <3>1
  <2> QED
    BY <1>3, <1>4, <2>1 DEF InvalidEvent
<1>5. ASSUME NEW u \in Urls, ResumeTimer(u) PROVE Clocked'
  <2>1. /\ resume[u] \in Seq(0..Cooldown) /\ resume[u] # <<>>
        /\ resume' = [resume EXCEPT ![u] = Tail(@)] /\ recorded' = [recorded EXCEPT ![u] = FALSE]
    BY <1>1, <1>5 DEF ResumeTimer
  <2>2. Tail(resume[u]) \in Seq(0..Cooldown)
    BY <2>1, HeadTailProperties
  <2> QED
    BY <1>1, <2>1, <2>2
<1>6. CASE Tick
  <2>1. ASSUME NEW u \in Urls
        PROVE  /\ resume'[u] \in Seq(0..Cooldown)
               /\ resume[u] # <<>> => resume'[u] # <<>>
    <3>1. /\ resume[u] \in Seq(0..Cooldown) /\ Len(resume[u]) \in Nat
          /\ resume'[u] = [i \in 1..Len(resume[u]) |-> Less(resume[u][i])]
      BY <1>1, <1>6 DEF Tick
    <3>2. \A i \in 1..Len(resume[u]) : Less(resume[u][i]) \in 0..Cooldown
      BY <3>1 DEF Less
    <3>3. resume'[u] \in Seq(0..Cooldown) /\ Len(resume'[u]) = Len(resume[u])
      BY <3>1, <3>2
    <3> QED
      BY <3>1, <3>3
  <2>2. resume' \in [Urls -> Seq(0..Cooldown)] /\ recorded' = recorded
    BY <1>6, <2>1 DEF Tick
  <2> QED
    BY <1>1, <2>1, <2>2
<1>7. ASSUME NEW c \in Callers, NEW u \in Urls, NEW aborted \in BOOLEAN, EnsureRelay(c, u, aborted)
      PROVE  Clocked'
  BY <1>2, <1>3, <1>7 DEF EnsureRelay
<1>8. ASSUME NEW U, CloseUrls(U) PROVE Clocked'
  BY <1>2, <1>8 DEF CloseUrls
<1>9. ASSUME NEW c \in Callers, Abort(c) \/ Catch(c) \/ Attach(c) \/ Release(c) PROVE Clocked'
  BY <1>3, <1>9 DEF Abort, Catch, Attach, Release
<1>10. ASSUME NEW c \in Callers, NEW u \in Urls, Suspended(c, u) PROVE Clocked'
  BY <1>3, <1>10 DEF Suspended
<1>11. ASSUME NEW c \in Callers, NEW kind \in Kinds, Use(c, kind) PROVE Clocked'
  BY <1>3, <1>11 DEF Use
<1>12. ASSUME NEW r \in Relays, Opened(r) \/ SocketDeath(r) \/ ReconnectTimer(r) PROVE Clocked'
  BY <1>3, <1>12 DEF Opened, SocketDeath, ReconnectTimer
<1>13. CASE UNCHANGED vars
  BY <1>3, <1>13 DEF vars
<1>14. CASE (\E u \in Urls : CloseRelay(u)) \/ CleanIdleRelays \/ Close
  BY <1>8, <1>14 DEF CloseRelay, CleanIdleRelays, Close
<1> HIDE DEF Clocked
<1> QED
  BY <1>4, <1>5, <1>6, <1>7, <1>9, <1>10, <1>11, <1>12, <1>13, <1>14 DEF Next

LEMMA StepInv == IInv /\ [Next]_vars => IInv'
  BY StepCore, StepClocked DEF IInv

\* A live relay that the pool owns is not that of a suspended URL.
LEMMA HaltedStaysDown == IInv => SuspendedStaysDown
  BY DEF IInv, Core, Typed, Linked, PoolOwnsSockets, Halted, SuspendedStaysDown, Live

\* The inductive invariant holds in every reachable state.
THEOREM Invariance == Spec => []IInv
  BY InitInv, StepInv, PTL DEF Spec

\* Every variable keeps its type, relays and callers know their URL, and a caller
\* that waits does so for a relay that is connecting.
THEOREM TypeCorrect == Spec => []TypeOK
<1>1. IInv => TypeOK
  BY DEF IInv, Core, TypeOK
<1> QED
  BY <1>1, Invariance, PTL

\* With reconnect enabled Pool.close() reaches every socket, and ensureRelay() opens
\* no second one for a URL, but for the relays in strays: those that a fetch() connects
\* after the pool has closed them, and those that "close" drops with their timer armed.
THEOREM PoolOwns == Spec => []PoolOwnsSockets
<1>1. IInv => PoolOwnsSockets
  BY DEF IInv, Core
<1> QED
  BY <1>1, Invariance, PTL

\* With reconnect enabled, and the relays in strays apart, nothing brings a relay back
\* while its URL counts as suspended.  The suspension itself may end before its time,
\* when the resume timer of an earlier one fires late.
THEOREM SuspensionHolds == Spec => []SuspendedStaysDown
  BY Invariance, HaltedStaysDown, PTL

=============================================================================
