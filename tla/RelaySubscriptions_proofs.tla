---------------------- MODULE RelaySubscriptions_proofs ----------------------
(***************************************************************************)
(* Theorems about RelaySubscriptions, for every set of handles and events, *)
(* every created_at and every clock.                                       *)
(***************************************************************************)
EXTENDS RelaySubscriptions, TLAPS

\* A handle that has not subscribed is unknown to the registry, and an open one is
\* attached to a REQ of its own kind, a one-shot one to its own.
HandlesNamed ==
  /\ \A h \in Handles : IF kind[h] = "new"
                        THEN /\ h \notin subs \cup stranded \cup awaiting
                             /\ \A e \in Events : count[h][e] = 0
                        ELSE wire[h] \in Handles
  /\ \A h \in open : /\ kind[wire[h]] = kind[h]
                     /\ kind[h] = "oneshot" => wire[h] = h

\* An authRetry() of this connection waits for a REQ the relay has closed.
RetriesClosed ==
  /\ ~conn => req = {} /\ awaiting = {}
  /\ awaiting \cap req \subseteq spanned

\* What is in flight is on an open REQ and is what it asks for.
InFlight ==
  \A w \in Handles : /\ w \notin req => stored[w] = {} /\ live[w] = <<>>
                     /\ stored[w] \cup ToSet(live[w]) \subseteq {e \in store : At[e] >= since[w]}

\* The watermark lags behind the clock, and an event at the watermark was handed to
\* every handle that was attached when it came.
WatermarkBehind ==
  /\ \A w \in Handles : last[w] <= now /\ since[w] <= now /\ ids[w] \subseteq store
  /\ \A h \in open \ stranded : \A e \in ids[wire[h]] :
       count[h][e] > 0 \/ <<h, e>> \in Known \/ e \in before[h]

\* As long as no event is dated ahead, the watermark covers what was handed over,
\* and a fresh event in flight is dated no earlier than it and than all before it.
WatermarkCovers ==
  ahead = {} =>
    /\ \A e \in store : At[e] <= now
    /\ \A h \in Handles, e \in Events : count[h][e] > 0 =>
         At[e] <= last[wire[h]] /\ (At[e] = last[wire[h]] => e \in ids[wire[h]])
    /\ \A w \in Handles : \A i \in DOMAIN live[w] : live[w][i] \in fresh =>
         /\ last[w] <= At[live[w][i]]
         /\ \A d \in stored[w] : At[d] <= At[live[w][i]]
         /\ \A j \in 1..i : At[live[w][j]] <= At[live[w][i]]

IInv ==
  /\ TypeOK
  /\ HandlesNamed
  /\ RegistryOwnsHandles
  /\ RetriesClosed
  /\ InFlight
  /\ WatermarkBehind
  /\ WatermarkCovers
  /\ NoFreshEventLost

\* What a REQ has in flight after a step of the registry: what it had; nothing, if it
\* is not open any more; or, if it was sent again, all the relay holds since the
\* watermark.  What the REQ loses is cut.
CutOff(w) ==
  /\ stored[w] \subseteq cut'[w]
  /\ ahead # {} => ToSet(live[w]) \subseteq cut'[w]

Kept(w) ==
  /\ w \in req \cap req'
  /\ stored'[w] = stored[w] /\ live'[w] = live[w] /\ since'[w] = since[w]

Ended(w) ==
  /\ w \notin req'
  /\ stored'[w] = {} /\ live'[w] = <<>>
  /\ CutOff(w)

SentAgain(w) ==
  /\ w \in req'
  /\ \A e \in Valid : e \in stored'[w] <=> e \in store /\ At[e] >= last[w]
  /\ live'[w] = <<>> /\ since'[w] = last[w]
  /\ CutOff(w)

Flow ==
  /\ req' \subseteq Handles
  /\ since' \in [Handles -> 0..LastSecond]
  /\ stored' \in [Handles -> SUBSET Valid]
  /\ live' \in [Handles -> Seq(Valid)]
  /\ cut' \in [Handles -> SUBSET Valid]
  /\ \A w \in Handles : /\ since'[w] <= now /\ cut[w] \subseteq cut'[w]
                        /\ Kept(w) \/ Ended(w) \/ SentAgain(w)

\* RelayHolds() is such a step.
LEMMA RelayHoldsFlow ==
  ASSUME IInv, NEW W \in SUBSET Handles, NEW New \in SUBSET W, W \ New \subseteq req,
         RelayHolds(W, New)
  PROVE  Flow
<1>1. /\ req \subseteq Handles
      /\ since \in [Handles -> 0..LastSecond]
      /\ stored \in [Handles -> SUBSET Valid] /\ live \in [Handles -> Seq(Valid)]
      /\ cut \in [Handles -> SUBSET Valid]
      /\ last \in [Handles -> 0..LastSecond] /\ now \in 1..LastSecond
      /\ store \subseteq Valid
  BY DEF IInv, TypeOK
<1>2. <<>> \in Seq(Valid) /\ \A w \in Handles : ToSet(live[w]) \subseteq Valid
  BY <1>1 DEF ToSet
<1>3. \A w \in Handles : last[w] <= now /\ since[w] <= now
  BY DEF IInv, WatermarkBehind
<1>4. /\ req' = W
      /\ since' = [w \in Handles |-> IF w \in New THEN last[w] ELSE IF w \in W THEN since[w] ELSE 0]
      /\ stored' = [w \in Handles |-> IF w \in New THEN {e \in store : At[e] >= since'[w]}
                                      ELSE IF w \in W THEN stored[w] ELSE {}]
      /\ live' = [w \in Handles |-> IF w \in W \ New THEN live[w] ELSE <<>>]
      /\ cut' = [w \in Handles |->
           IF w \in W \ New THEN cut[w]
           ELSE cut[w] \cup stored[w] \cup (IF ahead = {} THEN {} ELSE ToSet(live[w]))]
  BY DEF RelayHolds, ReplaySince
<1>5. since' \in [Handles -> 0..LastSecond] /\ \A w \in Handles : since'[w] <= now
  BY <1>1, <1>3, <1>4, ClockAssumption
<1>6. stored' \in [Handles -> SUBSET Valid] /\ cut' \in [Handles -> SUBSET Valid]
  BY <1>1, <1>2, <1>4
<1>7. live' \in [Handles -> Seq(Valid)]
  BY <1>1, <1>2, <1>4
<1>8. ASSUME NEW w \in Handles
      PROVE  cut[w] \subseteq cut'[w] /\ (w \notin W \ New => CutOff(w))
  BY <1>1, <1>2, <1>4 DEF CutOff
<1>9. ASSUME NEW w \in W \ New PROVE Kept(w)
  BY <1>4, <1>9 DEF Kept
<1>10. ASSUME NEW w \in Handles \ W PROVE Ended(w)
  BY <1>4, <1>8, <1>10 DEF Ended
<1>11. ASSUME NEW w \in New PROVE SentAgain(w)
  <2>1. since'[w] = last[w] /\ stored'[w] = {e \in store : At[e] >= since'[w]} /\ live'[w] = <<>>
    BY <1>4, <1>11
  <2> QED
    BY <1>1, <1>4, <1>8, <1>11, <2>1 DEF SentAgain
<1> QED
  BY <1>4, <1>5, <1>6, <1>7, <1>8, <1>9, <1>10, <1>11 DEF Flow

\* So is one that leaves the relay alone.
LEMMA UnchangedFlow ==
  ASSUME IInv, UNCHANGED remoteVars
  PROVE  Flow
  BY DEF IInv, TypeOK, InFlight, WatermarkBehind, remoteVars, Flow, Kept, Ended, CutOff, ToSet

\* A step of the registry that neither hands an event over nor publishes one loses
\* no fresh event, whatever it does to the handles: those that stay open stay
\* attached, and what a new one wants was not published before.
LEMMA RegistryStep ==
  ASSUME IInv, Flow,
         UNCHANGED <<now, store, last, ids, count, fresh, ahead>>,
         \A h \in Handles : kind[h] # "new" => wire'[h] = wire[h],
         open' \subseteq Handles,
         \A h \in open' \ stranded' :
           /\ wire'[h] \in Handles
           /\ before'[h] = store \/ (h \in open \ stranded /\ before'[h] = before[h])
  PROVE  (InFlight /\ WatermarkBehind /\ WatermarkCovers /\ NoFreshEventLost)'
<1>1. TypeOK /\ HandlesNamed /\ InFlight /\ WatermarkBehind /\ WatermarkCovers /\ NoFreshEventLost
  BY DEF IInv
<1>2. ToSet(<<>>) = {} /\ DOMAIN <<>> = {}
  BY DEF ToSet
<1>3. \A h \in open \ stranded : h \in Handles /\ kind[h] # "new" /\ wire'[h] = wire[h]
  BY <1>1 DEF TypeOK
<1>3a. \A w \in Handles : Kept(w) \/ (live'[w] = <<>> /\ CutOff(w) /\ (Ended(w) \/ SentAgain(w)))
  BY DEF Flow, Ended, SentAgain
<1>4. InFlight'
  <2> SUFFICES ASSUME NEW w \in Handles
               PROVE  /\ w \notin req' => stored'[w] = {} /\ live'[w] = <<>>
                      /\ stored'[w] \cup ToSet(live'[w]) \subseteq {e \in store : At[e] >= since'[w]}
    BY DEF InFlight, ToSet
  <2>1. stored[w] \cup ToSet(live[w]) \subseteq {e \in store : At[e] >= since[w]}
    BY <1>1 DEF InFlight
  <2>2. CASE live'[w] = <<>>
    BY <1>1, <1>2, <1>3a, <2>1, <2>2 DEF Kept, Ended, SentAgain, Flow, TypeOK
  <2>3. CASE live'[w] # <<>>
    BY <1>3a, <2>1, <2>3 DEF Kept
  <2> QED
    BY <2>2, <2>3
<1>5. WatermarkBehind'
  BY <1>1, <1>3 DEF WatermarkBehind, Flow
<1>6. WatermarkCovers'
  <2> SUFFICES ASSUME ahead = {} PROVE WatermarkCovers'
    BY DEF WatermarkCovers
  <2>1. \A h \in Handles, e \in Events : count[h][e] > 0 => wire'[h] = wire[h]
    BY <1>1 DEF HandlesNamed
  <2>2. \A w \in Handles : \A i \in DOMAIN live'[w] : live'[w][i] \in fresh =>
         /\ last[w] <= At[live'[w][i]]
         /\ \A d \in stored'[w] : At[d] <= At[live'[w][i]]
         /\ \A j \in 1..i : At[live'[w][j]] <= At[live'[w][i]]
    BY <1>1, <1>2, <1>3a DEF WatermarkCovers, Kept
  <2> QED
    BY <1>1, <2>1, <2>2 DEF WatermarkCovers
<1>7. NoFreshEventLost'
  <2> SUFFICES ASSUME NEW h \in open' \ stranded', NEW e \in fresh \ (before'[h] \cup cut'[wire'[h]])
               PROVE  \/ count[h][e] > 0 \/ <<h, e>> \in Known
                      \/ e \in stored'[wire'[h]] \cup ToSet(live'[wire'[h]])
                      \/ wire'[h] \notin req' /\ At[e] >= last[wire'[h]]
    BY DEF NoFreshEventLost, ToSet
  <2> DEFINE w == wire[h]
  <2>1. /\ h \in open \ stranded /\ before'[h] = before[h] /\ wire'[h] = w /\ w \in Handles
        /\ e \in store
    BY <1>1, <1>3 DEF TypeOK
  <2>2. e \notin cut[w]
    BY <2>1 DEF Flow
  <2>3. \/ count[h][e] > 0 \/ <<h, e>> \in Known
        \/ e \in stored[w] \cup ToSet(live[w])
        \/ w \notin req /\ At[e] >= last[w]
    BY <1>1, <2>1, <2>2 DEF NoFreshEventLost
  <2>4. ahead = {} /\ e \in ToSet(live[w]) => At[e] >= last[w]
    BY <1>1, <2>1 DEF WatermarkCovers, ToSet, TypeOK
  <2> QED
    BY <1>1, <1>2, <1>3a, <2>1, <2>2, <2>3, <2>4 DEF Kept, Ended, SentAgain, CutOff, TypeOK
<1> QED
  BY <1>4, <1>5, <1>6, <1>7

\* A sequence with one more element at its end, and one without its first.
LEMMA AppendElements ==
  ASSUME NEW S, NEW s \in Seq(S), NEW e \in S
  PROVE  /\ Append(s, e) \in Seq(S)
         /\ DOMAIN Append(s, e) = 1..(Len(s) + 1) /\ DOMAIN s = 1..Len(s) /\ Len(s) \in Nat
         /\ \A i \in DOMAIN s : Append(s, e)[i] = s[i]
         /\ Append(s, e)[Len(s) + 1] = e
         /\ ToSet(Append(s, e)) = ToSet(s) \cup {e}
<1>1. /\ Append(s, e) \in Seq(S)
      /\ DOMAIN Append(s, e) = 1..(Len(s) + 1) /\ DOMAIN s = 1..Len(s) /\ Len(s) \in Nat
      /\ \A i \in DOMAIN s : Append(s, e)[i] = s[i]
      /\ Append(s, e)[Len(s) + 1] = e
  OBVIOUS
<1> QED
  BY <1>1 DEF ToSet

LEMMA TailElements ==
  ASSUME NEW S, NEW s \in Seq(S), s # <<>>
  PROVE  /\ Head(s) \in S /\ Tail(s) \in Seq(S) /\ Head(s) = s[1]
         /\ \A i \in DOMAIN Tail(s) : i \in Nat /\ i + 1 \in DOMAIN s /\ Tail(s)[i] = s[i + 1]
         /\ \A i \in DOMAIN Tail(s) : \A j \in 1..i : j + 1 \in 1..(i + 1) /\ j \in DOMAIN Tail(s)
         /\ 1 \in DOMAIN s /\ \A i \in DOMAIN s : i \in Nat /\ (i = 1 \/ (i - 1 \in DOMAIN Tail(s) /\ i = (i - 1) + 1))
         /\ ToSet(s) = ToSet(Tail(s)) \cup {Head(s)}
<1>1. /\ Head(s) \in S /\ Tail(s) \in Seq(S) /\ Head(s) = s[1]
      /\ \A i \in DOMAIN Tail(s) : i \in Nat /\ i + 1 \in DOMAIN s /\ Tail(s)[i] = s[i + 1]
      /\ \A i \in DOMAIN Tail(s) : \A j \in 1..i : j + 1 \in 1..(i + 1) /\ j \in DOMAIN Tail(s)
      /\ 1 \in DOMAIN s /\ \A i \in DOMAIN s : i \in Nat /\ (i = 1 \/ (i - 1 \in DOMAIN Tail(s) /\ i = (i - 1) + 1))
  OBVIOUS
<1> QED
  BY <1>1 DEF ToSet

\* The clock.
LEMMA TickInv == IInv /\ Tick => IInv'
<1> SUFFICES ASSUME IInv, Tick PROVE IInv'
  OBVIOUS
<1>1. /\ now' = now + 1 /\ now < LastSecond
      /\ UNCHANGED <<conn, store, req, since, stored, live, cut, kind, open, wire, eosed, timer, subs, joinable,
                     wireEosed, authRetried, awaiting, stale, spanned, last, ids, count, before, fresh, ahead,
                     relayEosed, stranded, bornClosed>>
  BY DEF Tick, remoteVars, handleVars, wireVars, histVars, retryVars
<1>2. TypeOK'
  BY <1>1, ClockAssumption DEF IInv, TypeOK
<1>3. (HandlesNamed /\ RegistryOwnsHandles /\ RetriesClosed /\ InFlight)'
  BY <1>1 DEF IInv, HandlesNamed, RegistryOwnsHandles, RetriesClosed, InFlight, OpenWires, Attached, ToSet
<1>4. now \in Nat /\ now' \in Nat /\ store \subseteq Valid /\ Valid \subseteq Events /\ At \in [Events -> Nat]
  BY <1>1, ClockAssumption, ValidAssumption DEF IInv, TypeOK
<1>5. WatermarkBehind'
  BY <1>1, <1>4 DEF IInv, TypeOK, WatermarkBehind
<1>6. WatermarkCovers'
  BY <1>1, <1>4 DEF IInv, TypeOK, WatermarkCovers
<1>7. NoFreshEventLost'
  BY <1>1 DEF IInv, NoFreshEventLost
<1> QED
  BY <1>2, <1>3, <1>5, <1>6, <1>7 DEF IInv

\* An event published while the relay serves subscriptions.
LEMMA PublishInv == ASSUME IInv, NEW e \in Events, Publish(e) PROVE IInv'
<1>1. /\ e \in Valid \ store /\ store' = store \cup {e}
      /\ live' = [w \in Handles |-> IF w \in req /\ At[e] >= since[w] THEN Append(live[w], e) ELSE live[w]]
      /\ fresh' = IF At[e] >= now THEN fresh \cup {e} ELSE fresh
      /\ ahead' = IF At[e] > now THEN ahead \cup {e} ELSE ahead
      /\ UNCHANGED <<conn, now, req, since, stored, cut, kind, open, wire, eosed, timer, subs, joinable,
                     wireEosed, authRetried, awaiting, stale, spanned, last, ids, count, before,
                     relayEosed, stranded, bornClosed>>
  BY DEF Publish, handleVars, wireVars, retryVars
<1>2. /\ TypeOK /\ HandlesNamed /\ RegistryOwnsHandles /\ RetriesClosed
      /\ InFlight /\ WatermarkBehind /\ WatermarkCovers /\ NoFreshEventLost
  BY DEF IInv
<1>3. /\ now \in Nat /\ store \subseteq Valid /\ Valid \subseteq Events /\ At \in [Events -> Nat] /\ fresh \subseteq store
      /\ \A w \in Handles : last[w] \in Nat /\ since[w] \in Nat /\ live[w] \in Seq(Valid) /\ stored[w] \subseteq Valid
  BY <1>2, ClockAssumption, ValidAssumption DEF TypeOK
<1>4. \A w \in Handles : \/ w \notin req /\ live'[w] = live[w]
                         \/ w \in req /\ At[e] < since[w] /\ live'[w] = live[w]
                         \/ w \in req /\ At[e] >= since[w] /\ live'[w] = Append(live[w], e)
  BY <1>1, <1>3
<1>5. TypeOK'
  <2>1. live' \in [Handles -> Seq(Valid)]
    BY <1>1, <1>3
  <2> QED
    BY <1>1, <1>2, <2>1 DEF TypeOK
<1>6. (HandlesNamed /\ RegistryOwnsHandles /\ RetriesClosed)'
  BY <1>1, <1>2 DEF HandlesNamed, RegistryOwnsHandles, RetriesClosed, OpenWires, Attached
<1>7. \A w \in Handles : ToSet(live[w]) \subseteq ToSet(live'[w]) /\ ToSet(live'[w]) \subseteq ToSet(live[w]) \cup {e}
  BY <1>1, <1>3, <1>4, AppendElements
<1>8. InFlight'
  BY <1>1, <1>2, <1>3, <1>4, <1>7, AppendElements DEF InFlight
<1>9. WatermarkBehind'
  BY <1>1, <1>2 DEF WatermarkBehind
<1>10. WatermarkCovers'
  <2> SUFFICES ASSUME ahead' = {} PROVE WatermarkCovers'
    BY DEF WatermarkCovers
  <2>1. ahead = {} /\ At[e] <= now
    <3>1. ~(At[e] > now)
      <4> SUFFICES ASSUME At[e] > now PROVE e \in ahead'
        OBVIOUS
      <4> QED
        BY <1>1
    <3> QED
      BY <1>1, <1>3, <3>1
  <2>2. \A d \in store' : At[d] <= now
    BY <1>1, <1>2, <2>1 DEF WatermarkCovers
  <2>3. ASSUME NEW w \in Handles, NEW i \in DOMAIN live'[w], live'[w][i] \in fresh'
        PROVE  /\ last[w] <= At[live'[w][i]]
               /\ \A d \in stored[w] : At[d] <= At[live'[w][i]]
               /\ \A j \in 1..i : At[live'[w][j]] <= At[live'[w][i]]
    <3>1. CASE i \in DOMAIN live[w]
      <4>1. live'[w][i] = live[w][i] /\ \A j \in 1..i : live'[w][j] = live[w][j]
        <5>1. CASE live'[w] = live[w]
          BY <1>3, <3>1, <5>1
        <5>2. CASE live'[w] = Append(live[w], e)
          <6>1. live[w] \in Seq(Valid) /\ e \in Valid
            BY <1>1, <1>3
          <6>2. \A j \in DOMAIN live[w] : live'[w][j] = live[w][j]
            BY <5>2, <6>1, AppendElements
          <6>3. i \in 1..Len(live[w]) /\ DOMAIN live[w] = 1..Len(live[w]) /\ Len(live[w]) \in Nat
            BY <3>1, <6>1, AppendElements
          <6> QED
            BY <6>2, <6>3
        <5> QED
          BY <1>4, <5>1, <5>2
      <4>2. live[w][i] \in fresh
        <5>1. live[w][i] \in store
          BY <1>2, <3>1 DEF InFlight, ToSet
        <5> QED
          BY <1>1, <2>3, <4>1, <5>1
      <4> QED
        BY <1>2, <2>1, <3>1, <4>1, <4>2 DEF WatermarkCovers
    <3>2. CASE i \notin DOMAIN live[w]
      <4>1. live'[w][i] = e /\ live'[w] = Append(live[w], e) /\ At[e] >= now
        <5>1. live'[w] = Append(live[w], e) /\ i = Len(live[w]) + 1 /\ live'[w][i] = e
          BY <1>1, <1>3, <1>4, <2>3, <3>2, AppendElements
        <5> QED
          BY <1>1, <1>2, <2>3, <5>1 DEF TypeOK
      <4>2. last[w] <= now
        BY <1>2 DEF WatermarkBehind
      <4>3. ToSet(live'[w]) \subseteq store' /\ stored[w] \subseteq store'
        BY <1>1, <1>2, <1>7 DEF InFlight
      <4>4. \A j \in 1..i : live'[w][j] \in ToSet(live'[w])
        BY <1>3, <2>3, <4>1, AppendElements DEF ToSet
      <4> QED
        BY <1>1, <1>3, <2>2, <4>1, <4>2, <4>3, <4>4, SMTT(30)
    <3> QED
      BY <3>1, <3>2
  <2> QED
    BY <1>1, <1>2, <2>1, <2>2, <2>3 DEF WatermarkCovers
<1>11. NoFreshEventLost'
  <2> SUFFICES ASSUME NEW h \in open \ stranded, NEW d \in fresh' \ (before[h] \cup cut[wire[h]])
               PROVE  \/ count[h][d] > 0 \/ <<h, d>> \in Known
                      \/ d \in stored[wire[h]] \cup ToSet(live'[wire[h]])
                      \/ wire[h] \notin req /\ At[d] >= last[wire[h]]
    BY <1>1 DEF NoFreshEventLost
  <2>1. h \in Handles /\ wire[h] \in Handles
    BY <1>2 DEF TypeOK, HandlesNamed
  <2>2. CASE d \in fresh
    BY <1>2, <1>7, <2>1, <2>2 DEF NoFreshEventLost
  <2>3. CASE d \notin fresh
    <3>1. d = e /\ At[e] >= now
      BY <1>1, <2>3
    <3>2. At[e] >= since[wire[h]] /\ At[e] >= last[wire[h]]
      BY <1>2, <1>3, <2>1, <3>1 DEF WatermarkBehind
    <3>3. wire[h] \in req => e \in ToSet(live'[wire[h]])
      <4> SUFFICES ASSUME wire[h] \in req PROVE e \in ToSet(live'[wire[h]])
        OBVIOUS
      <4>1. live'[wire[h]] = Append(live[wire[h]], e)
        BY <1>1, <2>1, <3>2
      <4>2. live[wire[h]] \in Seq(Valid) /\ e \in Valid
        BY <1>1, <1>3, <2>1
      <4> QED
        BY <4>1, <4>2, AppendElements
    <3> QED
      BY <3>1, <3>2, <3>3
  <2> QED
    BY <2>2, <2>3
<1> QED
  BY <1>5, <1>6, <1>8, <1>9, <1>10, <1>11 DEF IInv

\* The body of RepeatsOnlyBehindWatermark.
RepeatBehind ==
  \A h \in Handles, e \in Events :
    count[h][e] > 0 /\ count'[h][e] > count[h][e] /\ ahead = {} => last[wire[h]] > since[wire[h]]

\* An event from the relay, handed to the handles of its REQ.
LEMMA RecvEventInv == ASSUME IInv, NEW w \in Handles, NEW e \in Events, RecvEvent(w, e)
                      PROVE  IInv' /\ RepeatBehind
<1> DEFINE R == Recipients(w, e)
           given == w \in subs /\ R # {}
           ts == IF At[e] < now THEN At[e] ELSE now
<1>1. /\ w \in req
      /\ UNCHANGED <<conn, now, store, req, since, cut, kind, open, wire, eosed, timer, subs, joinable,
                     wireEosed, authRetried, awaiting, stale, spanned, before, fresh, ahead,
                     relayEosed, stranded, bornClosed>>
  BY DEF RecvEvent, handleVars, retryVars
<1>2. /\ TypeOK /\ HandlesNamed /\ RegistryOwnsHandles /\ RetriesClosed
      /\ InFlight /\ WatermarkBehind /\ WatermarkCovers /\ NoFreshEventLost
  BY DEF IInv
<1>3. /\ now \in 1..LastSecond /\ LastSecond \in Nat /\ store \subseteq Valid /\ Valid \subseteq Events
      /\ At \in [Events -> Nat \ {0}] /\ fresh \subseteq store
      /\ stored \in [Handles -> SUBSET Valid] /\ live \in [Handles -> Seq(Valid)]
      /\ count \in [Handles -> [Events -> 0..2]]
      /\ last \in [Handles -> 0..LastSecond] /\ since \in [Handles -> 0..LastSecond]
      /\ ids \in [Handles -> SUBSET Valid]
  BY <1>2, ClockAssumption, ValidAssumption DEF TypeOK
<1>4. /\ R \subseteq open /\ \A h \in R : wire[h] = w /\ h \in Handles /\ kind[h] # "new"
      /\ R # {} => e \in Valid /\ e \notin ids[w]
      /\ e \in Valid /\ e \notin ids[w] => \A h \in open : wire[h] = w => h \in R \/ <<h, e>> \in Known
  BY <1>2 DEF Recipients, AtWatermark, Attached, TypeOK
<1>5. \/ /\ given
         /\ last' = [last EXCEPT ![w] = IF ts > last[w] THEN ts ELSE last[w]]
         /\ ids' = [ids EXCEPT ![w] = IF ts > last[w] THEN {e}
                                      ELSE IF ts = last[w] THEN ids[w] \cup {e} ELSE ids[w]]
         /\ count' = [h \in Handles |-> IF h \in R /\ count[h][e] < 2
                                        THEN [count[h] EXCEPT ![e] = count[h][e] + 1] ELSE count[h]]
      \/ ~given /\ UNCHANGED <<last, ids, count>>
  BY DEF RecvEvent, NoteVerified
<1>6. \/ /\ e \in stored[w] /\ stored' = [stored EXCEPT ![w] = stored[w] \ {e}] /\ live' = live
      \/ /\ live[w] # <<>> /\ e = Head(live[w])
         /\ live' = [live EXCEPT ![w] = Tail(live[w])] /\ stored' = stored
      \/ e \notin Valid /\ stored' = stored /\ live' = live
  BY DEF RecvEvent
<1> HIDE DEF R
<1>7. ts \in 1..LastSecond /\ ts <= now
  BY <1>3
<1>7a. \A h \in Handles, d \in Events : count[h][d] \in 0..2
  BY <1>3
<1>8. /\ count' \in [Handles -> [Events -> 0..2]]
      /\ \A h \in Handles, d \in Events :
           /\ count'[h][d] >= count[h][d]
           /\ count'[h][d] # count[h][d] => given /\ h \in R /\ d = e
      /\ \A h \in Handles : given /\ h \in R => count'[h][e] > 0
  <2>1. CASE given
    <3>1. count' = [h \in Handles |-> IF h \in R /\ count[h][e] < 2
                                      THEN [count[h] EXCEPT ![e] = count[h][e] + 1] ELSE count[h]]
      BY <1>5, <2>1
    <3>2. \A h \in Handles : count[h] \in [Events -> 0..2]
      BY <1>3
    <3>3. ASSUME NEW h \in Handles
          PROVE  /\ count'[h] \in [Events -> 0..2]
                 /\ \A d \in Events : /\ count'[h][d] >= count[h][d]
                                      /\ count'[h][d] # count[h][d] => h \in R /\ d = e
                 /\ h \in R => count'[h][e] > 0
      <4>1. CASE h \in R /\ count[h][e] < 2
        <5>1. count'[h] = [count[h] EXCEPT ![e] = count[h][e] + 1]
          BY <3>1, <4>1
        <5> QED
          BY <3>2, <4>1, <5>1
      <4>2. CASE ~(h \in R /\ count[h][e] < 2)
        BY <3>1, <3>2, <4>2
      <4> QED
        BY <4>1, <4>2
    <3>4. count' \in [Handles -> [Events -> 0..2]]
      BY <3>1, <3>3
    <3>5. ASSUME NEW h \in Handles, NEW d \in Events
          PROVE  /\ count'[h][d] >= count[h][d]
                 /\ count'[h][d] # count[h][d] => given /\ h \in R /\ d = e
      BY <2>1, <3>3
    <3>6. ASSUME NEW h \in Handles, given, h \in R PROVE count'[h][e] > 0
      BY <3>3, <3>6
    <3> HIDE DEF given
    <3> QED
      BY <3>4, <3>5, <3>6
  <2>2. CASE ~given
    <3>1. count' = count /\ \A h \in Handles, d \in Events : count[h][d] \in 0..2
      BY <1>3, <1>5, <2>2
    <3>2. count' \in [Handles -> [Events -> 0..2]]
      BY <1>3, <3>1
    <3>3. \A h \in Handles, d \in Events : count'[h][d] = count[h][d] /\ count[h][d] \in 0..2
      BY <3>1
    <3> HIDE DEF given
    <3> QED
      BY <2>2, <3>2, <3>3
  <2> QED
    BY <2>1, <2>2
<1>9. /\ last' \in [Handles -> 0..LastSecond] /\ ids' \in [Handles -> SUBSET Valid]
      /\ \A v \in Handles : last'[v] # last[v] => v = w /\ given /\ last'[w] = ts /\ ts > last[w]
      /\ \A v \in Handles : last[v] <= last'[v] /\ last'[v] <= now
      /\ \A v \in Handles : \A d \in ids'[v] : d \in ids[v] \/ (v = w /\ given /\ d = e)
      /\ \A v \in Handles : last'[v] = last[v] => ids[v] \subseteq ids'[v]
      /\ given => ts <= last'[w] /\ (ts = last'[w] => e \in ids'[w])
  <2>1. CASE given
    <3>1. /\ last' = [last EXCEPT ![w] = IF ts > last[w] THEN ts ELSE last[w]]
          /\ ids' = [ids EXCEPT ![w] = IF ts > last[w] THEN {e}
                                       ELSE IF ts = last[w] THEN ids[w] \cup {e} ELSE ids[w]]
          /\ e \in Valid
      BY <1>4, <1>5, <2>1
    <3>2. \A v \in Handles : last[v] <= now /\ last[v] \in 0..LastSecond /\ ids[v] \subseteq Valid
      BY <1>2, <1>3 DEF WatermarkBehind
    <3> HIDE DEF ts, given
    <3> QED
      BY <1>3, <1>7, <2>1, <3>1, <3>2
  <2>2. CASE ~given
    BY <1>2, <1>3, <1>5, <2>2 DEF WatermarkBehind
  <2> QED
    BY <2>1, <2>2
<1> HIDE DEF given, ts
<1>10. /\ stored' \in [Handles -> SUBSET Valid] /\ live' \in [Handles -> Seq(Valid)]
       /\ \A v \in Handles \ {w} : stored'[v] = stored[v] /\ live'[v] = live[v]
       /\ stored'[w] \subseteq stored[w] /\ ToSet(live'[w]) \subseteq ToSet(live[w])
       /\ stored[w] \subseteq stored'[w] \cup {e} /\ ToSet(live[w]) \subseteq ToSet(live'[w]) \cup {e}
       /\ e \in Valid => e \in stored[w] \cup ToSet(live[w])
  <2>1. CASE e \in stored[w] /\ stored' = [stored EXCEPT ![w] = stored[w] \ {e}] /\ live' = live
    BY <1>3, <2>1
  <2>2. CASE live[w] # <<>> /\ e = Head(live[w]) /\ live' = [live EXCEPT ![w] = Tail(live[w])] /\ stored' = stored
    <3>1. live[w] # <<>> /\ e = Head(live[w]) /\ live[w] \in Seq(Valid)
          /\ live' = [live EXCEPT ![w] = Tail(live[w])] /\ stored' = stored
      BY <1>3, <2>2
    <3>2. Tail(live[w]) \in Seq(Valid) /\ ToSet(live[w]) = ToSet(Tail(live[w])) \cup {e}
      BY <3>1, TailElements
    <3> QED
      BY <1>3, <3>1, <3>2
  <2>3. CASE e \notin Valid /\ stored' = stored /\ live' = live
    BY <1>3, <2>3
  <2> QED
    BY <1>6, <2>1, <2>2, <2>3
<1>11. \A v \in Handles : /\ stored'[v] \subseteq stored[v] /\ ToSet(live'[v]) \subseteq ToSet(live[v])
                          /\ stored[v] \cup ToSet(live[v]) \subseteq stored'[v] \cup ToSet(live'[v]) \cup (IF v = w THEN {e} ELSE {})
  BY <1>10
<1>12. TypeOK'
  BY <1>1, <1>2, <1>8, <1>9, <1>10 DEF TypeOK
<1>13. HandlesNamed' /\ RegistryOwnsHandles' /\ RetriesClosed'
  <2>1. \A h \in Handles : kind[h] = "new" => \A d \in Events : count'[h][d] = count[h][d]
    BY <1>4, <1>8
  <2> QED
    BY <1>1, <1>2, <2>1 DEF HandlesNamed, RegistryOwnsHandles, RetriesClosed, OpenWires, Attached
<1>14. InFlight'
  <2>1. \A v \in Handles \ req : live'[v] = live[v] /\ stored'[v] = stored[v]
    BY <1>1, <1>10
  <2> QED
    BY <1>1, <1>2, <1>11, <2>1 DEF InFlight
<1>15. given => e \in Valid /\ e \in store /\ At[e] >= since[w]
  BY <1>2, <1>4, <1>10 DEF InFlight, given
<1>16. WatermarkBehind'
  <2>1. \A v \in Handles : last'[v] <= now /\ since[v] <= now /\ ids'[v] \subseteq store
    BY <1>2, <1>9, <1>15 DEF WatermarkBehind
  <2>2. ASSUME NEW h \in open \ stranded, NEW d \in ids'[wire[h]]
        PROVE  count'[h][d] > 0 \/ <<h, d>> \in Known \/ d \in before[h]
    <3>1. h \in Handles /\ wire[h] \in Handles
      BY <1>2 DEF TypeOK, HandlesNamed
    <3>2. d \in Events
      BY <1>3, <1>9, <3>1
    <3>3. CASE d \in ids[wire[h]]
      <4>1. count[h][d] > 0 \/ <<h, d>> \in Known \/ d \in before[h]
        BY <1>2, <3>3 DEF WatermarkBehind
      <4>2. count'[h][d] >= count[h][d] /\ count[h][d] \in 0..2 /\ count'[h][d] \in 0..2
        BY <1>3, <1>8, <3>1, <3>2
      <4> QED
        BY <4>1, <4>2
    <3>4. CASE d \notin ids[wire[h]]
      <4>1. wire[h] = w /\ given /\ d = e
        BY <1>9, <3>1, <3>4
      <4> QED
        BY <1>4, <1>8, <3>1, <3>2, <4>1 DEF given
    <3> QED
      BY <3>3, <3>4
  <2> QED
    BY <1>1, <2>1, <2>2 DEF WatermarkBehind
<1>17. WatermarkCovers'
  <2> SUFFICES ASSUME ahead = {} PROVE WatermarkCovers'
    BY <1>1 DEF WatermarkCovers
  <2>1. /\ \A d \in store : At[d] <= now
        /\ \A h \in Handles, d \in Events : count[h][d] > 0 =>
             At[d] <= last[wire[h]] /\ (At[d] = last[wire[h]] => d \in ids[wire[h]])
        /\ \A v \in Handles : \A i \in DOMAIN live[v] : live[v][i] \in fresh =>
             /\ last[v] <= At[live[v][i]]
             /\ \A d \in stored[v] : At[d] <= At[live[v][i]]
             /\ \A j \in 1..i : At[live[v][j]] <= At[live[v][i]]
    BY <1>2 DEF WatermarkCovers
  <2>2. given => ts = At[e]
    BY <1>3, <1>15, <2>1 DEF ts
  <2>3. ASSUME NEW h \in Handles, NEW d \in Events, count'[h][d] > 0
        PROVE  At[d] <= last'[wire[h]] /\ (At[d] = last'[wire[h]] => d \in ids'[wire[h]])
    <3>1. CASE count'[h][d] = count[h][d]
      <4>1. wire[h] \in Handles
        BY <1>2, <2>3, <3>1 DEF HandlesNamed
      <4>2. At[d] <= last[wire[h]] /\ (At[d] = last[wire[h]] => d \in ids[wire[h]])
        BY <2>1, <2>3, <3>1
      <4>3. /\ last[wire[h]] <= last'[wire[h]] /\ last[wire[h]] \in Nat /\ last'[wire[h]] \in Nat /\ At[d] \in Nat
            /\ last'[wire[h]] = last[wire[h]] => ids[wire[h]] \subseteq ids'[wire[h]]
        BY <1>3, <1>9, <4>1
      <4> QED
        BY <4>2, <4>3
    <3>2. CASE count'[h][d] # count[h][d]
      BY <1>4, <1>8, <1>9, <2>2, <2>3, <3>2
    <3> QED
      BY <3>1, <3>2
  <2>4. ASSUME NEW v \in Handles, NEW i \in DOMAIN live'[v], live'[v][i] \in fresh
        PROVE  /\ last'[v] <= At[live'[v][i]]
               /\ \A d \in stored'[v] : At[d] <= At[live'[v][i]]
               /\ \A j \in 1..i : At[live'[v][j]] <= At[live'[v][i]]
    <3>1. PICK k \in DOMAIN live[v] : /\ live'[v][i] = live[v][k]
                                      /\ \A j \in 1..i : \E m \in 1..k : live'[v][j] = live[v][m]
                                      /\ v = w => e \in stored[w] \/ (\E m \in 1..k : e = live[v][m]) \/ e \notin Valid
      <4>1. CASE live'[v] = live[v] /\ (v = w => e \in stored[w] \/ e \notin Valid)
        <5>1. live[v] \in Seq(Valid)
          BY <1>3
        <5>2. i \in DOMAIN live[v] /\ \A j \in 1..i : j \in 1..i /\ live'[v][j] = live[v][j]
          BY <2>4, <4>1
        <5> QED
          BY <4>1, <5>2
      <4>2. CASE v = w /\ live[w] # <<>> /\ e = Head(live[w]) /\ live'[v] = Tail(live[w])
        <5>1. live[w] \in Seq(Valid) /\ i \in DOMAIN Tail(live[w])
          BY <1>3, <2>4, <4>2
        <5>2. /\ i \in Nat /\ i + 1 \in DOMAIN live[w] /\ live'[w][i] = live[w][i + 1]
              /\ \A j \in 1..i : j + 1 \in 1..(i + 1) /\ live'[w][j] = live[w][j + 1]
              /\ e = live[w][1] /\ 1 \in 1..(i + 1)
          BY <4>2, <5>1, TailElements
        <5> QED
          BY <4>2, <5>2
      <4> QED
        BY <1>3, <1>6, <1>10, <4>1, <4>2
    <3>2. /\ last[v] <= At[live[v][k]]
          /\ \A d \in stored[v] : At[d] <= At[live[v][k]]
          /\ \A m \in 1..k : At[live[v][m]] <= At[live[v][k]]
      BY <2>1, <2>4, <3>1
    <3>3. last'[v] <= At[live'[v][i]]
      BY <1>9, <1>15, <2>2, <3>1, <3>2
    <3> QED
      BY <1>11, <3>1, <3>2, <3>3
  <2> QED
    BY <1>1, <2>1, <2>3, <2>4 DEF WatermarkCovers
<1>18. NoFreshEventLost'
  <2> SUFFICES ASSUME NEW h \in open \ stranded, NEW d \in fresh \ (before[h] \cup cut[wire[h]])
               PROVE  \/ count'[h][d] > 0 \/ <<h, d>> \in Known
                      \/ d \in stored'[wire[h]] \cup ToSet(live'[wire[h]])
                      \/ wire[h] \notin req /\ At[d] >= last'[wire[h]]
    BY <1>1 DEF NoFreshEventLost
  <2>1. h \in Handles /\ wire[h] \in Handles /\ wire[h] \in subs
    BY <1>2 DEF TypeOK, HandlesNamed, RegistryOwnsHandles
  <2>2. d \in Events /\ d \in Valid
    BY <1>3
  <2>3. \/ count[h][d] > 0 \/ <<h, d>> \in Known
        \/ d \in stored[wire[h]] \cup ToSet(live[wire[h]])
        \/ wire[h] \notin req /\ At[d] >= last[wire[h]]
    BY <1>2 DEF NoFreshEventLost
  <2>4. count'[h][d] >= count[h][d] /\ count[h][d] \in 0..2 /\ count'[h][d] \in 0..2
    <3>1. count'[h] \in [Events -> 0..2]
      BY <1>8, <2>1
    <3> QED
      BY <1>7a, <1>8, <2>1, <2>2, <3>1
  <2>5. CASE wire[h] # w
    BY <1>9, <1>10, <2>1, <2>3, <2>4, <2>5
  <2>6. CASE wire[h] = w /\ d # e
    BY <1>1, <1>10, <2>3, <2>4, <2>6
  <2>7. CASE wire[h] = w /\ d = e
    <3>1. CASE e \in ids[w]
      <4>1. count[h][d] > 0 \/ <<h, d>> \in Known \/ d \in before[h]
        BY <1>2, <2>7, <3>1 DEF WatermarkBehind
      <4> QED
        BY <2>4, <4>1
    <3>2. CASE e \notin ids[w]
      <4>1. h \in R \/ <<h, e>> \in Known
        BY <1>4, <2>2, <2>7, <3>2
      <4> QED
        BY <1>8, <2>1, <2>7, <4>1 DEF given
    <3> QED
      BY <3>1, <3>2
  <2> QED
    BY <2>5, <2>6, <2>7
<1>19. RepeatBehind
  <2> SUFFICES ASSUME NEW h \in Handles, NEW d \in Events, count[h][d] > 0, count'[h][d] > count[h][d], ahead = {}
               PROVE  last[wire[h]] > since[wire[h]]
    BY DEF RepeatBehind
  <2>1. d = e /\ h \in R /\ given /\ wire[h] = w /\ e \notin ids[w]
    <3>1. count'[h][d] # count[h][d]
      BY <1>7a
    <3> QED
      BY <1>4, <1>8, <3>1
  <2>2. At[e] <= last[w] /\ At[e] # last[w]
    BY <1>2, <2>1 DEF WatermarkCovers
  <2> QED
    BY <1>3, <1>15, <2>1, <2>2
<1> QED
  BY <1>12, <1>13, <1>14, <1>16, <1>17, <1>18, <1>19 DEF IInv

\* RegistryOwnsHandles, as a step of the registry preserves it.
Owns ==
  /\ \A h \in open \ stranded : wire[h] \in subs
  /\ \A w \in subs : w \in bornClosed \/ \E h \in open : wire[h] = w
  /\ joinable # Nobody => joinable \in subs /\ kind[joinable] = "live"

LEMMA OwnsNow == IInv => Owns
  BY DEF IInv, RegistryOwnsHandles, Owns, OpenWires, Attached

LEMMA OwnsNext == ASSUME TypeOK', HandlesNamed', Owns' PROVE RegistryOwnsHandles'
<1>1. (subs \ OpenWires)' \subseteq bornClosed'
  BY DEF Owns, OpenWires, Attached
<1>2. \A h \in open' : kind'[h] = "oneshot" => Attached(h)' = {h}
  BY DEF HandlesNamed, TypeOK, Attached
<1> QED
  BY <1>1, <1>2 DEF Owns, RegistryOwnsHandles

\* The body of NoReqLeaks.
NoLeak == \A w \in subs \ (subs' \cup spanned) : conn' => w \notin req'

\* What every step must show.
Preserved == IInv' /\ RepeatBehind /\ NoLeak

\* What is left to show of a step of the registry.
LEMMA RegistryPreserved ==
  ASSUME IInv, Flow,
         UNCHANGED <<now, store, last, ids, count, fresh, ahead>>,
         TypeOK', HandlesNamed', Owns', RetriesClosed', NoLeak,
         \A h \in Handles : kind[h] # "new" => wire'[h] = wire[h],
         \A h \in open' \ stranded' : before'[h] = store \/ (h \in open \ stranded /\ before'[h] = before[h])
  PROVE  Preserved
<1>1. open' \subseteq Handles /\ \A h \in open' : h \in Handles /\ wire'[h] \in Handles
  BY DEF TypeOK, HandlesNamed
<1>2. (InFlight /\ WatermarkBehind /\ WatermarkCovers /\ NoFreshEventLost)'
  BY <1>1, RegistryStep
<1>3. RepeatBehind
  <2>1. \A h \in Handles, e \in Events : count[h][e] \in 0..2
    BY DEF IInv, TypeOK
  <2> QED
    BY <2>1 DEF RepeatBehind
<1> QED
  BY <1>2, <1>3, OwnsNext DEF Preserved, IInv

\* Closing handles, or dropping a REQ: a REQ goes with its last handle, and its CLOSE
\* with it.
Closing ==
  /\ Flow
  /\ open' \subseteq open /\ timer' \subseteq timer \cap open' /\ subs' \subseteq subs /\ req' \subseteq req
  /\ joinable' \in {joinable, Nobody}
  /\ \A h \in open' \ stranded : wire[h] \in subs'
  /\ \A w \in subs' : w \in bornClosed \/ \E h \in open' : wire[h] = w
  /\ joinable' # Nobody => joinable' \in subs'

LEMMA CloseHandlesClosing ==
  ASSUME IInv, NEW C \in SUBSET Handles, CloseHandles(C)
  PROVE  Closing /\ \A w \in subs \ subs' : w \notin req'
<1> DEFINE emptied == {w \in OpenWires : Attached(w) \subseteq C}
<1>1. /\ open' = open \ C /\ timer' = timer \ C
      /\ subs' = subs \ emptied
      /\ joinable' = IF joinable \in emptied THEN Nobody ELSE joinable
      /\ RelayHolds(req \ emptied, {})
  BY DEF CloseHandles, Unlink
<1>2. Owns /\ req \subseteq Handles /\ timer \subseteq open
  BY OwnsNow DEF IInv, TypeOK
<1>3. \A w \in subs : w \in emptied <=> /\ \E h \in open : wire[h] = w
                                        /\ \A h \in open : wire[h] = w => h \in C
  BY DEF OpenWires, Attached
<1> HIDE DEF emptied
<1>4. req' = req \ emptied /\ Flow
  <2>1. req \ emptied \in SUBSET Handles /\ (req \ emptied) \ {} \subseteq req
    BY <1>2
  <2> QED
    BY <1>1, <2>1, RelayHoldsFlow DEF RelayHolds
<1>5. \A h \in open' \ stranded : wire[h] \in subs'
  BY <1>1, <1>2, <1>3 DEF Owns
<1>6. \A w \in subs' : w \in bornClosed \/ \E h \in open' : wire[h] = w
  BY <1>1, <1>2, <1>3 DEF Owns
<1> QED
  BY <1>1, <1>2, <1>4, <1>5, <1>6 DEF Closing, Owns

LEMMA DropClosing ==
  ASSUME IInv, NEW w \in Handles, Drop(w), Flow, req' \subseteq req
  PROVE  Closing /\ subs \ subs' \subseteq {w}
<1>1. /\ open' = open \ Attached(w) /\ timer' = timer \ Attached(w)
      /\ subs' = subs \ {w}
      /\ joinable' = IF joinable = w THEN Nobody ELSE joinable
  BY DEF Drop, Unlink
<1>2. Owns /\ timer \subseteq open
  BY OwnsNow DEF IInv, TypeOK
<1>3. \A h \in open : h \in open' <=> wire[h] # w
  BY <1>1 DEF Attached
<1> QED
  BY <1>1, <1>2, <1>3 DEF Closing, Owns

\* Such a step leaves the rest of the invariant alone.
LEMMA ClosingPreserved ==
  ASSUME IInv, Closing, NoLeak, RetriesClosed',
         UNCHANGED <<now, store, last, ids, count, fresh, ahead, kind, wire, before, stranded, bornClosed, spanned>>,
         conn' \in BOOLEAN, wireEosed' \subseteq Handles, eosed' \subseteq Handles, authRetried' \subseteq Handles,
         awaiting' \subseteq subs \cup awaiting, awaiting' \subseteq Handles, stale' \subseteq stale,
         relayEosed' \subseteq Handles
  PROVE  Preserved
<1>1. TypeOK /\ HandlesNamed /\ Owns
  BY OwnsNow DEF IInv
<1>2. TypeOK'
  BY <1>1 DEF TypeOK, Closing, Flow
<1>3. HandlesNamed'
  BY <1>1 DEF TypeOK, HandlesNamed, Closing
<1>4. Owns'
  BY <1>1 DEF Owns, Closing
<1>5. Flow /\ \A h \in open' \ stranded' : h \in open \ stranded
  BY DEF Closing
<1> QED
  BY <1>2, <1>3, <1>4, <1>5, RegistryPreserved

\* Calls of the application.
LEMMA SubscribePreserved ==
  ASSUME IInv, NEW h \in Handles, NEW k \in {"live", "oneshot"}, NEW t \in BOOLEAN, Subscribe(h, k, t)
  PROVE  Preserved
<1>1. /\ kind[h] = "new" /\ kind' = [kind EXCEPT ![h] = k]
      /\ open' = open \cup {h}
      /\ timer' = IF t THEN timer \cup {h} ELSE timer
      /\ before' = [before EXCEPT ![h] = store]
      /\ UNCHANGED <<conn, now, store, eosed, wireEosed, authRetried, awaiting, stale, spanned, last, ids,
                     count, fresh, ahead, relayEosed, stranded, bornClosed>>
  BY DEF Subscribe, retryVars
<1>2. \/ /\ k = "live" /\ joinable # Nobody /\ wire' = [wire EXCEPT ![h] = joinable]
         /\ UNCHANGED <<subs, joinable, remoteVars>>
      \/ /\ wire' = [wire EXCEPT ![h] = h]
         /\ joinable' = IF k = "live" THEN h ELSE joinable
         /\ subs' = subs \cup {h}
         /\ \/ conn /\ RelayHolds(req \cup {h}, {h})
            \/ UNCHANGED remoteVars
  BY DEF Subscribe, OpenReq, Joinable
<1>3. TypeOK /\ HandlesNamed /\ RetriesClosed /\ Owns
  BY OwnsNow DEF IInv
<1>4. Flow /\ req \subseteq req' /\ req' \subseteq req \cup {h} /\ (~conn => req' = req)
  <2>1. CASE UNCHANGED remoteVars
    BY <2>1, UnchangedFlow DEF remoteVars
  <2>2. CASE conn /\ RelayHolds(req \cup {h}, {h})
    <3>1. /\ req \cup {h} \in SUBSET Handles /\ {h} \in SUBSET (req \cup {h})
          /\ (req \cup {h}) \ {h} \subseteq req
      BY <1>3 DEF TypeOK
    <3> QED
      BY <2>2, <3>1, RelayHoldsFlow DEF RelayHolds
  <2> QED
    BY <1>2, <2>1, <2>2
<1>5. /\ wire' \in [Handles -> Handles \cup {Nobody}] /\ wire'[h] \in Handles
      /\ \A g \in Handles \ {h} : wire'[g] = wire[g] /\ kind'[g] = kind[g]
      /\ kind'[h] = k /\ h \notin open /\ h \notin subs \cup stranded \cup awaiting
  <2>1. PICK w \in Handles : wire' = [wire EXCEPT ![h] = w]
    BY <1>2, <1>3 DEF TypeOK, Owns
  <2>2. wire' \in [Handles -> Handles \cup {Nobody}] /\ wire'[h] \in Handles
    BY <1>3, <2>1 DEF TypeOK
  <2> QED
    BY <1>1, <1>3, <2>1, <2>2 DEF TypeOK, HandlesNamed
<1>6. TypeOK'
  <2>1. /\ kind' \in [Handles -> {"new", "live", "oneshot"}]
        /\ before' \in [Handles -> SUBSET Valid]
    BY <1>1, <1>3 DEF TypeOK
  <2>2. /\ open' \subseteq {g \in Handles : kind'[g] # "new"} /\ timer' \subseteq open'
        /\ subs' \subseteq Handles /\ joinable' \in Handles \cup {Nobody}
    BY <1>1, <1>2, <1>3, <1>5 DEF TypeOK, remoteVars
  <2> QED
    BY <1>1, <1>3, <1>4, <1>5, <2>1, <2>2 DEF TypeOK, Flow
<1>7. HandlesNamed'
  <2>1. \A g \in Handles : IF kind'[g] = "new"
                           THEN /\ g \notin (subs \cup stranded \cup awaiting)'
                                /\ \A e \in Events : count'[g][e] = 0
                           ELSE wire'[g] \in Handles
    BY <1>1, <1>2, <1>3, <1>5 DEF HandlesNamed
  <2>2. \A g \in open' : kind'[wire'[g]] = kind'[g] /\ (kind'[g] = "oneshot" => wire'[g] = g)
    <3>1. CASE wire'[h] = h
      BY <1>1, <1>3, <1>5, <3>1 DEF HandlesNamed, TypeOK
    <3>2. CASE wire'[h] # h
      BY <1>1, <1>2, <1>3, <1>5, <3>2, SMTT(30) DEF HandlesNamed, TypeOK, Owns
    <3> QED
      BY <3>1, <3>2
  <2> QED
    BY <2>1, <2>2 DEF HandlesNamed
<1>8. Owns'
  BY <1>1, <1>2, <1>3, <1>5 DEF Owns, TypeOK
<1>9. RetriesClosed' /\ NoLeak
  BY <1>1, <1>2, <1>3, <1>4, <1>5 DEF RetriesClosed, NoLeak
<1>10. \A g \in open' \ stranded' : before'[g] = store \/ (g \in open \ stranded /\ before'[g] = before[g])
  BY <1>1, <1>3 DEF TypeOK
<1>11. \A g \in Handles : kind[g] # "new" => wire'[g] = wire[g]
  BY <1>1, <1>5
<1> QED
  BY <1>1, <1>4, <1>6, <1>7, <1>8, <1>9, <1>10, <1>11, RegistryPreserved

LEMMA SubscribeAbortedPreserved ==
  ASSUME IInv, NEW h \in Handles, NEW k \in {"live", "oneshot"}, SubscribeAborted(h, k)
  PROVE  Preserved
<1>1. /\ kind[h] = "new" /\ kind' = [kind EXCEPT ![h] = k]
      /\ wire' = [wire EXCEPT ![h] = h]
      /\ UNCHANGED <<conn, now, store, open, eosed, timer, wireEosed, authRetried, awaiting, stale, spanned,
                     last, ids, count, before, fresh, ahead, relayEosed, stranded>>
  BY DEF SubscribeAborted, retryVars
<1>2. \/ /\ joinable' \in {joinable, Nobody}
         /\ UNCHANGED <<subs, remoteVars, bornClosed>>
      \/ /\ subs' = subs \cup {h} /\ bornClosed' = bornClosed \cup {h} /\ joinable' = joinable
         /\ \/ conn /\ RelayHolds(req \cup {h}, {h})
            \/ UNCHANGED remoteVars
  BY DEF SubscribeAborted, OpenReq
<1>3. TypeOK /\ HandlesNamed /\ RetriesClosed /\ Owns
  BY OwnsNow DEF IInv
<1>4. Flow /\ req \subseteq req' /\ req' \subseteq req \cup {h} /\ (~conn => req' = req)
  <2>1. CASE UNCHANGED remoteVars
    BY <2>1, UnchangedFlow DEF remoteVars
  <2>2. CASE conn /\ RelayHolds(req \cup {h}, {h})
    <3>1. /\ req \cup {h} \in SUBSET Handles /\ {h} \in SUBSET (req \cup {h})
          /\ (req \cup {h}) \ {h} \subseteq req
      BY <1>3 DEF TypeOK
    <3> QED
      BY <2>2, <3>1, RelayHoldsFlow DEF RelayHolds
  <2> QED
    BY <1>2, <2>1, <2>2
<1>5. /\ wire' \in [Handles -> Handles \cup {Nobody}] /\ wire'[h] = h
      /\ \A g \in Handles \ {h} : wire'[g] = wire[g] /\ kind'[g] = kind[g]
      /\ kind'[h] = k /\ h \notin open /\ h \notin subs \cup stranded \cup awaiting
  BY <1>1, <1>3 DEF TypeOK, HandlesNamed
<1>6. TypeOK'
  <2>1. /\ kind' \in [Handles -> {"new", "live", "oneshot"}]
        /\ open' \subseteq {g \in Handles : kind'[g] # "new"}
        /\ subs' \subseteq Handles /\ joinable' \in Handles \cup {Nobody} /\ bornClosed' \subseteq Handles
    BY <1>1, <1>2, <1>3, <1>5 DEF TypeOK
  <2> QED
    BY <1>1, <1>3, <1>4, <1>5, <2>1 DEF TypeOK, Flow
<1>7. HandlesNamed'
  BY <1>1, <1>2, <1>3, <1>5, SMTT(30) DEF HandlesNamed, TypeOK, Owns
<1>8. Owns'
  BY <1>1, <1>2, <1>3, <1>5 DEF Owns, TypeOK
<1>9. RetriesClosed' /\ NoLeak
  BY <1>1, <1>2, <1>3, <1>4, <1>5 DEF RetriesClosed, NoLeak
<1>10. \A g \in open' \ stranded' : g \in open \ stranded /\ before'[g] = before[g]
  BY <1>1
<1>11. \A g \in Handles : kind[g] # "new" => wire'[g] = wire[g]
  BY <1>1, <1>5
<1> QED
  BY <1>1, <1>4, <1>6, <1>7, <1>8, <1>9, <1>10, <1>11, RegistryPreserved

LEMMA ClosePreserved == ASSUME IInv, NEW h \in Handles, Close(h) PROVE Preserved
<1>1. /\ CloseHandles({h})
      /\ UNCHANGED <<conn, now, store, kind, wire, eosed, wireEosed, authRetried, awaiting, stale, spanned,
                     last, ids, count, before, fresh, ahead, relayEosed, stranded, bornClosed>>
  BY DEF Close, retryVars, histVars
<1>2. TypeOK /\ RetriesClosed
  BY DEF IInv
<1>3. Closing /\ NoLeak
  BY <1>1, CloseHandlesClosing DEF NoLeak
<1>4. RetriesClosed'
  BY <1>1, <1>2, <1>3 DEF RetriesClosed, Closing
<1> QED
  BY <1>1, <1>2, <1>3, <1>4, ClosingPreserved DEF TypeOK

\* closeAll(), and the loss of the connection.
LEMMA CloseAllPreserved == ASSUME IInv, CloseAll PROVE Preserved
<1>1. /\ conn' = FALSE /\ open' = stranded \cap open /\ timer' = timer \cap stranded
      /\ subs' = {} /\ joinable' = Nobody /\ RelayHolds({}, {})
      /\ stale' = stale \cup awaiting /\ awaiting' = {} /\ spanned' = spanned \cup awaiting
      /\ UNCHANGED <<now, store, kind, wire, eosed, wireEosed, authRetried, last, ids,
                     count, before, fresh, ahead, relayEosed, stranded, bornClosed>>
  BY DEF CloseAll, Unlink, OutliveConnection, histVars
<1>2. TypeOK /\ HandlesNamed
  BY DEF IInv
<1>3. Flow /\ req' = {}
  BY <1>1, RelayHoldsFlow DEF RelayHolds
<1>4. TypeOK'
  BY <1>1, <1>2, <1>3 DEF TypeOK, Flow
<1>5. (HandlesNamed /\ Owns /\ RetriesClosed)' /\ NoLeak
  BY <1>1, <1>2, <1>3 DEF HandlesNamed, Owns, RetriesClosed, NoLeak
<1> QED
  BY <1>1, <1>3, <1>4, <1>5, RegistryPreserved

LEMMA CloseAllReopenedPreserved == ASSUME IInv, NEW h \in Handles, CloseAllReopened(h) PROVE Preserved
<1>1. /\ kind[h] = "new" /\ kind' = [kind EXCEPT ![h] = "live"] /\ wire' = [wire EXCEPT ![h] = h]
      /\ conn' = FALSE /\ open' = (stranded \cap open) \cup {h} /\ timer' = timer \cap stranded
      /\ subs' = {} /\ joinable' = Nobody /\ RelayHolds({}, {}) /\ stranded' = stranded \cup {h}
      /\ stale' = stale \cup awaiting /\ awaiting' = {} /\ spanned' = spanned \cup awaiting
      /\ UNCHANGED <<now, store, eosed, wireEosed, authRetried, last, ids,
                     count, before, fresh, ahead, relayEosed, bornClosed>>
  BY DEF CloseAllReopened, OutliveConnection
<1>2. TypeOK /\ HandlesNamed
  BY DEF IInv
<1>3. Flow /\ req' = {}
  BY <1>1, RelayHoldsFlow DEF RelayHolds
<1>4. /\ wire' \in [Handles -> Handles \cup {Nobody}] /\ kind' \in [Handles -> {"new", "live", "oneshot"}]
      /\ wire'[h] = h /\ kind'[h] = "live"
      /\ \A g \in Handles \ {h} : wire'[g] = wire[g] /\ kind'[g] = kind[g]
  BY <1>1, <1>2 DEF TypeOK
<1>5. TypeOK'
  <2>1. /\ open' \subseteq {g \in Handles : kind'[g] # "new"} /\ timer' \subseteq open'
        /\ stranded' \subseteq Handles /\ stale' \subseteq spanned' /\ spanned' \subseteq Handles
    BY <1>1, <1>2, <1>4 DEF TypeOK
  <2> QED
    BY <1>1, <1>2, <1>3, <1>4, <2>1 DEF TypeOK, Flow
<1>6. HandlesNamed'
  BY <1>1, <1>2, <1>4, SMTT(30) DEF HandlesNamed, TypeOK
<1>7. (Owns /\ RetriesClosed)' /\ NoLeak /\ open' \ stranded' = {}
  BY <1>1, <1>3 DEF Owns, RetriesClosed, NoLeak
<1>8. \A g \in Handles : kind[g] # "new" => wire'[g] = wire[g]
  BY <1>1, <1>4
<1> QED
  BY <1>1, <1>3, <1>5, <1>6, <1>7, <1>8, RegistryPreserved

LEMMA SocketDiesPreserved == ASSUME IInv, SocketDies PROVE Preserved
<1>1. /\ conn' = FALSE /\ RelayHolds({}, {})
      /\ stale' = stale \cup awaiting /\ awaiting' = {} /\ spanned' = spanned \cup awaiting
      /\ UNCHANGED <<now, store, kind, open, wire, eosed, timer, subs, joinable, wireEosed, authRetried, last, ids,
                     count, before, fresh, ahead, relayEosed, stranded, bornClosed>>
  BY DEF SocketDies, OutliveConnection, handleVars, histVars
<1>2. TypeOK /\ HandlesNamed /\ Owns
  BY OwnsNow DEF IInv
<1>3. Flow /\ req' = {}
  BY <1>1, RelayHoldsFlow DEF RelayHolds
<1>4. TypeOK'
  BY <1>1, <1>2, <1>3 DEF TypeOK, Flow
<1>5. (HandlesNamed /\ Owns /\ RetriesClosed)' /\ NoLeak
  BY <1>1, <1>2, <1>3 DEF HandlesNamed, Owns, RetriesClosed, NoLeak
<1> QED
  BY <1>1, <1>3, <1>4, <1>5, RegistryPreserved

\* replayAll(), whether or not a send throws.
LEMMA ReconnectPreserved == ASSUME IInv, Reconnect PROVE Preserved
<1>1. /\ ~conn /\ conn' = TRUE /\ RelayHolds(OpenWires, OpenWires)
      /\ wireEosed' \subseteq wireEosed /\ eosed' \subseteq eosed /\ authRetried' \subseteq authRetried
      /\ UNCHANGED <<now, store, kind, open, wire, timer, subs, joinable, awaiting, stale, spanned, last, ids,
                     count, before, fresh, ahead, relayEosed, stranded, bornClosed>>
  BY DEF Reconnect, Rearm, retryVars, histVars
<1>2. TypeOK /\ HandlesNamed /\ Owns /\ RetriesClosed
  BY OwnsNow DEF IInv
<1>3. OpenWires \in SUBSET Handles /\ OpenWires \in SUBSET OpenWires /\ OpenWires \ OpenWires \subseteq req
  BY <1>2 DEF OpenWires, TypeOK
<1>4. Flow
  BY <1>1, <1>3, RelayHoldsFlow
<1>5. TypeOK'
  BY <1>1, <1>2, <1>4 DEF TypeOK, Flow
<1>6. (HandlesNamed /\ Owns /\ RetriesClosed)' /\ NoLeak
  BY <1>1, <1>2 DEF HandlesNamed, Owns, RetriesClosed, NoLeak
<1> QED
  BY <1>1, <1>4, <1>5, <1>6, RegistryPreserved

LEMMA ReconnectFailsPreserved == ASSUME IInv, ReconnectFails PROVE Preserved
<1>1. /\ UNCHANGED remoteVars
      /\ wireEosed' \subseteq wireEosed /\ eosed' \subseteq eosed /\ authRetried' \subseteq authRetried
      /\ UNCHANGED <<conn, now, store, kind, open, wire, timer, subs, joinable, awaiting, stale, spanned, last, ids,
                     count, before, fresh, ahead, relayEosed, stranded, bornClosed>>
  BY DEF ReconnectFails, Rearm, retryVars, histVars
<1>2. TypeOK /\ HandlesNamed /\ Owns /\ RetriesClosed
  BY OwnsNow DEF IInv
<1>3. Flow /\ req' = req
  BY <1>1, UnchangedFlow DEF remoteVars
<1>4. TypeOK'
  BY <1>1, <1>2, <1>3 DEF TypeOK, Flow
<1>5. (HandlesNamed /\ Owns /\ RetriesClosed)' /\ NoLeak
  BY <1>1, <1>2, <1>3 DEF HandlesNamed, Owns, RetriesClosed, NoLeak
<1> QED
  BY <1>1, <1>3, <1>4, <1>5, RegistryPreserved

\* EOSE, from the relay or from the timer.
LEMMA EosePreserved ==
  ASSUME IInv, NEW w \in Handles, RecvEose(w) \/ EoseTimeout(w)
  PROVE  Preserved
<1>1. /\ UNCHANGED <<conn, now, store, kind, wire, authRetried, awaiting, stale, spanned, last, ids,
                     count, before, fresh, ahead, stranded, bornClosed>>
      /\ eosed' \subseteq Handles /\ wireEosed' \subseteq Handles /\ relayEosed' \subseteq Handles
  BY DEF IInv, TypeOK, RecvEose, EoseTimeout, retryVars, histVars, Attached
<1>2. \/ CloseHandles({w})
      \/ timer' \subseteq timer /\ UNCHANGED <<open, subs, joinable, remoteVars>>
  BY DEF RecvEose, EoseTimeout
<1>3. TypeOK /\ RetriesClosed /\ Owns
  BY OwnsNow DEF IInv
<1>4. Closing /\ NoLeak
  <2>1. CASE CloseHandles({w})
    BY <1>1, <2>1, CloseHandlesClosing DEF NoLeak
  <2>2. CASE timer' \subseteq timer /\ UNCHANGED <<open, subs, joinable, remoteVars>>
    <3>1. Flow /\ req' = req
      BY <2>2, UnchangedFlow DEF remoteVars
    <3> QED
      BY <1>3, <2>2, <3>1 DEF Closing, NoLeak, Owns, TypeOK
  <2> QED
    BY <1>2, <2>1, <2>2
<1>5. RetriesClosed'
  BY <1>1, <1>3, <1>4 DEF RetriesClosed, Closing
<1> QED
  BY <1>1, <1>3, <1>4, <1>5, ClosingPreserved DEF TypeOK

\* CLOSED.
LEMMA ClosedPreserved ==
  ASSUME IInv, NEW w \in Handles, RecvClosed(w) \/ RecvClosedAuthRequired(w)
  PROVE  Preserved
<1>1. /\ w \in req /\ RelayHolds(req \ {w}, {})
      /\ UNCHANGED <<conn, now, store, kind, wire, eosed, wireEosed, stale, spanned, last, ids,
                     count, before, fresh, ahead, relayEosed, stranded, bornClosed>>
      /\ authRetried' \subseteq Handles
      /\ awaiting' \subseteq awaiting \cup ({w} \cap subs)
  BY DEF IInv, TypeOK, RecvClosed, RecvClosedAuthRequired, retryVars, handleVars, histVars
<1>2. Drop(w) \/ UNCHANGED <<open, timer, subs, joinable>>
  BY DEF RecvClosed, RecvClosedAuthRequired, handleVars
<1>3. TypeOK /\ RetriesClosed /\ Owns
  BY OwnsNow DEF IInv
<1>4. Flow /\ req' = req \ {w}
  <2>1. req \ {w} \in SUBSET Handles /\ (req \ {w}) \ {} \subseteq req
    BY <1>3 DEF TypeOK
  <2> QED
    BY <1>1, <2>1, RelayHoldsFlow DEF RelayHolds
<1>5. Closing /\ subs \ subs' \subseteq {w}
  <2>1. CASE Drop(w)
    BY <1>4, <2>1, DropClosing
  <2>2. CASE UNCHANGED <<open, timer, subs, joinable>>
    BY <1>3, <1>4, <2>2 DEF Closing, Owns, TypeOK
  <2> QED
    BY <1>2, <2>1, <2>2
<1>6. RetriesClosed' /\ NoLeak
  BY <1>1, <1>3, <1>4, <1>5 DEF RetriesClosed, NoLeak
<1>7. awaiting' \subseteq Handles /\ relayEosed' \subseteq Handles
  BY <1>1, <1>3 DEF TypeOK
<1> QED
  BY <1>1, <1>3, <1>5, <1>6, <1>7, ClosingPreserved DEF TypeOK

\* ensureAuthed() settles: the REQ is sent again or dropped.
LEMMA AuthSettlesPreserved ==
  ASSUME IInv, NEW w \in Handles, NEW ok \in BOOLEAN, AuthSettles(w, ok)
  PROVE  Preserved
<1>1. /\ UNCHANGED <<conn, now, store, kind, wire, authRetried, spanned, last, ids,
                     count, before, fresh, ahead, relayEosed, stranded, bornClosed>>
      /\ \/ w \in awaiting /\ awaiting' = awaiting \ {w} /\ stale' = stale
         \/ w \in stale /\ stale' = stale \ {w} /\ awaiting' = awaiting
      /\ \/ /\ conn /\ RelayHolds(req \cup {w}, {w})
            /\ wireEosed' \subseteq wireEosed /\ eosed' \subseteq eosed
            /\ UNCHANGED <<open, timer, subs, joinable>>
         \/ Drop(w) /\ UNCHANGED <<eosed, wireEosed, remoteVars>>
  BY DEF AuthSettles, Rearm, histVars
<1>2. TypeOK /\ HandlesNamed /\ Owns /\ RetriesClosed
  BY OwnsNow DEF IInv
<1>3. awaiting' \subseteq awaiting /\ stale' \subseteq stale /\ (w \in awaiting' \/ w \in stale => w \in spanned)
      /\ (w \in awaiting => w \notin awaiting' \/ w \in spanned) /\ w \in awaiting \cup spanned
  BY <1>1, <1>2 DEF TypeOK
<1>4. CASE conn /\ RelayHolds(req \cup {w}, {w}) /\ wireEosed' \subseteq wireEosed /\ eosed' \subseteq eosed
           /\ UNCHANGED <<open, timer, subs, joinable>>
  <2>1. /\ req \cup {w} \in SUBSET Handles /\ {w} \in SUBSET (req \cup {w})
        /\ (req \cup {w}) \ {w} \subseteq req
    BY <1>2 DEF TypeOK
  <2>2. Flow /\ req' = req \cup {w}
    BY <1>4, <2>1, RelayHoldsFlow DEF RelayHolds
  <2>3. TypeOK'
    BY <1>1, <1>2, <1>3, <1>4, <2>2 DEF TypeOK, Flow
  <2>4. (HandlesNamed /\ Owns)' /\ NoLeak
    BY <1>1, <1>2, <1>3, <1>4, <2>2 DEF HandlesNamed, Owns, NoLeak
  <2>5. RetriesClosed'
    BY <1>1, <1>2, <1>3, <1>4, <2>2 DEF RetriesClosed
  <2> QED
    BY <1>1, <1>4, <2>2, <2>3, <2>4, <2>5, RegistryPreserved
<1>5. CASE Drop(w) /\ UNCHANGED <<eosed, wireEosed, remoteVars>>
  <2>1. Flow /\ req' = req
    BY <1>5, UnchangedFlow DEF remoteVars
  <2>2. Closing /\ subs \ subs' \subseteq {w}
    BY <1>5, <2>1, DropClosing
  <2>3. RetriesClosed'
    BY <1>1, <1>2, <1>3, <2>1 DEF RetriesClosed
  <2>4. NoLeak
    BY <1>1, <1>2, <1>3, <2>1, <2>2 DEF RetriesClosed, NoLeak
  <2>5. awaiting' \subseteq Handles
    BY <1>2, <1>3 DEF TypeOK
  <2> QED
    BY <1>1, <1>2, <1>3, <1>5, <2>2, <2>3, <2>4, <2>5, ClosingPreserved DEF TypeOK
<1> QED
  BY <1>1, <1>4, <1>5

\* Every initial state satisfies the invariant.
LEMMA InitInv == Init => IInv
<1> SUFFICES ASSUME Init PROVE IInv
  OBVIOUS
<1> USE ValidAssumption, ClockAssumption, NobodyAssumption
<1>1. /\ live = [h \in Handles |-> <<>>] /\ <<>> \in Seq(Valid) /\ DOMAIN <<>> = {} /\ ToSet(<<>>) = {}
  BY DEF Init, ToSet
<1>2. count \in [Handles -> [Events -> 0..2]]
  BY DEF Init
<1>3. TypeOK
  BY <1>1, <1>2 DEF Init, TypeOK
<1>4. HandlesNamed /\ RegistryOwnsHandles /\ RetriesClosed /\ NoFreshEventLost
  BY DEF Init, HandlesNamed, RegistryOwnsHandles, RetriesClosed, NoFreshEventLost, OpenWires
<1>5. InFlight /\ WatermarkBehind
  BY <1>1 DEF Init, InFlight, WatermarkBehind
<1>6. WatermarkCovers
  BY <1>1 DEF Init, WatermarkCovers
<1> QED
  BY <1>3, <1>4, <1>5, <1>6 DEF IInv

\* Every call, timer, message and event of the world preserves it.
LEMMA StepPreserved == IInv /\ [Next]_vars => Preserved
<1> SUFFICES ASSUME IInv, [Next]_vars PROVE Preserved
  OBVIOUS
<1>1. ASSUME NEW h \in Handles, NEW k \in {"live", "oneshot"},
             SubscribeAborted(h, k) \/ \E t \in BOOLEAN : Subscribe(h, k, t)
      PROVE  Preserved
  BY <1>1, SubscribePreserved, SubscribeAbortedPreserved
<1>2. ASSUME NEW h \in Handles, Close(h) \/ CloseAllReopened(h) PROVE Preserved
  BY <1>2, ClosePreserved, CloseAllReopenedPreserved
<1>3. ASSUME NEW h \in Handles, EoseTimeout(h) \/ RecvEose(h) PROVE Preserved
  BY <1>3, EosePreserved
<1>4. ASSUME NEW h \in Handles, RecvClosed(h) \/ RecvClosedAuthRequired(h) PROVE Preserved
  BY <1>4, ClosedPreserved
<1>5. ASSUME NEW h \in Handles, NEW ok \in BOOLEAN, AuthSettles(h, ok) PROVE Preserved
  BY <1>5, AuthSettlesPreserved
<1>6. ASSUME NEW h \in Handles, NEW e \in Events, RecvEvent(h, e) PROVE Preserved
  <2>1. IInv' /\ RepeatBehind
    BY <1>6, RecvEventInv
  <2>2. subs' = subs
    BY <1>6 DEF RecvEvent
  <2> QED
    BY <2>1, <2>2 DEF Preserved, NoLeak
<1>7. ASSUME IInv', UNCHANGED <<count, subs>> PROVE Preserved
  <2>1. \A h \in Handles, e \in Events : count[h][e] \in 0..2
    BY DEF IInv, TypeOK
  <2> QED
    BY <1>7, <2>1 DEF Preserved, RepeatBehind, NoLeak
<1>8. ASSUME NEW e \in Events, Publish(e) PROVE Preserved
  BY <1>7, <1>8, PublishInv DEF Publish, wireVars
<1>9. CASE CloseAll
  BY <1>9, CloseAllPreserved
<1>10. CASE SocketDies
  BY <1>10, SocketDiesPreserved
<1>11. CASE Reconnect \/ ReconnectFails
  BY <1>11, ReconnectPreserved, ReconnectFailsPreserved
<1>12. CASE Tick
  BY <1>7, <1>12, TickInv DEF Tick, wireVars, histVars
<1>13. CASE UNCHANGED vars
  <2>1. UNCHANGED <<conn, now, store, req, since, stored, live, cut, kind, open, wire, eosed, timer, subs, joinable,
                    wireEosed, authRetried, awaiting, stale, spanned, last, ids, count, before, fresh, ahead,
                    relayEosed, stranded, bornClosed>>
    BY <1>13 DEF vars, remoteVars, handleVars, wireVars, histVars, retryVars
  <2>2. (TypeOK /\ HandlesNamed /\ RegistryOwnsHandles /\ RetriesClosed /\ InFlight)'
    BY <2>1, SMTT(30) DEF IInv, TypeOK, HandlesNamed, RegistryOwnsHandles, RetriesClosed, InFlight, OpenWires, Attached
  <2>3. (WatermarkBehind /\ WatermarkCovers /\ NoFreshEventLost)'
    BY <2>1 DEF IInv, WatermarkBehind, WatermarkCovers, NoFreshEventLost
  <2> QED
    BY <1>7, <2>1, <2>2, <2>3 DEF IInv
<1> QED
  BY <1>1, <1>2, <1>3, <1>4, <1>5, <1>6, <1>8, <1>9, <1>10, <1>11, <1>12, <1>13 DEF Next

\* The invariant holds for ever.
LEMMA Invariant == Spec => []IInv
<1>1. IInv /\ [Next]_vars => IInv'
  BY StepPreserved DEF Preserved
<1> QED
  BY InitInv, <1>1, PTL DEF Spec

\* Type correctness.
THEOREM SubscriptionsType == Spec => []TypeOK
  BY Invariant, PTL DEF IInv

\* Every open handle belongs to a registered REQ, and every registered REQ to an
\* open handle, but for the two exceptions the property names.
THEOREM RegistryOwns == Spec => []RegistryOwnsHandles
  BY Invariant, PTL DEF IInv

\* A subscription that ends locally while the connection is up ends at the relay.
THEOREM RegistryLeaksNothing == Spec => NoReqLeaks
<1>1. IInv /\ [Next]_vars => [\A w \in subs \ (subs' \cup spanned) : conn' => w \notin req']_vars
  BY StepPreserved DEF Preserved, NoLeak
<1> QED
  BY <1>1, Invariant, PTL DEF Spec, NoReqLeaks

\* Whatever is published with a current created_at reaches every handle that was
\* there, through any number of reconnects, unless it is cut in flight.
THEOREM ReconnectKeepsFresh == Spec => []NoFreshEventLost
  BY Invariant, PTL DEF IInv

\* The inclusive `since` of a replayed REQ alone never hands an event over twice.
THEOREM WatermarkDedups == Spec => RepeatsOnlyBehindWatermark
<1>1. IInv /\ [Next]_vars =>
        [\A h \in Handles, e \in Events :
           count[h][e] > 0 /\ count'[h][e] > count[h][e] /\ ahead = {} => last[wire[h]] > since[wire[h]]]_vars
  BY StepPreserved DEF Preserved, RepeatBehind
<1> QED
  BY <1>1, Invariant, PTL DEF Spec, RepeatsOnlyBehindWatermark
=============================================================================
