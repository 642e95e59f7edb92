-------------------------- MODULE ClientData_proofs --------------------------
(***************************************************************************)
(* Theorems about what a client keeps.  First the outbox feed (ClientFeed), *)
(* for any number of events, any clock and any number of crashes and        *)
(* failures.  Then the reactive store (ReactiveStore), for any events,      *)
(* watches and caps: what each operation of the memory index does to it,    *)
(* what a series of writes and its eviction leave, and what the watches see *)
(* of it.                                                                   *)
(***************************************************************************)
EXTENDS MCClientData, StoreLemmas, SequenceTheorems

-----------------------------------------------------------------------------
(* The inductive invariant.                                                  *)

(* What the first k of some writes have in them; what all that are on their  *)
(* way have; and what the store will have before any bound written from now  *)
(* on: a bound does not wait for the queue while a putMany() is under way.   *)
Within(ws, k) == UNION {ws[j].events : j \in 1..k}
InWrites == Within(writes, Len(writes))
Before == InWrites \cup IF flushing = "putting" THEN {} ELSE queue

\* What is on the relay and neither excused nor stored nor still to be delivered;
\* nothing of it but S is older than what a bound of t lets a sync() ask for.
Gone == F!OnRelay \ (excused \cup late \cup disk \cup unseen)
Covered(S, t) == \A e \in Gone : e \in S \/ t <= stamp[e] + 1

SyncStates == {"no", "reading", "ready", "fetching", "applying", "bounding"}
Ops == {"flush", "rewrite", "sync", "syncBound", "bound"}
Writes == [op : Ops, events : SUBSET F!AllEvents, newest : Nat]

FeedTypes ==
  /\ now \in Nat \ {0}
  /\ stamp \in [F!AllEvents -> Nat] /\ \A e \in F!AllEvents : stamp[e] <= now
  /\ bounds \in Nat /\ diskNewest \in Nat /\ since \in Nat
  /\ bounds <= now /\ diskNewest <= now /\ since <= now
  /\ flushing \in {"no", "armed", "putting"} /\ sync \in SyncStates
  /\ status \in {"alive", "stopping", "down"} /\ live \in BOOLEAN /\ boundTimer \in BOOLEAN
  /\ writes \in Seq(Writes)

\* What is kept anywhere is indexed, and what is indexed is on the relay.
Indexed ==
  /\ held \subseteq F!OnRelay /\ unseen \subseteq F!OnRelay /\ (~live => unseen = {})
  /\ disk \subseteq held /\ queue \subseteq held /\ late \subseteq held
  /\ \A k \in DOMAIN writes : writes[k].events \subseteq held /\ writes[k].newest <= now

\* A sync() has one write under way, the queue at most one.
InTurn ==
  /\ \A k \in DOMAIN writes :
       /\ writes[k].op = "rewrite" => sync = "reading" /\ writes[k].newest # 0
       /\ writes[k].op = "sync" => sync = "applying" /\ writes[k].events # {}
       /\ writes[k].op = "syncBound" => sync = "bounding"
       /\ writes[k].op = "flush" => flushing = "putting"
       /\ writes[k].op \notin {"flush", "sync"} => writes[k].events = {}
  /\ \A j, k \in DOMAIN writes :
       (writes[j].op = "flush" <=> writes[k].op = "flush") /\ writes[j].op # "bound"
         /\ writes[k].op # "bound" => j = k
  /\ flushing = "no" => queue = {}

\* No bound passes an event that the store does not have before it has the bound,
\* and no sync() is under way that does not ask for what is not on its way.
Behind ==
  /\ Covered({}, diskNewest)
  /\ \A k \in DOMAIN writes : writes[k].newest # 0 => Covered(Within(writes, k), writes[k].newest)
  /\ Covered(Before, bounds)
  /\ sync \in {"fetching", "applying"} => Covered(Before, since + 1)

\* No bound that is written after the batch of a sync() is ahead of the one in memory.
InOrder ==
  \A j, k \in DOMAIN writes : writes[j].op = "sync" /\ j < k => writes[k].newest <= bounds

\* A live subscription knows of everything that was posted.
LiveCovers == live => F!OnRelay \subseteq disk \cup queue \cup InWrites \cup unseen \cup excused

\* What is owed will be flushed.
Owing ==
  /\ status = "down" => owed = {}
  /\ \A e \in owed \ queue : \E k \in DOMAIN writes : writes[k].op = "flush" /\ e \in writes[k].events

FeedInv == FeedTypes /\ Indexed /\ InTurn /\ Behind /\ InOrder /\ LiveCovers /\ Owing

-----------------------------------------------------------------------------
\* A set of natural numbers that has a bound has a greatest element.
LEMMA Greatest ==
  ASSUME NEW n \in Nat, NEW s \in SUBSET (0..n), s # {}
  PROVE  \E t \in s : \A u \in s : u <= t
<1> DEFINE Good == {k \in 0..n : s \cap (0..k) = {} \/ \E t \in s : \A u \in s \cap (0..k) : u <= t}
<1>1. 0 \in Good
  OBVIOUS
<1>2. ASSUME NEW k \in 1..n, k - 1 \in Good
      PROVE  k \in Good
  <2>1. CASE k \in s
    <3>1. \A u \in s \cap (0..k) : u <= k
      OBVIOUS
    <3> QED
      BY <2>1, <3>1
  <2>2. CASE k \notin s
    <3>1. s \cap (0..k) = s \cap (0..(k - 1))
      BY <2>2
    <3> QED
      BY <1>2, <3>1
  <2> QED
    BY <2>1, <2>2
<1>3. 0..n \subseteq Good
  <2> HIDE DEF Good
  <2> QED
    BY <1>1, <1>2, UpToInduction
<1>4. n \in Good
  <2> HIDE DEF Good
  <2> QED
    BY <1>3
<1>5. s \cap (0..n) = s
  OBVIOUS
<1> QED
  BY <1>4, <1>5

\* The newest of events on the relay is not ahead of the clock.
LEMMA NewestFacts ==
  ASSUME FeedTypes, NEW es \in SUBSET F!AllEvents, es # {}
  PROVE  /\ F!NewestOf(es) \in Nat /\ F!NewestOf(es) <= now
         /\ \A e \in es : stamp[e] <= F!NewestOf(es)
<1> DEFINE s == {stamp[e] : e \in es}
<1>1. s \in SUBSET (0..now) /\ s # {} /\ now \in Nat
  BY DEF FeedTypes
<1>2. \E t \in s : \A u \in s : u <= t
  <2> HIDE DEF s
  <2> QED
    BY <1>1, Greatest
<1>3. F!NewestOf(es) = CHOOSE t \in s : \A u \in s : u <= t
  BY DEF F!NewestOf
<1>4. F!NewestOf(es) \in s /\ \A u \in s : u <= F!NewestOf(es)
  <2> HIDE DEF s
  <2> QED
    BY <1>2, <1>3
<1> QED
  BY <1>1, <1>4

\* The first write taken away.
LEMMA Taken ==
  ASSUME NEW ws \in Seq(Writes), ws # <<>>
  PROVE  /\ Tail(ws) \in Seq(Writes) /\ Len(ws) = Len(Tail(ws)) + 1 /\ Len(Tail(ws)) \in Nat
         /\ Head(ws) = ws[1] /\ ws[1] \in Writes
         /\ \A k \in 1..Len(Tail(ws)) : Tail(ws)[k] = ws[k + 1]
         /\ \A k \in 1..Len(Tail(ws)) : Within(ws, k + 1) = ws[1].events \cup Within(Tail(ws), k)
         /\ Within(ws, 1) = ws[1].events
         /\ Within(ws, Len(ws)) = ws[1].events \cup Within(Tail(ws), Len(Tail(ws)))
<1>1. /\ Tail(ws) \in Seq(Writes) /\ Len(ws) = Len(Tail(ws)) + 1 /\ Len(Tail(ws)) \in Nat
      /\ Head(ws) = ws[1] /\ ws[1] \in Writes
      /\ \A k \in 1..Len(Tail(ws)) : Tail(ws)[k] = ws[k + 1]
  OBVIOUS
<1>2. \A k \in 0..Len(Tail(ws)) : Within(ws, k + 1) = ws[1].events \cup Within(Tail(ws), k)
  <2> TAKE k \in 0..Len(Tail(ws))
  <2>1. \A j \in 1..(k + 1) : j = 1 \/ (j - 1 \in 1..k /\ ws[j] = Tail(ws)[j - 1])
    BY <1>1
  <2>2. \A j \in 1..k : j + 1 \in 1..(k + 1) /\ ws[j + 1] = Tail(ws)[j]
    BY <1>1
  <2>3. 1 \in 1..(k + 1)
    BY <1>1
  <2> QED
    BY <2>1, <2>2, <2>3 DEF Within
<1>3. Within(Tail(ws), 0) = {}
  BY DEF Within
<1>4. \A k \in 1..Len(Tail(ws)) : Within(ws, k + 1) = ws[1].events \cup Within(Tail(ws), k)
  BY <1>1, <1>2
<1>5. Within(ws, 1) = ws[1].events
  <2>1. 0 \in 0..Len(Tail(ws)) /\ 0 + 1 = 1
    BY <1>1
  <2>2. Within(ws, 0 + 1) = ws[1].events \cup Within(Tail(ws), 0)
    BY <1>2, <2>1
  <2> QED
    BY <1>3, <2>1, <2>2
<1>6. Within(ws, Len(ws)) = ws[1].events \cup Within(Tail(ws), Len(Tail(ws)))
  <2>1. Len(Tail(ws)) \in 0..Len(Tail(ws))
    BY <1>1
  <2>2. Within(ws, Len(Tail(ws)) + 1) = ws[1].events \cup Within(Tail(ws), Len(Tail(ws)))
    BY <1>2, <2>1
  <2> QED
    BY <1>1, <2>2
<1> QED
  BY <1>1, <1>4, <1>5, <1>6

-----------------------------------------------------------------------------
\* A client that has just been installed.
LEMMA FeedInit == F!Init => FeedInv
<1> SUFFICES ASSUME F!Init PROVE FeedInv
  OBVIOUS
<1>1. writes \in Seq(Writes) /\ DOMAIN writes = {}
  BY DEF F!Init
<1> USE DEF F!Init
<1>2. F!OnRelay = {}
  BY DEF F!OnRelay
<1>3. FeedTypes
  <2>1. stamp \in [F!AllEvents -> Nat] /\ \A e \in F!AllEvents : stamp[e] <= now
    OBVIOUS
  <2>2. /\ now \in Nat \ {0} /\ bounds \in Nat /\ diskNewest \in Nat /\ since \in Nat
        /\ bounds <= now /\ diskNewest <= now /\ since <= now
    OBVIOUS
  <2> QED
    BY <1>1, <2>1, <2>2 DEF FeedTypes, SyncStates
<1>4. Indexed /\ InTurn /\ InOrder /\ LiveCovers /\ Owing
  BY <1>1, <1>2 DEF Indexed, InTurn, InOrder, LiveCovers, Owing
<1>5. Behind
  BY <1>1, <1>2 DEF Behind, Covered, Gone
<1> QED
  BY <1>3, <1>4, <1>5 DEF FeedInv

-----------------------------------------------------------------------------
\* Writes have a type, and what is queued or on its way is what Before is about.
LEMMA TypedWrites ==
  ASSUME FeedTypes
  PROVE  /\ DOMAIN writes = 1..Len(writes) /\ Len(writes) \in Nat
         /\ \A k \in DOMAIN writes : /\ writes[k].op \in Ops /\ writes[k].newest \in Nat
                                     /\ writes[k].events \subseteq F!AllEvents
         /\ F!Pending = queue \cup InWrites
<1>1. /\ DOMAIN writes = 1..Len(writes) /\ Len(writes) \in Nat
      /\ \A k \in DOMAIN writes : writes[k] \in Writes
  BY DEF FeedTypes
<1>2. \A k \in DOMAIN writes : /\ writes[k].op \in Ops /\ writes[k].newest \in Nat
                             /\ writes[k].events \subseteq F!AllEvents
  BY <1>1 DEF Writes
<1>3. F!Pending = queue \cup InWrites
  BY <1>1 DEF F!Pending, InWrites, Within
<1> QED
  BY <1>1, <1>2, <1>3

\* A step that leaves the writes and the bounds alone, blames nobody new and takes
\* nothing off its way, leaves no event behind.
LEMMA Steady ==
  ASSUME FeedInv, UNCHANGED <<stamp, diskNewest, writes, bounds>>, Gone' \subseteq Gone,
         Before \subseteq Before',
         since' \in Nat,
         sync' \in {"fetching", "applying"} =>
           \/ sync \in {"fetching", "applying"} /\ since' = since
           \/ since' + 1 <= bounds \/ since' = 0
  PROVE  Behind'
<1> USE DEF FeedInv, Behind, Covered
<1>0. \A e \in Gone : e \in F!AllEvents /\ stamp[e] \in Nat /\ bounds \in Nat
  BY DEF Gone, F!OnRelay, FeedTypes
<1>1. Covered({}, diskNewest)'
  OBVIOUS
<1>2. \A k \in DOMAIN writes' : writes'[k].newest # 0 => Covered(Within(writes, k), writes[k].newest)'
  OBVIOUS
<1>3. Covered(Before, bounds)'
  OBVIOUS
<1>4. (sync \in {"fetching", "applying"} => Covered(Before, since + 1))'
  BY <1>0
<1> QED
  BY <1>1, <1>2, <1>3, <1>4

\* Steps that leave writes, bounds and queue alone.  A subscription that starts
\* counts on what is stored, on its way or still to come, one that ends excuses
\* what it has not delivered.
LEMMA SmallSteps ==
  ASSUME FeedInv,
         F!Tick \/ F!FlushEnds \/ F!Shutdown \/ F!SyncFetches \/ F!StartLive \/ F!LiveEnds
  PROVE  FeedInv'
<1> USE DEF F!Tick, F!FlushEnds, F!Shutdown, F!SyncFetches, F!StartLive, F!LiveEnds, F!memVars, FeedInv
<1>0. UNCHANGED <<F!OnRelay, InWrites, writes, stamp, diskNewest, bounds, disk, held, queue, late>>
  BY DEF F!OnRelay, InWrites, Within
<1>1. FeedTypes'
  <2>1. since' \in Nat /\ since' <= now' /\ now' \in Nat \ {0} /\ now <= now'
    BY DEF FeedTypes, F!Since
  <2>2. sync' \in SyncStates /\ status' \in {"alive", "stopping", "down"} /\ live' \in BOOLEAN
        /\ flushing' \in {"no", "armed", "putting"} /\ boundTimer' \in BOOLEAN
    BY DEF FeedTypes, SyncStates
  <2> HIDE DEF F!Tick, F!FlushEnds, F!Shutdown, F!SyncFetches, F!StartLive, F!LiveEnds
  <2> QED
    BY <1>0, <2>1, <2>2 DEF FeedTypes
<1>2. Indexed'
  BY <1>0, TypedWrites DEF Indexed, FeedTypes
<1>3. InTurn'
  BY <1>0 DEF InTurn
<1>4. Gone' \subseteq Gone /\ Before \subseteq Before'
  BY <1>0 DEF Gone, Before, Indexed, InTurn
<1>5. since' \in Nat /\ (sync' \in {"fetching", "applying"} =>
                           \/ sync \in {"fetching", "applying"} /\ since' = since
                           \/ since' + 1 <= bounds \/ since' = 0)
  BY DEF FeedTypes, F!Since
<1>6. Behind'
  BY <1>0, <1>4, <1>5, Steady
<1>7. InOrder'
  BY <1>0 DEF InOrder
<1>8. LiveCovers'
  BY <1>0, TypedWrites DEF LiveCovers, Indexed
<1>9. Owing'
  BY <1>0 DEF Owing, InTurn
<1> QED
  BY <1>1, <1>2, <1>3, <1>6, <1>7, <1>8, <1>9

\* A post: nothing has passed it, since no bound is ahead of the clock.
LEMMA PostKeeps ==
  ASSUME FeedInv, ~Ahead, NEW e \in F!AllEvents, F!Post(e)
  PROVE  FeedInv'
<1> USE DEF F!Post, FeedInv
<1>0. /\ stamp' = [stamp EXCEPT ![e] = now] /\ e \notin F!OnRelay /\ e \in F!OnRelay'
      /\ \A d \in F!AllEvents : d # e => stamp'[d] = stamp[d]
      /\ stamp'[e] = now /\ F!OnRelay' = F!OnRelay \cup {e}
      /\ UNCHANGED <<now, held, bounds, boundTimer, queue, flushing, sync, since, live, status,
                     disk, diskNewest, writes, excused, late, owed, trouble, InWrites, Before>>
  BY DEF FeedTypes, F!OnRelay, F!AllEvents, InWrites, Before, Within
<1> HIDE DEF F!Post
<1>1. FeedTypes'
  BY <1>0 DEF FeedTypes
<1>2. Indexed'
  <2>1. unseen' \subseteq F!OnRelay' /\ (~live => unseen' = {})
    BY <1>0 DEF Indexed, F!Post
  <2> QED
    BY <1>0, <2>1 DEF Indexed
<1>3. InTurn'
  BY <1>0 DEF InTurn
<1>4. \A d \in Gone' : (d \in Gone /\ stamp'[d] = stamp[d]) \/ stamp'[d] = now
  BY <1>0 DEF Gone, F!OnRelay, F!Post
<1>6. Behind'
  <2>1. \A t \in Nat : t <= now + 1 => \A S : Covered(S, t) => Covered(S, t)'
    BY <1>0, <1>4 DEF Covered, FeedTypes
  <2>2. /\ now \in Nat /\ diskNewest \in Nat /\ bounds \in Nat /\ since \in Nat
        /\ diskNewest <= now /\ bounds <= now /\ since <= now
    BY DEF FeedTypes
  <2>3. Covered({}, diskNewest)' /\ Covered(Before, bounds)'
    BY <1>0, <2>1, <2>2 DEF Behind
  <2>4. (sync \in {"fetching", "applying"} => Covered(Before, since + 1))'
    <3>1. since + 1 \in Nat /\ since + 1 <= now + 1
      BY <2>2
    <3> QED
      BY <1>0, <2>1, <3>1 DEF Behind
  <2>5. \A k \in DOMAIN writes' :
           writes'[k].newest # 0 => Covered(Within(writes, k), writes[k].newest)'
    <3>1. \A k \in DOMAIN writes : writes[k].newest \in Nat /\ writes[k].newest <= now
      BY TypedWrites DEF Indexed
    <3>2. \A k : Within(writes, k)' = Within(writes, k)
      BY <1>0 DEF Within
    <3> QED
      BY <1>0, <2>1, <2>2, <3>1, <3>2 DEF Behind
  <2> QED
    BY <2>3, <2>4, <2>5 DEF Behind
<1>7. InOrder'
  BY <1>0 DEF InOrder
<1>8. LiveCovers'
  BY <1>0 DEF LiveCovers, F!Post
<1>9. Owing'
  BY <1>0 DEF Owing
<1> QED
  BY <1>1, <1>2, <1>3, <1>6, <1>7, <1>8, <1>9 DEF FeedInv

\* observe() only queues.
LEMMA ObserveKeeps ==
  ASSUME FeedInv, NEW e \in F!AllEvents, F!Observe(e)
  PROVE  FeedInv'
<1> USE DEF F!Observe, F!Queue, FeedInv
<1>0. UNCHANGED <<F!OnRelay, InWrites, Gone>> /\ Before \subseteq Before'
  BY DEF F!OnRelay, InWrites, Within, Gone, Before
<1>1. FeedTypes'
  BY DEF FeedTypes
<1>2. Indexed'
  BY <1>0 DEF Indexed
<1>3. InTurn'
  BY DEF InTurn
<1>6. Behind'
  BY <1>0, Steady DEF FeedTypes
<1>7. InOrder'
  BY DEF InOrder
<1>8. LiveCovers'
  BY <1>0 DEF LiveCovers
<1>9. Owing'
  BY DEF Owing, FeedTypes
<1> QED
  BY <1>1, <1>2, <1>3, <1>6, <1>7, <1>8, <1>9 DEF FeedInv

\* An event that comes live moves the bound.  All others are on their way or
\* excused, as the subscription is live; those the bound may overtake are `late`,
\* and so is the event itself when some bound has passed it already.
LEMMA NoteKeeps ==
  ASSUME FeedInv, NEW e \in F!AllEvents, F!Note(e)
  PROVE  FeedInv'
<1> USE DEF F!Note, F!Queue, FeedInv
<1>0. UNCHANGED <<F!OnRelay, InWrites>>
  BY DEF F!OnRelay, InWrites, Within
<1>a. stamp[e] \in Nat /\ stamp[e] <= now /\ bounds' \in Nat /\ bounds' <= now /\ bounds <= bounds'
      /\ stamp[e] <= bounds' /\ (bounds' = bounds \/ bounds' = stamp[e])
  BY DEF FeedTypes, F!Max2
<1>1. FeedTypes'
  BY <1>a DEF FeedTypes
<1>2. Indexed'
  BY <1>0 DEF Indexed
<1>3. InTurn'
  BY DEF InTurn
<1>4. \A d \in Gone' : d \in Gone \/ (d = e /\ flushing # "putting" /\ ~F!Passed(e))
  BY <1>0 DEF Gone
<1>5. \A d \in Gone' : d \in F!AllEvents /\ d \notin disk /\ (flushing = "putting" => d \notin queue')
  BY <1>0 DEF Gone, F!OnRelay
<1>b. Before \subseteq Before' /\ (flushing # "putting" => e \in Before')
  BY <1>0 DEF Before
<1>6. Behind'
  <2>1. \A t \in Nat : \A S : Covered(S, t) /\ (~F!Passed(e) => t <= stamp[e] + 1) => Covered(S, t)'
    BY <1>4 DEF Covered
  <2>2. \A t \in Nat : Covered(Before, t) => Covered(Before, t)'
    BY <1>4, <1>b DEF Covered
  <2>3. Covered({}, diskNewest)'
    <3>1. diskNewest \in Nat /\ diskNewest' = diskNewest /\ Covered({}, diskNewest)
      BY DEF FeedTypes, Behind
    <3> HIDE DEF F!Note
    <3>2. ~F!Passed(e) => diskNewest <= stamp[e] + 1
      BY <1>a, <3>1 DEF F!Passed
    <3>3. \A S : Covered(S, diskNewest) /\ (~F!Passed(e) => diskNewest <= stamp[e] + 1)
                  => Covered(S, diskNewest)'
      BY <2>1, <3>1
    <3> QED
      BY <3>1, <3>2, <3>3
  <2>4. \A k \in DOMAIN writes' :
           writes'[k].newest # 0 => Covered(Within(writes, k), writes[k].newest)'
    <3>1. \A k \in DOMAIN writes : ~F!Passed(e) => writes[k].newest <= stamp[e]
      <4> HIDE DEF F!Note
      <4> QED
        BY <1>a, TypedWrites DEF F!Passed
    <3>2. \A k \in DOMAIN writes : Within(writes, k)' = Within(writes, k)
      BY DEF Within
    <3> HIDE DEF F!Note
    <3>3. \A k \in DOMAIN writes : writes[k].newest \in Nat
      BY TypedWrites
    <3>4. writes' = writes
      BY DEF F!Note
    <3>5. \A k \in DOMAIN writes : \A S :
            Covered(S, writes[k].newest) => Covered(S, writes[k].newest)'
      <4> TAKE k \in DOMAIN writes
      <4> TAKE S
      <4> HAVE Covered(S, writes[k].newest)
      <4> SUFFICES ASSUME NEW d \in Gone', d \notin S PROVE writes'[k].newest <= stamp'[d] + 1
        BY DEF Covered
      <4> QED
        BY <1>4, <3>1, <3>3, <3>4, <1>a DEF Covered, F!Note
    <3> QED
      BY <3>2, <3>4, <3>5 DEF Behind, Covered
  <2>5. Covered(Before, bounds)'
    <3> SUFFICES ASSUME NEW d \in Gone' PROVE d \in Before' \/ bounds' <= stamp'[d] + 1
      BY DEF Covered
    <3>1. CASE d = e
      BY <1>4, <1>5, <1>b, <3>1 DEF Gone
    <3>2. CASE d # e
      <4>1. d \in queue \cup InWrites
        BY <1>4, <3>2 DEF LiveCovers, Gone
      <4> QED
        BY <1>0, <1>5, <4>1 DEF Before
    <3> QED
      BY <3>1, <3>2
  <2>6. (sync \in {"fetching", "applying"} => Covered(Before, since + 1))'
    <3>1. since + 1 \in Nat /\ since' = since /\ sync' = sync
      BY DEF FeedTypes
    <3> HIDE DEF F!Note
    <3>2. CASE sync \in {"fetching", "applying"}
      <4>1. Covered(Before, since + 1)
        BY <3>2 DEF Behind
      <4>2. ASSUME NEW d \in Gone' PROVE d \in Before' \/ since + 1 <= stamp'[d] + 1
        BY <2>2, <3>1, <4>1, <4>2 DEF Covered
      <4> QED
        BY <3>1, <4>2 DEF Covered
    <3> QED
      BY <3>1, <3>2
  <2> QED
    BY <2>3, <2>4, <2>5, <2>6 DEF Behind
<1>7. InOrder'
  BY <1>a, TypedWrites DEF InOrder, FeedTypes
<1>8. LiveCovers'
  BY <1>0 DEF LiveCovers
<1>9. Owing'
  BY DEF Owing, FeedTypes
<1> QED
  BY <1>1, <1>2, <1>3, <1>6, <1>7, <1>8, <1>9 DEF FeedInv

\* A crash leaves what is stored, and the bound that is stored with it.
LEMMA CrashKeeps == FeedInv /\ F!Crash => FeedInv'
<1> SUFFICES ASSUME FeedInv, F!Crash PROVE FeedInv'
  OBVIOUS
<1> USE DEF F!Crash, FeedInv
<1>0. UNCHANGED F!OnRelay /\ Gone' \subseteq Gone /\ DOMAIN writes' = {}
      /\ writes' \in Seq(Writes)
  BY DEF F!OnRelay, Gone
<1>1. FeedTypes'
  <2>1. bounds' = 0 /\ since' = 0 /\ UNCHANGED <<now, stamp, diskNewest>>
    OBVIOUS
  <2>2. /\ status' = "alive" /\ sync' \in SyncStates /\ flushing' = "no"
        /\ live' \in BOOLEAN /\ boundTimer' \in BOOLEAN
    BY DEF SyncStates
  <2> HIDE DEF F!Crash
  <2> QED
    BY <1>0, <2>1, <2>2 DEF FeedTypes
<1>2. Indexed'
  BY <1>0 DEF Indexed
<1>3. InTurn'
  BY <1>0 DEF InTurn
<1>6. Behind'
  <2>1. \A d \in Gone' : stamp'[d] = stamp[d] /\ stamp[d] \in Nat
    BY <1>0 DEF Gone, F!OnRelay, FeedTypes
  <2> QED
    BY <1>0, <2>1 DEF Behind, Covered
<1>7. InOrder'
  BY <1>0 DEF InOrder
<1>8. LiveCovers'
  BY DEF LiveCovers
<1>9. Owing'
  BY DEF Owing
<1> QED
  BY <1>1, <1>2, <1>3, <1>6, <1>7, <1>8, <1>9 DEF FeedInv

\* What appending w does to the writes.
LEMMA AppendFacts ==
  ASSUME FeedInv, NEW w \in Writes, writes' = Append(writes, w)
  PROVE  /\ writes' \in Seq(Writes) /\ Len(writes') = Len(writes) + 1
         /\ DOMAIN writes' = 1..(Len(writes) + 1)
         /\ \A k \in 1..(Len(writes) + 1) : k \in DOMAIN writes \/ k = Len(writes) + 1
         /\ \A k \in DOMAIN writes : /\ k \in DOMAIN writes' /\ k # Len(writes) + 1 /\ k < Len(writes) + 1
                                     /\ writes'[k] = writes[k]
                                     /\ Within(writes, k)' = Within(writes, k)
         /\ Len(writes) + 1 \in DOMAIN writes' /\ writes'[Len(writes) + 1] = w
         /\ InWrites' = InWrites \cup w.events
         /\ \A k : k = Len(writes) + 1 => Within(writes, k)' = InWrites'
<1>1. writes \in Seq(Writes)
  BY DEF FeedInv, FeedTypes
<1>2. /\ writes' \in Seq(Writes) /\ Len(writes') = Len(writes) + 1
      /\ \A k \in 1..Len(writes) : writes'[k] = writes[k] /\ Within(writes', k) = Within(writes, k)
      /\ writes'[Len(writes) + 1] = w
      /\ Within(writes', Len(writes')) = Within(writes, Len(writes)) \cup w.events
  <2>1. /\ writes' \in Seq(Writes) /\ Len(writes') = Len(writes) + 1 /\ Len(writes) \in Nat
        /\ \A k \in 1..Len(writes) : writes'[k] = writes[k]
        /\ writes'[Len(writes) + 1] = w
    BY <1>1
  <2>2. \A k \in 1..Len(writes) : Within(writes', k) = Within(writes, k)
    BY <2>1 DEF Within
  <2>3. \A k \in 1..Len(writes') : k \in 1..Len(writes) \/ k = Len(writes) + 1
    BY <2>1
  <2>4. Len(writes) + 1 \in 1..Len(writes') /\ \A k \in 1..Len(writes) : k \in 1..Len(writes')
    BY <2>1
  <2>5. Within(writes', Len(writes')) = Within(writes, Len(writes)) \cup w.events
    BY <2>1, <2>3, <2>4 DEF Within
  <2> QED
    BY <2>1, <2>2, <2>5
<1>3. DOMAIN writes = 1..Len(writes) /\ Len(writes) \in Nat /\ DOMAIN writes' = 1..(Len(writes) + 1)
  BY <1>1, <1>2
<1>4. \A k : Within(writes, k)' = Within(writes', k)
  BY DEF Within
<1>5. /\ InWrites' = InWrites \cup w.events
      /\ \A k : k = Len(writes) + 1 => Within(writes, k)' = InWrites'
  BY <1>2, <1>4 DEF InWrites
<1> QED
  BY <1>2, <1>3, <1>4, <1>5

\* A write that is appended must not bring a bound that passes what is not on its
\* way before it.
LEMMA AppendSteady ==
  ASSUME FeedInv, NEW w \in Writes, writes' = Append(writes, w),
         UNCHANGED <<stamp, diskNewest, bounds>>, Gone' \subseteq Gone, Before \subseteq Before',
         sync' \in {"fetching", "applying"} =>
           sync \in {"fetching", "applying"} /\ since' = since,
         w.newest # 0 => Covered(InWrites, w.newest)'
  PROVE  Behind'
<1>1. \A S, T, t : S \subseteq T /\ Covered(S, t) => Covered(T, t)'
  BY DEF Covered
<1>2. Covered({}, diskNewest)'
  BY <1>1 DEF FeedInv, Behind, Covered
<1>3. \A k \in DOMAIN writes' : writes'[k].newest # 0 => Covered(Within(writes, k), writes[k].newest)'
  <2> SUFFICES ASSUME NEW k \in DOMAIN writes', writes'[k].newest # 0
               PROVE  Covered(Within(writes, k), writes[k].newest)'
    OBVIOUS
  <2>1. CASE k \in DOMAIN writes
    BY <2>1, AppendFacts DEF FeedInv, Behind, Covered
  <2>2. CASE k = Len(writes) + 1
    BY <2>2, AppendFacts DEF Covered
  <2> QED
    BY <2>1, <2>2, AppendFacts
<1>4. Covered(Before, bounds)'
  BY DEF FeedInv, Behind, Covered
<1>5. (sync \in {"fetching", "applying"} => Covered(Before, since + 1))'
  BY DEF FeedInv, Behind, Covered
<1> QED
  BY <1>2, <1>3, <1>4, <1>5 DEF Behind

\* The queue is written.
LEMMA FlushBatchKeeps == FeedInv /\ F!FlushBatch => FeedInv'
<1> SUFFICES ASSUME FeedInv, F!FlushBatch PROVE FeedInv'
  OBVIOUS
<1> USE DEF F!FlushBatch, FeedInv
<1>0. PICK w \in Writes : /\ w.op = "flush" /\ w.events = queue /\ w.newest = 0
                          /\ writes' = Append(writes, w)
                          /\ UNCHANGED F!OnRelay
  <2>1. F!Write("flush", queue, 0) \in Writes
    BY DEF F!Write, Writes, Ops, Indexed, F!OnRelay
  <2> QED
    BY <2>1 DEF F!Write, F!OnRelay
<1>1. FeedTypes'
  BY <1>0, AppendFacts DEF FeedTypes
<1>2. Indexed'
  BY <1>0, AppendFacts DEF Indexed, FeedTypes
<1>3. InTurn'
  BY <1>0, AppendFacts DEF InTurn
<1>6. Behind'
  <2>1. Gone' = Gone /\ Before \subseteq Before'
    BY <1>0, AppendFacts DEF Gone, Before
  <2> QED
    BY <1>0, <2>1, AppendSteady
<1>7. InOrder'
  BY <1>0, AppendFacts DEF InOrder, FeedTypes, InTurn
<1>8. LiveCovers'
  BY <1>0, AppendFacts DEF LiveCovers
<1>9. Owing'
  BY <1>0, AppendFacts DEF Owing
<1> QED
  BY <1>1, <1>2, <1>3, <1>6, <1>7, <1>8, <1>9 DEF FeedInv

\* The bound is written: what it stands for is on its way before it, but for what
\* waits in the queue during a putMany(), and nothing there is behind the bound.
LEMMA FlushBoundsKeeps == FeedInv /\ F!FlushBounds => FeedInv'
<1> SUFFICES ASSUME FeedInv, F!FlushBounds PROVE FeedInv'
  OBVIOUS
<1> USE DEF F!FlushBounds, FeedInv
<1>0. PICK w \in Writes : /\ w.op = "bound" /\ w.events = {} /\ w.newest = bounds
                          /\ writes' = Append(writes, w)
                          /\ UNCHANGED F!OnRelay
  <2>1. F!Write("bound", {}, bounds) \in Writes
    BY DEF F!Write, Writes, Ops, FeedTypes, F!OnRelay
  <2> QED
    BY <2>1 DEF F!Write, F!OnRelay
<1>1. FeedTypes'
  BY <1>0, AppendFacts DEF FeedTypes
<1>2. Indexed'
  BY <1>0, AppendFacts DEF Indexed, FeedTypes
<1>3. InTurn'
  BY <1>0, AppendFacts DEF InTurn
<1>6. Behind'
  <2>1. Gone' = Gone /\ Before = Before' /\ Before \subseteq InWrites'
    BY <1>0, AppendFacts DEF Gone, Before, F!Settled, InTurn, FeedTypes
  <2>2. Covered(InWrites, w.newest)'
    BY <1>0, <2>1 DEF Behind, Covered
  <2> QED
    BY <1>0, <2>1, <2>2, AppendSteady
<1>7. InOrder'
  BY <1>0, AppendFacts DEF InOrder, FeedTypes
<1>8. LiveCovers'
  BY <1>0, AppendFacts DEF LiveCovers
<1>9. Owing'
  BY <1>0, AppendFacts DEF Owing
<1> QED
  BY <1>1, <1>2, <1>3, <1>6, <1>7, <1>8, <1>9 DEF FeedInv

\* A bound that is read is written again; one that is derived excuses what the
\* store does not have.
LEMMA SyncBeginsKeeps == FeedInv /\ F!SyncBegins => FeedInv'
<1> SUFFICES ASSUME FeedInv, F!SyncBegins PROVE FeedInv'
  OBVIOUS
<1> USE DEF FeedInv
<1>a. F!Stored \in Nat /\ F!Stored <= now /\ (diskNewest # 0 => F!Stored = diskNewest)
  <2>1. disk \subseteq F!AllEvents /\ diskNewest \in Nat /\ diskNewest <= now
    BY DEF Indexed, FeedTypes, F!OnRelay
  <2>2. CASE diskNewest # 0 \/ disk = {}
    BY <2>1, <2>2 DEF F!Stored
  <2>3. CASE diskNewest = 0 /\ disk # {}
    BY <2>1, <2>3, NewestFacts DEF F!Stored
  <2> QED
    BY <2>2, <2>3
<1>0. /\ sync = "no" /\ sync' \in {"reading", "ready"} /\ UNCHANGED F!OnRelay
      /\ UNCHANGED <<now, stamp, held, bounds, boundTimer, queue, flushing, since, live, unseen,
                     status, disk, diskNewest, late, owed>>
  BY DEF F!SyncBegins, F!OnRelay
<1>b. /\ excused \subseteq excused' /\ Gone' \subseteq Gone
      /\ bounds = 0 /\ diskNewest = 0 => \A e \in Gone' : stamp[e] >= F!Stored
  <2>1. /\ excused \subseteq excused'
        /\ bounds = 0 /\ diskNewest = 0 =>
             excused' = excused \cup {e \in F!OnRelay \ disk : stamp[e] < F!Stored}
    BY DEF F!SyncBegins
  <2>2. \A e \in F!OnRelay : stamp[e] \in Nat
    BY DEF F!OnRelay, FeedTypes
  <2> QED
    BY <1>0, <1>a, <2>1, <2>2 DEF Gone
<1>1. CASE writes' = writes /\ sync' = "ready"
  <2>0. UNCHANGED InWrites /\ Before' = Before
    BY <1>0, <1>1 DEF InWrites, Within, Before
  <2>1. FeedTypes'
    BY <1>0, <1>1 DEF FeedTypes, SyncStates
  <2>2. Indexed' /\ InTurn' /\ InOrder' /\ LiveCovers' /\ Owing'
    BY <1>0, <1>1, <1>b, <2>0 DEF Indexed, InTurn, InOrder, LiveCovers, Owing
  <2>3. Behind'
    BY <1>0, <1>1, <1>b, <2>0, Steady DEF FeedTypes
  <2> QED
    BY <2>1, <2>2, <2>3
<1>2. CASE writes' # writes \/ sync' # "ready"
  <2>0. PICK w \in Writes : /\ w.op = "rewrite" /\ w.events = {} /\ w.newest = F!Stored
                            /\ writes' = Append(writes, w)
    <3>1. F!Write("rewrite", {}, F!Stored) \in Writes
      BY <1>a DEF F!Write, Writes, Ops
    <3> QED
      BY <1>2, <3>1 DEF F!Write, F!SyncBegins
  <2>a. bounds = 0 /\ w.newest # 0 /\ sync' = "reading"
    BY <1>2, <2>0 DEF F!SyncBegins
  <2>1. FeedTypes'
    BY <1>0, <2>0, AppendFacts DEF FeedTypes, SyncStates
  <2>2. Indexed'
    BY <1>0, <1>a, <2>0, AppendFacts DEF Indexed, FeedTypes
  <2>3. InTurn'
    <3>1. \A k \in DOMAIN writes : writes[k].op \in {"flush", "bound"}
      BY <1>0, TypedWrites DEF InTurn, Ops
    <3> QED
      BY <1>0, <2>0, <2>a, <3>1, AppendFacts DEF InTurn
  <2>4. Behind'
    <3>1. Before \subseteq Before'
      BY <1>0, <2>0, AppendFacts DEF Before
    <3>2. Covered(InWrites, w.newest)'
      <4>1. \A e \in Gone' : e \in Gone /\ stamp[e] \in Nat
        BY <1>b DEF Gone, F!OnRelay, FeedTypes
      <4>2. CASE diskNewest # 0
        BY <1>0, <1>a, <2>0, <4>1, <4>2 DEF Behind, Covered
      <4>3. CASE diskNewest = 0
        BY <1>0, <1>a, <1>b, <2>0, <2>a, <4>1, <4>3 DEF Covered
      <4> QED
        BY <4>2, <4>3
    <3> QED
      BY <1>0, <1>b, <2>0, <3>1, <3>2, AppendSteady
  <2>5. InOrder'
    BY <1>0, <2>0, AppendFacts DEF InOrder, InTurn
  <2>6. LiveCovers' /\ Owing'
    BY <1>0, <1>b, <2>0, AppendFacts DEF LiveCovers, Owing
  <2> QED
    BY <2>1, <2>2, <2>3, <2>4, <2>5, <2>6
<1> QED
  BY <1>0, <1>1, <1>2

\* A batch that has been fetched, or none: the bounds do not move yet.
LEMMA SyncFetchedKeeps == FeedInv /\ F!SyncFetched => FeedInv'
<1> SUFFICES ASSUME FeedInv, F!SyncFetched PROVE FeedInv'
  OBVIOUS
<1> USE DEF FeedInv
<1>0. /\ sync = "fetching" /\ UNCHANGED F!OnRelay
      /\ UNCHANGED <<now, stamp, bounds, boundTimer, queue, flushing, live, unseen, status,
                     disk, diskNewest, excused, late, owed, Gone>>
  BY DEF F!SyncFetched, F!OnRelay, Gone
<1>a. PICK got \in SUBSET F!OnRelay :
        /\ held' = held \cup got
        /\ \/ sync' = "no" /\ since' = 0 /\ writes' = writes
           \/ got # {} /\ sync' = "applying" /\ since' = since
              /\ writes' = writes \o F!Applied(got)
  BY DEF F!SyncFetched
<1>1. CASE sync' = "no" /\ since' = 0 /\ writes' = writes
  <2>0. UNCHANGED <<InWrites, Before>>
    BY <1>0, <1>1 DEF InWrites, Within, Before
  <2>1. FeedTypes'
    BY <1>0, <1>1 DEF FeedTypes, SyncStates
  <2>2. Indexed'
    BY <1>0, <1>1, <1>a DEF Indexed
  <2>3. InTurn' /\ InOrder' /\ LiveCovers' /\ Owing'
    BY <1>0, <1>1, <2>0 DEF InTurn, InOrder, LiveCovers, Owing
  <2>4. Behind'
    BY <1>0, <1>1, <2>0, Steady DEF FeedTypes
  <2> QED
    BY <2>1, <2>2, <2>3, <2>4
<1>2. CASE got # {} /\ sync' = "applying" /\ since' = since /\ writes' = writes \o F!Applied(got)
  <2>b. sync' = "applying" /\ since' = since /\ writes' = writes \o F!Applied(got)
    BY <1>2
  <2>a. got \subseteq F!AllEvents
    BY <1>a DEF F!OnRelay
  <2>0. PICK w \in Writes : /\ w.op = "sync" /\ w.events = got /\ w.newest = 0
                            /\ writes' = Append(writes, w)
    <3>1. F!Write("sync", got, 0) \in Writes
      BY <2>a DEF F!Write, Writes, Ops
    <3>2. \A w \in Writes : writes \o <<w>> = Append(writes, w)
      BY AppendIsConcat DEF FeedTypes
    <3> QED
      BY <2>b, <3>1, <3>2 DEF F!Write, F!Applied
  <2>1. FeedTypes'
    <3>1. writes' \in Seq(Writes) /\ sync' \in SyncStates
      BY <2>b, <2>0, AppendFacts DEF SyncStates
    <3> QED
      BY <1>0, <2>b, <3>1 DEF FeedTypes
  <2>2. Indexed'
    <3>1. held' \subseteq F!OnRelay' /\ held \subseteq held' /\ got \subseteq held'
      BY <1>0, <1>a DEF Indexed
    <3> QED
      BY <1>0, <2>0, <3>1, AppendFacts DEF Indexed, FeedTypes
  <2>3. InTurn'
    <3>1. \A k \in DOMAIN writes : writes[k].op \in {"flush", "bound"}
      BY <1>0, TypedWrites DEF InTurn, Ops
    <3>2. w.op = "sync" /\ w.events # {} /\ sync' = "applying" /\ UNCHANGED <<flushing, queue, stamp>>
      BY <1>0, <1>2, <2>0, <2>b
    <3>3. writes' = Append(writes, w)
      BY <2>0
    <3> QED
      BY <3>1, <3>2, <3>3, AppendFacts DEF InTurn
  <2>4. Behind'
    <3>1. Before \subseteq Before'
      BY <1>0, <2>0, AppendFacts DEF Before
    <3> QED
      BY <1>0, <2>b, <2>0, <3>1, AppendSteady
  <2>5. InOrder'
    BY <1>0, <2>0, AppendFacts DEF InOrder, InTurn
  <2>6. LiveCovers' /\ Owing'
    BY <1>0, <2>0, AppendFacts DEF LiveCovers, Owing
  <2> QED
    BY <2>1, <2>2, <2>3, <2>4, <2>5, <2>6
<1> QED
  BY <1>a, <1>1, <1>2

-----------------------------------------------------------------------------
\* The first write, w, is over, and the one of `more`, if any, is appended.
Popped(w, more) ==
  /\ writes' \in Seq(Writes)
  /\ 1 \in DOMAIN writes /\ w = writes[1] /\ Within(writes, 1) = w.events
  /\ InWrites = w.events \cup InWrites'
  /\ \A k \in DOMAIN writes' :
       \/ /\ k + 1 \in DOMAIN writes /\ writes'[k] = writes[k + 1]
          /\ Within(writes, k + 1) = w.events \cup Within(writes', k)
       \/ k = Len(writes') /\ writes'[k] \in more /\ Within(writes', k) = InWrites'
  /\ \A k \in DOMAIN writes : k # 1 => k - 1 \in DOMAIN writes' /\ writes'[k - 1] = writes[k]

\* Popped describes the writes without the first.
LEMMA PoppedTail ==
  ASSUME FeedInv, writes # <<>>, writes' = Tail(writes)
  PROVE  Popped(Head(writes), {})
<1>1. writes \in Seq(Writes)
  BY DEF FeedInv, FeedTypes
<1>2. DOMAIN writes = 1..Len(writes) /\ DOMAIN writes' = 1..Len(writes')
  BY <1>1
<1>3. InWrites' = Within(writes', Len(writes'))
  BY DEF InWrites, Within
<1>4. /\ writes' \in Seq(Writes) /\ Len(writes) = Len(writes') + 1 /\ Len(writes') \in Nat
      /\ Head(writes) = writes[1] /\ writes[1] \in Writes
      /\ \A k \in 1..Len(writes') : writes'[k] = writes[k + 1]
      /\ \A k \in 1..Len(writes') : Within(writes, k + 1) = writes[1].events \cup Within(writes', k)
      /\ Within(writes, 1) = writes[1].events
      /\ Within(writes, Len(writes)) = writes[1].events \cup Within(writes', Len(writes'))
  BY <1>1, Taken, Zenon
<1>5. \A k \in DOMAIN writes' : k + 1 \in DOMAIN writes
  BY <1>2, <1>4
<1>6. /\ 1 \in DOMAIN writes
      /\ \A k \in DOMAIN writes : k # 1 => k - 1 \in DOMAIN writes' /\ writes'[k - 1] = writes[k]
  BY <1>2, <1>4
<1> QED
  BY <1>2, <1>3, <1>4, <1>5, <1>6 DEF Popped, InWrites

\* Popped describes the writes without the first, and a bound after them.
LEMMA PoppedAppend ==
  ASSUME FeedInv, writes # <<>>, NEW v \in Writes, v.events = {}, writes' = Append(Tail(writes), v)
  PROVE  Popped(Head(writes), {v})
<1> DEFINE ts == Tail(writes)
<1>1. writes \in Seq(Writes)
  BY DEF FeedInv, FeedTypes
<1>2. /\ ts \in Seq(Writes) /\ Len(writes) = Len(ts) + 1 /\ Len(ts) \in Nat
      /\ Head(writes) = writes[1] /\ writes[1] \in Writes
      /\ \A k \in 1..Len(ts) : ts[k] = writes[k + 1]
      /\ \A k \in 1..Len(ts) : Within(writes, k + 1) = writes[1].events \cup Within(ts, k)
      /\ Within(writes, 1) = writes[1].events
      /\ Within(writes, Len(writes)) = writes[1].events \cup Within(ts, Len(ts))
  BY <1>1, Taken, Zenon
<1>3. writes' = Append(ts, v)
  OBVIOUS
<1> HIDE DEF ts
<1>4. /\ writes' \in Seq(Writes) /\ Len(writes') = Len(ts) + 1 /\ writes'[Len(ts) + 1] = v
      /\ \A k \in 1..Len(ts) : writes'[k] = ts[k]
      /\ DOMAIN writes = 1..Len(writes) /\ DOMAIN writes' = 1..Len(writes')
  BY <1>1, <1>2, <1>3
<1>5. \A k \in DOMAIN writes' : (k \in 1..Len(ts) /\ k + 1 \in DOMAIN writes) \/ k = Len(ts) + 1
  BY <1>2, <1>4
<1>6. \A k \in 1..Len(ts) : Within(writes', k) = Within(ts, k)
  <2> TAKE k \in 1..Len(ts)
  <2>1. \A j \in 1..k : j \in 1..Len(ts)
    BY <1>2
  <2>2. \A j \in 1..k : writes'[j] = ts[j]
    BY <1>4, <2>1
  <2> HIDE <1>1, <1>2, <1>3, <1>4, <1>5
  <2> QED
    BY <2>2 DEF Within
<1>7. Within(writes', Len(writes')) = Within(ts, Len(ts))
  <2>1. \A k \in 1..Len(writes') : k \in 1..Len(ts) \/ k = Len(ts) + 1
    BY <1>2, <1>4
  <2>2. \A k \in 1..Len(ts) : k \in 1..Len(writes')
    BY <1>2, <1>4
  <2>3. \A k \in 1..Len(writes') : writes'[k].events # {} => k \in 1..Len(ts) /\ writes'[k] = ts[k]
    BY <1>4, <2>1
  <2>4. \A k \in 1..Len(ts) : writes'[k] = ts[k]
    BY <1>4
  <2>5. ASSUME NEW e \in Within(writes', Len(writes')) PROVE e \in Within(ts, Len(ts))
    <3>1. PICK k \in 1..Len(writes') : e \in writes'[k].events
      BY DEF Within
    <3> QED
      BY <2>3, <3>1 DEF Within
  <2>6. ASSUME NEW e \in Within(ts, Len(ts)) PROVE e \in Within(writes', Len(writes'))
    <3>1. PICK k \in 1..Len(ts) : e \in ts[k].events
      BY DEF Within
    <3> QED
      BY <2>2, <2>4, <3>1 DEF Within
  <2> QED
    BY <2>5, <2>6
<1>8. InWrites' = Within(writes', Len(writes'))
  BY DEF InWrites, Within
<1>9. /\ 1 \in DOMAIN writes
      /\ \A k \in DOMAIN writes : k # 1 => k - 1 \in DOMAIN writes' /\ writes'[k - 1] = writes[k]
  BY <1>2, <1>4
<1> QED
  BY <1>2, <1>4, <1>5, <1>6, <1>7, <1>8, <1>9 DEF Popped, InWrites

\* When the first write is over nothing is left behind if what it has lost, if
\* anything, is a batch no bound has passed yet.
LEMMA PopBehind ==
  ASSUME FeedInv, NEW w, NEW more, Popped(w, more), UNCHANGED stamp,
         \A e \in Gone' : e \in Gone /\ (e \in w.events => w.op = "sync" /\ bounds <= stamp[e] + 1),
         Before \subseteq Before' \cup w.events,
         sync' \in {"fetching", "applying"} => sync' = sync /\ since' = since /\ w.op # "sync",
         Covered({}, diskNewest)', Covered(Before, bounds)',
         \A v \in more : v.op # "sync" /\ Covered(InWrites, v.newest)'
  PROVE  Behind'
<1> USE DEF FeedInv
<1>0. /\ \A e \in Gone' : e \in F!AllEvents /\ stamp[e] \in Nat /\ stamp'[e] = stamp[e]
      /\ bounds \in Nat /\ since \in Nat
  BY DEF Gone, F!OnRelay, FeedTypes
<1>1. ASSUME NEW k \in DOMAIN writes', writes'[k].newest # 0
      PROVE  Covered(Within(writes, k), writes[k].newest)'
  <2>1. Within(writes, k)' = Within(writes', k)
    BY DEF Within
  <2>2. CASE /\ k + 1 \in DOMAIN writes /\ writes'[k] = writes[k + 1]
             /\ Within(writes, k + 1) = w.events \cup Within(writes', k)
    <3>1. Covered(Within(writes, k + 1), writes[k + 1].newest)
      BY <1>1, <2>2 DEF Behind
    <3>2. w.op = "sync" => writes[k + 1].newest <= bounds
      <4>1. 1 \in DOMAIN writes /\ w = writes[1] /\ 1 < k + 1
        BY <2>2, TypedWrites DEF Popped
      <4> QED
        BY <2>2, <4>1 DEF InOrder
    <3>3. writes[k + 1].newest \in Nat
      BY <2>2, TypedWrites
    <3> SUFFICES ASSUME NEW e \in Gone', e \notin Within(writes', k)
                 PROVE  writes'[k].newest <= stamp'[e] + 1
      BY <2>1 DEF Covered
    <3>4. CASE e \in w.events
      BY <1>0, <2>2, <3>2, <3>3, <3>4
    <3>5. CASE e \notin w.events
      BY <1>0, <2>2, <3>1, <3>5 DEF Covered
    <3> QED
      BY <3>4, <3>5
  <2>3. CASE k = Len(writes') /\ writes'[k] \in more /\ Within(writes', k) = InWrites'
    BY <2>1, <2>3 DEF Covered
  <2> QED
    BY <2>2, <2>3 DEF Popped
<1>2. (sync \in {"fetching", "applying"} => Covered(Before, since + 1))'
  BY <1>0 DEF Behind, Covered
<1> QED
  BY <1>1, <1>2 DEF Behind

\* When the first write is over the others are still in turn.
LEMMA PopInTurn ==
  ASSUME FeedInv, NEW w, NEW more, Popped(w, more), UNCHANGED queue,
         \A v \in more : v.op = "syncBound" /\ v.events = {} /\ w.op = "sync" /\ sync' = "bounding",
         w.op \in {"flush", "bound"} => sync' = sync,
         flushing' = IF w.op = "flush" THEN "armed" ELSE flushing
  PROVE  InTurn'
<1> USE DEF FeedInv
<1>1. \A k \in DOMAIN writes' : \/ /\ k + 1 \in DOMAIN writes /\ writes'[k] = writes[k + 1] /\ k + 1 # 1
                                \/ k = Len(writes') /\ writes'[k] \in more
  BY TypedWrites DEF Popped
<1>2. 1 \in DOMAIN writes /\ w = writes[1] /\ w.op \in Ops
  BY TypedWrites DEF Popped
<1>3. \A k \in DOMAIN writes : k # 1 =>
        /\ w.op = "flush" => writes[k].op # "flush"
        /\ w.op \in {"rewrite", "sync", "syncBound"} => writes[k].op \in {"flush", "bound"}
  BY <1>2, TypedWrites DEF InTurn, Ops
<1>4. \A j, k \in DOMAIN writes' : j + 1 = k + 1 => j = k
  BY DEF Popped
<1> QED
  BY <1>1, <1>2, <1>3, <1>4 DEF InTurn, Ops

\* A write that succeeds.  A bound that was read, or moved by a batch, is the one
\* in memory now; what the batch left out and the bound passes is excused.
LEMMA WriteDoneKeeps == FeedInv /\ F!WriteDone => FeedInv'
<1> SUFFICES ASSUME FeedInv, F!WriteDone PROVE FeedInv'
  OBVIOUS
<1> USE DEF FeedInv
<1>a. PICK w : w = Head(writes)
  OBVIOUS
<1>b. /\ writes # <<>> /\ flushing # "armed" /\ UNCHANGED F!OnRelay
      /\ disk' = disk \cup w.events
      /\ diskNewest' = IF w.newest # 0 THEN w.newest ELSE diskNewest
      /\ w.op = "rewrite" => bounds' = w.newest /\ sync' = "ready"
      /\ w.op = "sync" => bounds' = F!Max2(bounds, F!NewestOf(w.events)) /\ sync' = "bounding"
      /\ w.op \notin {"rewrite", "sync"} => bounds' = bounds
      /\ w.op = "syncBound" => sync' = "no"
      /\ w.op \in {"flush", "bound"} => sync' = sync
      /\ flushing' = IF w.op = "flush" THEN "armed" ELSE flushing
      /\ owed' = owed \ w.events /\ late' = late \ w.events
      /\ excused' = (excused \cup IF w.op = "sync" THEN F!LeftOut(w.events) ELSE {}) \ w.events
      /\ since' = IF w.op = "sync" THEN 0 ELSE since
      /\ UNCHANGED <<now, stamp, held, boundTimer, queue, live, unseen, status, trouble>>
  BY <1>a DEF F!WriteDone, F!Settled, F!OnRelay
<1>d. /\ 1 \in DOMAIN writes /\ w = writes[1] /\ w.op \in Ops /\ w.newest \in Nat /\ w.newest <= now
      /\ w.events \subseteq held /\ w.events \subseteq F!AllEvents
  <2>1. 1 \in DOMAIN writes /\ w = writes[1]
    BY <1>a, <1>b DEF FeedTypes
  <2> QED
    BY <2>1, TypedWrites DEF Indexed
<1>e. w.op = "sync" => F!NewestOf(w.events) \in Nat /\ F!NewestOf(w.events) <= now
  BY <1>d, NewestFacts DEF InTurn
<1>c. PICK more : /\ Popped(w, more)
                  /\ \A v \in more : /\ v.op = "syncBound" /\ v.events = {}
                                     /\ v.newest = bounds' /\ w.op = "sync"
  <2>1. CASE w.op = "sync"
    <3> DEFINE v == F!Write("syncBound", {}, bounds')
    <3>1. v \in Writes /\ v.op = "syncBound" /\ v.events = {} /\ v.newest = bounds'
      <4>1. bounds' \in Nat
        BY <1>b, <2>1, <1>e DEF F!Max2, FeedTypes
      <4> QED
        BY <4>1 DEF F!Write, Writes, Ops
    <3>2. writes' = Append(Tail(writes), v)
      <4>1. Tail(writes) \in Seq(Writes)
        BY <1>b, Taken DEF FeedTypes
      <4>2. writes' = Tail(writes) \o <<v>>
        BY <1>a, <2>1 DEF F!WriteDone
      <4> QED
        BY <3>1, <4>1, <4>2, AppendIsConcat
    <3> HIDE DEF v
    <3>3. PICK u : u = v
      OBVIOUS
    <3>4. Popped(w, {u})
      BY <1>a, <1>b, <3>1, <3>2, <3>3, PoppedAppend
    <3> QED
      BY <2>1, <3>1, <3>3, <3>4
  <2>2. CASE w.op # "sync"
    <3>1. Tail(writes) \in Seq(Writes)
      BY <1>b, Taken DEF FeedTypes
    <3>2. writes' = Tail(writes) \o <<>>
      BY <1>a, <2>2 DEF F!WriteDone
    <3>3. writes' = Tail(writes)
      BY <3>1, <3>2, ConcatEmptySeq
    <3> QED
      BY <1>a, <1>b, <3>3, PoppedTail
  <2> QED
    BY <2>1, <2>2
<1> HIDE DEF FeedInv
<1>f. \A e \in Gone' : e \in Gone /\ e \notin w.events
  BY <1>b DEF Gone
<1>j. w.op = "sync" => \A e \in Gone' : e \in Before \/ F!NewestOf(w.events) <= stamp[e] + 1
  <2> SUFFICES ASSUME w.op = "sync", NEW e \in Gone', e \notin Before
               PROVE  F!NewestOf(w.events) <= stamp[e] + 1
    OBVIOUS
  <2>1. sync = "applying" /\ since \in Nat
    BY <1>d DEF FeedInv, InTurn, FeedTypes
  <2>2. e \in F!OnRelay /\ stamp[e] \in Nat /\ e \notin disk
    BY <1>f DEF Gone, F!OnRelay, FeedInv, FeedTypes
  <2>3. since + 1 <= stamp[e] + 1
    BY <1>f, <2>1 DEF FeedInv, Behind, Covered
  <2>4. e \notin F!LeftOut(w.events)
    BY <1>b, <1>f DEF Gone
  <2> QED
    BY <1>e, <2>1, <2>2, <2>3, <2>4 DEF F!LeftOut
<1>g. /\ bounds' \in Nat /\ bounds' <= now
      /\ (bounds' = w.newest /\ w.op = "rewrite") \/ (bounds' >= bounds /\ w.op # "rewrite")
  BY <1>b, <1>d, <1>e DEF FeedInv, FeedTypes, F!Max2
<1>1. FeedTypes'
  <2>1. writes' \in Seq(Writes)
    BY <1>c DEF Popped
  <2>2. sync' \in SyncStates /\ flushing' \in {"no", "armed", "putting"}
    BY <1>b, <1>d DEF FeedInv, FeedTypes, SyncStates, Ops
  <2>3. diskNewest' \in Nat /\ diskNewest' <= now
    BY <1>b, <1>d DEF FeedInv, FeedTypes
  <2> QED
    BY <1>b, <1>g, <2>1, <2>2, <2>3 DEF FeedInv, FeedTypes
<1>2. Indexed'
  BY <1>b, <1>c, <1>d, <1>g DEF FeedInv, Indexed, Popped
<1>3. InTurn'
  BY <1>b, <1>c, <1>d, PopInTurn DEF Ops
<1>4. /\ Before \subseteq Before' \cup w.events
      /\ w.op = "sync" => Before' = InWrites'
  BY <1>b, <1>c, <1>d DEF Before, Popped, FeedInv, InTurn, FeedTypes
<1>h. \A e \in Gone' : stamp'[e] = stamp[e] /\ stamp[e] \in Nat
  BY <1>b, <1>f DEF Gone, F!OnRelay, FeedInv, FeedTypes
<1>i. w.newest # 0 => \A e \in Gone' : w.newest <= stamp[e] + 1
  <2>1. w.newest # 0 => Covered(w.events, w.newest)
    BY <1>c, <1>d DEF Popped, FeedInv, Behind
  <2> QED
    BY <1>f, <2>1 DEF Covered
<1>5. Covered(Before, bounds)'
  <2>1. CASE w.op = "rewrite"
    <3>1. w.newest # 0 /\ bounds' = w.newest
      BY <1>b, <1>d, <2>1 DEF FeedInv, InTurn
    <3> QED
      BY <1>h, <1>i, <3>1 DEF Covered
  <2>2. CASE w.op # "rewrite"
    <3>1. \A e \in Gone' : e \in Before \/ bounds' <= stamp[e] + 1
      BY <1>b, <1>e, <1>f, <1>j, <2>2 DEF FeedInv, Behind, Covered, F!Max2
    <3> QED
      BY <1>4, <1>f, <1>h, <3>1 DEF Covered
  <2> QED
    BY <2>1, <2>2
<1>6. Behind'
  <2>1. Covered({}, diskNewest)'
    <3>1. CASE w.newest # 0
      BY <1>b, <1>h, <1>i, <3>1 DEF Covered
    <3>2. CASE w.newest = 0
      BY <1>b, <1>f, <1>h, <3>2 DEF FeedInv, Behind, Covered
    <3> QED
      BY <3>1, <3>2
  <2>2. \A v \in more : v.op # "sync" /\ Covered(InWrites, v.newest)'
    BY <1>c, <1>4, <1>5 DEF Covered
  <2>3. sync' \in {"fetching", "applying"} => sync' = sync /\ since' = since /\ w.op # "sync"
    BY <1>b, <1>d DEF Ops
  <2>4. \A e \in Gone' : e \in Gone /\ (e \in w.events => w.op = "sync" /\ bounds <= stamp[e] + 1)
    BY <1>f
  <2> QED
    BY <1>b, <1>c, <1>4, <1>5, <2>1, <2>2, <2>3, <2>4, PopBehind
<1>7. InOrder'
  <2> SUFFICES ASSUME NEW j \in DOMAIN writes', NEW k \in DOMAIN writes',
                      writes'[j].op = "sync", j < k
               PROVE  writes'[k].newest <= bounds'
    BY DEF InOrder
  <2>1. j + 1 \in DOMAIN writes /\ writes'[j] = writes[j + 1] /\ j + 1 # 1
    BY <1>c, TypedWrites DEF Popped, FeedInv
  <2>2. w.op \in {"flush", "bound"}
    BY <1>d, <2>1 DEF FeedInv, InTurn, Ops
  <2>3. k + 1 \in DOMAIN writes /\ writes'[k] = writes[k + 1] /\ j + 1 < k + 1
    BY <1>c, <2>2, <2>1, TypedWrites DEF Popped, FeedInv
  <2> QED
    BY <1>b, <2>1, <2>2, <2>3 DEF FeedInv, InOrder
<1>8. LiveCovers'
  BY <1>b, <1>c DEF FeedInv, LiveCovers, Popped
<1>9. Owing'
  <2>1. ASSUME NEW e \in owed', e \notin queue'
        PROVE  \E k \in DOMAIN writes' : writes'[k].op = "flush" /\ e \in writes'[k].events
    <3>1. PICK k \in DOMAIN writes : writes[k].op = "flush" /\ e \in writes[k].events
      BY <1>b, <2>1 DEF FeedInv, Owing
    <3>2. k # 1
      BY <1>b, <1>d, <3>1
    <3> QED
      BY <1>c, <3>1, <3>2 DEF Popped
  <2> QED
    BY <1>b, <2>1 DEF FeedInv, Owing
<1> QED
  BY <1>1, <1>2, <1>3, <1>6, <1>7, <1>8, <1>9 DEF FeedInv

\* A write that fails.  A batch of the queue is excused; one of a sync() is asked
\* for again, for the bound has not passed it.
LEMMA WriteFailsKeeps == FeedInv /\ F!WriteFails => FeedInv'
<1> SUFFICES ASSUME FeedInv, F!WriteFails PROVE FeedInv'
  OBVIOUS
<1> USE DEF FeedInv
<1>a. PICK w : w = Head(writes)
  OBVIOUS
<1>b. /\ writes # <<>> /\ flushing # "armed" /\ UNCHANGED F!OnRelay
      /\ excused' = excused \cup {e \in w.events \ disk :
                                    w.op = "flush" \/ live \/ stamp[e] < F!Since(bounds)}
      /\ flushing' = IF w.op = "flush" THEN "armed" ELSE flushing
      /\ sync' = IF w.op \in {"flush", "bound"} THEN sync ELSE "no"
      /\ since' = IF w.op = "sync" THEN 0 ELSE since
      /\ owed' = owed \ w.events /\ writes' = Tail(writes)
      /\ UNCHANGED <<now, stamp, held, bounds, boundTimer, queue, live, unseen, status,
                     disk, diskNewest, late>>
  BY <1>a DEF F!WriteFails, F!Settled, F!OnRelay
<1>c. Popped(w, {})
  BY <1>a, <1>b, PoppedTail
<1>d. /\ 1 \in DOMAIN writes /\ w = writes[1] /\ w.op \in Ops
      /\ w.op \notin {"flush", "sync"} => w.events = {}
  BY <1>c, TypedWrites DEF Popped, InTurn
<1> HIDE DEF FeedInv
<1>h. \A e \in Gone' : stamp'[e] = stamp[e] /\ stamp[e] \in Nat /\ e \in Gone
  BY <1>b DEF Gone, F!OnRelay, FeedInv, FeedTypes
<1>f. \A e \in Gone' : e \in w.events => w.op = "sync" /\ ~live /\ bounds <= stamp[e] + 1
  <2> SUFFICES ASSUME NEW e \in Gone', e \in w.events
               PROVE  w.op = "sync" /\ ~live /\ bounds <= stamp[e] + 1
    OBVIOUS
  <2>1. ~(w.op = "flush" \/ live \/ stamp[e] < F!Since(bounds))
    BY <1>b DEF Gone
  <2>2. bounds \in Nat /\ now \in Nat /\ bounds <= now
    BY DEF FeedInv, FeedTypes
  <2> QED
    BY <1>d, <1>h, <2>1, <2>2 DEF F!Since, Ops
<1>1. FeedTypes'
  <2>1. writes' \in Seq(Writes)
    BY <1>c DEF Popped
  <2>2. sync' \in SyncStates /\ flushing' \in {"no", "armed", "putting"}
    BY <1>b DEF FeedInv, FeedTypes, SyncStates
  <2> QED
    BY <1>b, <2>1, <2>2 DEF FeedInv, FeedTypes
<1>2. Indexed'
  BY <1>b, <1>c DEF FeedInv, Indexed, Popped
<1>3. InTurn'
  BY <1>b, <1>c, PopInTurn
<1>6. Behind'
  <2>1. Before \subseteq Before' \cup w.events
    BY <1>b, <1>c DEF Before, Popped
  <2>2. Covered({}, diskNewest)'
    BY <1>b, <1>h DEF FeedInv, Behind, Covered
  <2>3. Covered(Before, bounds)'
    BY <1>b, <1>f, <1>h, <2>1 DEF FeedInv, Behind, Covered
  <2>4. sync' \in {"fetching", "applying"} => sync' = sync /\ since' = since /\ w.op # "sync"
    BY <1>b
  <2> QED
    BY <1>b, <1>c, <1>f, <1>h, <2>1, <2>2, <2>3, <2>4, PopBehind
<1>7. InOrder'
  BY <1>b, <1>c, TypedWrites DEF FeedInv, InOrder, Popped
<1>8. LiveCovers'
  BY <1>b, <1>c, <1>d DEF FeedInv, LiveCovers, Popped
<1>9. Owing'
  <2>1. ASSUME NEW e \in owed', e \notin queue'
        PROVE  \E k \in DOMAIN writes' : writes'[k].op = "flush" /\ e \in writes'[k].events
    <3>1. PICK k \in DOMAIN writes : writes[k].op = "flush" /\ e \in writes[k].events
      BY <1>b, <2>1 DEF FeedInv, Owing
    <3>2. k # 1
      BY <1>b, <1>d, <3>1
    <3> QED
      BY <1>c, <3>1, <3>2 DEF Popped
  <2> QED
    BY <1>b, <2>1 DEF FeedInv, Owing
<1> QED
  BY <1>1, <1>2, <1>3, <1>6, <1>7, <1>8, <1>9 DEF FeedInv

-----------------------------------------------------------------------------
\* Every step keeps the invariant, if no event is dated ahead of the clock.
LEMMA FeedStep == ~Ahead /\ FeedInv /\ [F!Next]_feedVars => FeedInv'
<1> SUFFICES ASSUME ~Ahead, FeedInv, [F!Next]_feedVars PROVE FeedInv'
  OBVIOUS
<1>1. CASE UNCHANGED feedVars
  <2>1. UNCHANGED <<F!OnRelay, InWrites, Before, Gone>>
    BY <1>1 DEF feedVars, F!OnRelay, InWrites, Within, Before, Gone
  <2>2. FeedTypes' /\ Indexed' /\ InTurn' /\ InOrder' /\ LiveCovers' /\ Owing'
    BY <1>1, <2>1 DEF feedVars, FeedInv, FeedTypes, Indexed, InTurn, InOrder, LiveCovers, Owing
  <2>3. Behind'
    BY <1>1, <2>1, Steady DEF feedVars, FeedInv, FeedTypes
  <2> QED
    BY <2>2, <2>3 DEF FeedInv
<1>2. CASE F!Next
  BY <1>2, SmallSteps, FlushBatchKeeps, SyncBeginsKeeps, SyncFetchedKeeps, FlushBoundsKeeps,
     WriteDoneKeeps, WriteFailsKeeps, CrashKeeps, PostKeeps, ObserveKeeps, NoteKeeps DEF F!Next
<1> QED
  BY <1>1, <1>2

\* The invariant implies the property: what is on its way is indexed.
LEMMA FeedInvSafe == FeedInv => FeedSafe
<1> SUFFICES ASSUME FeedInv PROVE FeedSafe
  OBVIOUS
<1> USE DEF FeedInv
<1>0. /\ \A e \in F!OnRelay : stamp[e] \in Nat
      /\ now \in Nat /\ bounds \in Nat /\ diskNewest \in Nat /\ bounds <= now /\ diskNewest <= now
  BY DEF FeedTypes, F!OnRelay
<1>1. Before \subseteq held
  BY DEF Before, InWrites, Within, Indexed, FeedTypes
<1>2. \A t \in Nat : t <= now => F!Since(t) = (IF t = 0 THEN 0 ELSE t - 1)
  BY <1>0 DEF F!Since
<1>3. F!FeedNeverSkips
  <2>1. CASE bounds # 0
    BY <1>0, <1>1, <1>2, <2>1 DEF F!FeedNeverSkips, Behind, Covered, Gone, Indexed
  <2>2. CASE bounds = 0
    BY <1>0, <1>1, <1>2, <2>2 DEF F!FeedNeverSkips, Behind, Covered, Gone, Indexed
  <2> QED
    BY <2>1, <2>2
<1>4. F!BoundBehindStore
  BY <1>0, <1>2 DEF F!BoundBehindStore, Behind, Covered, Gone
<1>5. F!ShutdownFlushes
  BY DEF F!ShutdownFlushes, Owing
<1> QED
  BY <1>3, <1>4, <1>5 DEF FeedSafe, F!FeedSafe

\* A step of the whole is a step of the feed or leaves it alone.
LEMMA FeedPart == [MCNext]_<<mode, reactiveVars, feedVars>> => [F!Next]_feedVars
  BY DEF MCNext

(* FeedSafe, for any number of events, any number of crashes and failed      *)
(* writes, and fetches that bring any part of what they ask for: what was on *)
(* a relay is with the client or asked for again (outbox.ts, sync() and      *)
(* #noteEvent()), what a crash leaves is no bound ahead of its events, and   *)
(* shutdown() leaves nothing unreported.  But for the excused, first what a  *)
(* fetch left out of a batch that moved the bound past it (LeftOut): for     *)
(* those the code loses what #syncFilters() says is never lost.  An event    *)
(* dated ahead of the clock moves the bound past others, so none is.         *)
THEOREM FeedIsSafe == ASSUME ~Ahead PROVE MCSpec => []FeedSafe
<1>1. MCInit => FeedInv
  BY FeedInit DEF MCInit
<1>2. FeedInv /\ [MCNext]_<<mode, reactiveVars, feedVars>> => FeedInv'
  BY FeedStep, FeedPart
<1>3. FeedInv => FeedSafe
  BY FeedInvSafe
<1> QED
  BY <1>1, <1>2, <1>3, PTL DEF MCSpec

-----------------------------------------------------------------------------
(* The memory index.                                                         *)
Ix(stored, del, marks, fifo) == [stored |-> stored, del |-> del, marks |-> marks, fifo |-> fifo]
MarkOf(ev) == [addr |-> ev.addr, id |-> ev.id, at |-> ev.at]
AllMarks == {MarkOf(ev) : ev \in {x \in Events : x.addr # Nothing}}
Distinct(marks) == /\ IsInjective(marks)
                   /\ \A m, n \in ToSet(marks) : m.addr = n.addr => m = n
Uncovered(stored, del) == \A ev \in stored : ~Covers(del, ev)

\* Tombstones: of an id, of what waits for an id, and of an address.
Tombs == {"id", "pending", "until"} \X (Ids \cup Addrs)

\* An index that writes can leave: no address has two events or two marks and
\* no event is stored that is deleted.
Sound(st) ==
  /\ st = Ix(st.stored, st.del, st.marks, st.fifo)
  /\ st.stored \in SUBSET Events /\ st.del \in Deletions /\ st.marks \in Seq(AllMarks)
  /\ st.fifo \in Seq(Tombs)
  /\ OnePerAddress(st.stored) /\ Uncovered(st.stored, st.del) /\ Distinct(st.marks)

\* m is what is left of marks without some ids and addresses.
Drops(m, marks, ids, addrs) ==
  /\ m \in Seq(AllMarks)
  /\ ToSet(m) = {x \in ToSet(marks) : x.id \notin ids /\ x.addr \notin addrs}
  /\ Distinct(marks) => Distinct(m)

\* The fields of an index.
LEMMA IxParts ==
  ASSUME NEW stored, NEW del, NEW marks, NEW fifo
  PROVE  /\ Ix(stored, del, marks, fifo).stored = stored /\ Ix(stored, del, marks, fifo).del = del
         /\ Ix(stored, del, marks, fifo).marks = marks /\ Ix(stored, del, marks, fifo).fifo = fifo
         /\ \A s : [Ix(stored, del, marks, fifo) EXCEPT !.stored = s] = Ix(s, del, marks, fifo)
         /\ \A d : [Ix(stored, del, marks, fifo) EXCEPT !.del = d] = Ix(stored, d, marks, fifo)
         /\ \A m : [Ix(stored, del, marks, fifo) EXCEPT !.marks = m] = Ix(stored, del, m, fifo)
BY DEF Ix

\* The fields of a mark; the mark of an event is its own.
LEMMA MarkParts ==
  ASSUME NEW ev \in Events
  PROVE  /\ MarkOf(ev).addr = ev.addr /\ MarkOf(ev).id = ev.id /\ MarkOf(ev).at = ev.at
         /\ ev.addr # Nothing => MarkOf(ev) \in AllMarks
         /\ \A x \in Events : MarkOf(x).id = ev.id => x = ev
<1>1. \A x \in Events : MarkOf(x).addr = x.addr /\ MarkOf(x).id = x.id /\ MarkOf(x).at = x.at
  BY DEF MarkOf
<1> QED
  BY <1>1, EventsAssumption DEF AllMarks

\* What dropping marks leaves.
LEMMA DropMarksIs ==
  ASSUME NEW stored, NEW del, NEW marks \in Seq(AllMarks), NEW fifo, NEW ids, NEW addrs
  PROVE  \E m : /\ DropMarks(Ix(stored, del, marks, fifo), ids, addrs) = Ix(stored, del, m, fifo)
                /\ Drops(m, marks, ids, addrs)
<1>1. PICK S : S = {x \in ToSet(marks) : x.id \notin ids /\ x.addr \notin addrs}
  OBVIOUS
<1>2. PICK m : m = Only(marks, S)
  OBVIOUS
<1>3. m \in Seq(AllMarks) /\ ToSet(m) = ToSet(marks) \cap S /\ (IsInjective(marks) => IsInjective(m))
  BY ONLY <1>2, marks \in Seq(AllMarks), OnlyIs
<1>4. PICK st : st = Ix(stored, del, marks, fifo) /\ st.marks = marks
  BY IxParts
<1>5. DropMarks(st, ids, addrs) = [st EXCEPT !.marks = m]
  BY <1>1, <1>2, <1>4 DEF DropMarks
<1>6. Drops(m, marks, ids, addrs)
  BY <1>1, <1>3 DEF Drops, Distinct
<1> QED
  BY <1>4, <1>5, <1>6, IxParts

\* What is left of marks without those of some ids.
Cut(m, marks, ids) ==
  /\ m \in Seq(AllMarks) /\ ToSet(m) = {x \in ToSet(marks) : x.id \notin ids}
  /\ Distinct(marks) => Distinct(m)

\* Removing from an index.
LEMMA IndexRemoveIs ==
  ASSUME NEW stored, NEW del, NEW marks \in Seq(AllMarks), NEW fifo, NEW ids
  PROVE  \E m : /\ IndexRemove(Ix(stored, del, marks, fifo), ids) = Ix(Sans(stored, ids), del, m, fifo)
                /\ Cut(m, marks, ids)
<1>1. PICK m : /\ DropMarks(Ix(stored, del, marks, fifo), ids, {}) = Ix(stored, del, m, fifo)
               /\ Cut(m, marks, ids)
  <2>1. PICK none : none = {}
    OBVIOUS
  <2>2. PICK m : /\ DropMarks(Ix(stored, del, marks, fifo), ids, none) = Ix(stored, del, m, fifo)
                 /\ Drops(m, marks, ids, none)
    BY ONLY marks \in Seq(AllMarks), DropMarksIs
  <2>3. Cut(m, marks, ids)
    BY <2>1, <2>2 DEF Drops, Cut
  <2> QED
    BY <2>1, <2>2, <2>3, Zenon
<1>2. IndexRemove(Ix(stored, del, marks, fifo), ids) = [Ix(stored, del, m, fifo) EXCEPT !.stored = Sans(@, ids)]
  BY <1>1 DEF IndexRemove
<1>3. [Ix(stored, del, m, fifo) EXCEPT !.stored = Sans(@, ids)] = Ix(Sans(stored, ids), del, m, fifo)
  BY DEF Ix
<1> QED
  BY <1>1, <1>2, <1>3

\* The events with one more.
With(stored, ev) == stored \cup {ev}
\* What is left of marks without those of an address.
Leaves(m, marks, addr) ==
  /\ m \in Seq(AllMarks) /\ ToSet(m) = {x \in ToSet(marks) : x.addr # addr}
  /\ Distinct(marks) => Distinct(m)

\* Inserting into one.
LEMMA IndexInsertIs ==
  ASSUME NEW stored, NEW del, NEW marks \in Seq(AllMarks), NEW fifo, NEW ev
  PROVE  \E m : /\ IndexInsert(Ix(stored, del, marks, fifo), ev) = Ix(With(stored, ev), del, m, fifo)
                /\ Leaves(m, marks, ev.addr)
<1>1. PICK s : s = stored \cup {ev}
  OBVIOUS
<1>2. PICK m : /\ DropMarks(Ix(stored, del, marks, fifo), {}, {ev.addr}) = Ix(stored, del, m, fifo)
               /\ Leaves(m, marks, ev.addr)
  <2>1. PICK ids, addrs : ids = {} /\ addrs = {ev.addr}
    OBVIOUS
  <2>2. \E m : /\ DropMarks(Ix(stored, del, marks, fifo), ids, addrs) = Ix(stored, del, m, fifo)
               /\ Drops(m, marks, ids, addrs)
    BY ONLY marks \in Seq(AllMarks), DropMarksIs
  <2>3. PICK m : /\ DropMarks(Ix(stored, del, marks, fifo), ids, addrs) = Ix(stored, del, m, fifo)
                 /\ Drops(m, marks, ids, addrs)
    BY <2>2
  <2>4. Leaves(m, marks, ev.addr)
    BY <2>1, <2>3 DEF Drops, Leaves
  <2> QED
    BY <2>1, <2>3, <2>4, Zenon
<1>3. PICK st : st = Ix(stored, del, m, fifo) /\ st.stored = stored
  BY ONLY IxParts
<1>4. IndexInsert(Ix(stored, del, marks, fifo), ev) = [st EXCEPT !.stored = @ \cup {ev}]
  BY <1>2, <1>3 DEF IndexInsert
<1>5. [st EXCEPT !.stored = @ \cup {ev}] = [st EXCEPT !.stored = s]
  BY <1>1, <1>3
<1>6. [st EXCEPT !.stored = s] = Ix(s, del, m, fifo)
  BY ONLY <1>3, IxParts
<1>7. s = With(stored, ev)
  BY <1>1 DEF With
<1> QED
  BY ONLY <1>2, <1>4, <1>5, <1>6, <1>7

\* d deletes nothing that del does not.
Weaker(d, del) == d \in Deletions /\ \A ev \in Events : Covers(d, ev) => Covers(del, ev)

\* Less of a deletion state deletes less.
LEMMA LessIsWithin ==
  ASSUME NEW del \in Deletions, NEW a, NEW b, NEW c, NEW d,
         d = [ids |-> del.ids \ a, pending |-> Without(del.pending, b), until |-> Without(del.until, c)]
  PROVE  Weaker(d, del)
<1>1. PICK p, u : p = Without(del.pending, b) /\ u = Without(del.until, c)
  OBVIOUS
<1>2. p \in Partial(Ids, Authors) /\ u \in Partial(Addrs, Nat)
  BY <1>1, WithoutType DEF Deletions
<1>3. d = [ids |-> del.ids \ a, pending |-> p, until |-> u]
  BY <1>1
<1>4. d.ids \subseteq del.ids /\ d.pending = p /\ d.until = u
  BY ONLY <1>3
<1>5. d \in Deletions
  <2>1. del.ids \ a \in SUBSET Ids
    BY DEF Deletions
  <2> QED
    BY ONLY <1>2, <1>3, <2>1 DEF Deletions
<1>6. \A i : At(p, i) = IF i \in b THEN Nothing ELSE At(del.pending, i)
  BY <1>1, WithoutPoint
<1>7. DOMAIN u \subseteq DOMAIN del.until /\ \A x \in DOMAIN u : u[x] = del.until[x]
  BY <1>1 DEF Without, Restrict
<1>8. ASSUME NEW ev \in Events, Covers(d, ev) PROVE Covers(del, ev)
  <2>1. ev.by # Nothing
    BY EventsAssumption DEF Authors
  <2> QED
    BY <1>4, <1>6, <1>7, <1>8, <2>1 DEF Covers
<1> QED
  BY <1>5, <1>8 DEF Weaker

\* A finite set as a sequence.
LEMMA SetToSeqIs ==
  ASSUME NEW S, IsFiniteSet(S), NEW u, u = SetToSeq(S)
  PROVE  u \in Seq(S) /\ ToSet(u) = S /\ IsInjective(u) /\ Len(u) = Cardinality(S)
<1>1. PICK n \in Nat : n = Cardinality(S)
  BY FS_CardinalityType
<1>2. PICK f : f \in Bijection(1..n, S)
  BY <1>1, FS_CardinalityType DEF ExistsBijection
<1>3. f \in [1..n -> S] /\ IsInjective(f)
  BY <1>2 DEF Bijection, Injection
<1>4. u \in [1..n -> S] /\ IsInjective(u)
  BY <1>1, <1>3 DEF SetToSeq
<1>5. u \in Seq(S) /\ Len(u) = n
  BY <1>1, <1>4
<1>6. u \in Injection(1..n, S)
  BY <1>4 DEF Injection
<1>7. IsFiniteSet(1..n) /\ Cardinality(1..n) = n
  BY FS_Interval
<1>8. u \in Surjection(1..n, S)
  BY <1>1, <1>6, <1>7, FS_Injection
<1>9. ToSet(u) = S
  BY <1>4, <1>8 DEF Surjection, ToSet
<1> QED
  BY <1>1, <1>4, <1>5, <1>9

\* There are finitely many ids, addresses and tombstones.
LEMMA FiniteNames == IsFiniteSet(Ids) /\ IsFiniteSet(Addrs) /\ IsFiniteSet(Tombs)
<1>1. PICK f : f = [ev \in Events |-> ev.id]
  OBVIOUS
<1>2. PICK g : g = [ev \in Events |-> ev.addr]
  OBVIOUS
<1>3. PICK p : p = [ev \in Events |-> ev.e]
  OBVIOUS
<1>4. PICK q : q = [ev \in Events |-> ev.a]
  OBVIOUS
<1>5. PICK I, C, E, D : /\ I = {ev.id : ev \in Events} /\ C = {ev.addr : ev \in Events}
                        /\ E = {ev.e : ev \in Events} /\ D = {ev.a : ev \in Events}
  OBVIOUS
<1>6. /\ f \in Surjection(Events, I) /\ g \in Surjection(Events, C)
      /\ p \in Surjection(Events, E) /\ q \in Surjection(Events, D)
  BY <1>1, <1>2, <1>3, <1>4, <1>5 DEF Surjection
<1>7. IsFiniteSet(I) /\ IsFiniteSet(C) /\ IsFiniteSet(E) /\ IsFiniteSet(D)
  BY <1>6, FS_Surjection, EventsAssumption
<1>8. IsFiniteSet(UNION E) /\ IsFiniteSet(UNION D)
  <2>1. \A S \in E : IsFiniteSet(S)
    BY <1>5, EventsAssumption
  <2>2. \A S \in D : IsFiniteSet(S)
    BY <1>5, EventsAssumption
  <2>3. IsFiniteSet(UNION E)
    BY ONLY <1>7, <2>1, FS_UNION
  <2>4. IsFiniteSet(UNION D)
    BY ONLY <1>7, <2>2, FS_UNION
  <2> QED
    BY <2>3, <2>4
<1>9. IsFiniteSet(Ids)
  BY <1>5, <1>7, <1>8, FS_Union DEF Ids
<1>10. IsFiniteSet(Addrs)
  <2>1. IsFiniteSet(C \cup UNION D)
    BY <1>7, <1>8, FS_Union
  <2>2. Addrs \subseteq C \cup UNION D
    BY <1>5 DEF Addrs
  <2> QED
    BY <2>1, <2>2, FS_Subset
<1>11. IsFiniteSet({"id", "pending", "until"})
  <2>1. IsFiniteSet({"id"}) /\ IsFiniteSet({"pending"}) /\ IsFiniteSet({"until"})
    BY FS_Singleton
  <2>2. IsFiniteSet(({"id"} \cup {"pending"}) \cup {"until"})
    BY <2>1, FS_Union, Zenon
  <2>3. {"id", "pending", "until"} = ({"id"} \cup {"pending"}) \cup {"until"}
    OBVIOUS
  <2> QED
    BY <2>2, <2>3
<1>12. IsFiniteSet(Ids \cup Addrs)
  BY <1>9, <1>10, FS_Union
<1> QED
  BY <1>9, <1>10, <1>11, <1>12, FS_Product DEF Tombs

\* What a deletion state has tombstones of.
LEMMA MarkedIs ==
  ASSUME NEW del \in Deletions
  PROVE  Marked(del) \in SUBSET Tombs /\ IsFiniteSet(Marked(del))
<1>1. /\ del.ids \subseteq Ids /\ DOMAIN del.pending \subseteq Ids /\ DOMAIN del.until \subseteq Addrs
  BY Partials DEF Deletions
<1>2. Marked(del) \in SUBSET Tombs
  BY <1>1 DEF Marked, Tombs
<1> QED
  BY <1>2, FiniteNames, FS_Subset

\* Trimming forgets tombstones, and nothing else.
LEMMA TrimmedIs ==
  ASSUME NEW stored, NEW del \in Deletions, NEW marks, NEW fifo \in Seq(Tombs), NEW again
  PROVE  \E d, f : /\ Trimmed(Ix(stored, del, marks, fifo), again) = Ix(stored, d, marks, f)
                   /\ Weaker(d, del) /\ f \in Seq(Tombs)
<1>1. PICK st : st = Ix(stored, del, marks, fifo) /\ st.del = del /\ st.fifo = fifo
  BY IxParts
<1>2. CASE MaxTombstones = Nothing
  <2>1. Trimmed(st, again) = st
    BY <1>2 DEF Trimmed
  <2>2. Weaker(del, del)
    BY DEF Weaker
  <2> QED
    BY <1>1, <2>1, <2>2
<1>3. CASE MaxTombstones # Nothing
  <2>1. PICK marked : marked = Marked(st.del)
    OBVIOUS
  <2>2. PICK kept : kept = Only(st.fifo, marked \ again)
    OBVIOUS
  <2>3. PICK all : all = kept \o SetToSeq(marked \ ToSet(kept))
    OBVIOUS
  <2>4. \E a, b, c, d, f :
           /\ d = [ids |-> st.del.ids \ a, pending |-> Without(st.del.pending, b),
                   until |-> Without(st.del.until, c)]
           /\ f = Only(all, Marked(d))
           /\ Trimmed(st, again) = Ix(st.stored, d, st.marks, f)
    BY <1>3, <2>1, <2>2, <2>3 DEF Trimmed, Ix
  <2>5. PICK a, b, c, d, f :
           /\ d = [ids |-> st.del.ids \ a, pending |-> Without(st.del.pending, b),
                   until |-> Without(st.del.until, c)]
           /\ f = Only(all, Marked(d))
           /\ Trimmed(st, again) = Ix(st.stored, d, st.marks, f)
    BY <2>4
  <2>6. Weaker(d, del)
    BY <1>1, <2>5, LessIsWithin
  <2>7. st.stored = stored /\ st.marks = marks
    BY <1>1, IxParts
  <2>8. kept \in Seq(Tombs)
    BY ONLY <1>1, <2>2, fifo \in Seq(Tombs), OnlyIs
  <2>9. SetToSeq(marked \ ToSet(kept)) \in Seq(Tombs)
    <3>1. PICK rest : rest = marked \ ToSet(kept)
      OBVIOUS
    <3>2. rest \in SUBSET Tombs /\ IsFiniteSet(rest)
      BY <1>1, <2>1, <3>1, MarkedIs, FS_Subset
    <3>3. PICK u : u = SetToSeq(rest)
      OBVIOUS
    <3>4. u \in Seq(rest)
      BY <3>2, <3>3, SetToSeqIs
    <3>5. u \in Seq(Tombs)
      BY <3>2, <3>4
    <3> QED
      BY <3>1, <3>3, <3>5
  <2>10. all \in Seq(Tombs)
    BY <2>3, <2>8, <2>9
  <2>11. f \in Seq(Tombs)
    BY ONLY <2>5, <2>10, OnlyIs
  <2> QED
    BY <1>1, <2>5, <2>6, <2>7, <2>11
<1> QED
  BY <1>2, <1>3

\* The least of some numbers is one of them.
LEMMA MinIsIn ==
  ASSUME NEW s \in SUBSET Nat, s # {}
  PROVE  Min(s) \in s /\ \A y \in s : Min(s) <= y
<1>1. PICK k \in s : \A j \in s : <<j, k>> \notin OpToRel(<, Nat)
  <2>1. IsWellFoundedOn(OpToRel(<, Nat), Nat)
    BY NatLessThanWellFounded, Zenon
  <2> QED
    BY <2>1, WFMin
<1>2. \A j \in s : ~(j < k)
  BY <1>1 DEF OpToRel
<1>3. \A j \in s : k <= j
  BY <1>2
<1> QED
  BY <1>3 DEF Min

\* getReplaceable(): who holds each address.
EvictedAs(m) == [id |-> m.id, at |-> m.at, evicted |-> TRUE]
Holds(h, stored, marks) ==
  \A c \in Addrs :
    /\ \A ev \in stored : ev.addr = c => h[c] = HeldAs(ev)
    /\ (\A ev \in stored : ev.addr # c) =>
         \/ h[c] = Nothing /\ \A m \in ToSet(marks) : m.addr # c
         \/ h[c] # Nothing /\ \E m \in ToSet(marks) : m.addr = c /\ h[c] = EvictedAs(m)

\* The fields of an evicted holder.
LEMMA EvictedParts ==
  ASSUME NEW m \in AllMarks
  PROVE  /\ EvictedAs(m).id = m.id /\ EvictedAs(m).at = m.at /\ EvictedAs(m).evicted = TRUE
         /\ EvictedAs(m) # Nothing
         /\ \E x \in Events : x.addr # Nothing /\ m = MarkOf(x) /\ x.id = m.id /\ x.at = m.at /\ x.addr = m.addr
<1>1. PICK x \in Events : x.addr # Nothing /\ m = MarkOf(x)
  BY DEF AllMarks
<1>2. m.id = x.id /\ m.at = x.at /\ m.addr = x.addr
  BY <1>1, MarkParts
<1>3. EvictedAs(m) \in [id : Ids, at : Nat, evicted : BOOLEAN]
  BY <1>2, EventsAssumption DEF Ids, EvictedAs
<1> QED
  BY <1>1, <1>2, <1>3, EventsAssumption DEF EvictedAs

\* The holder is the stored event of an address, or its mark.
LEMMA HolderIs ==
  ASSUME NEW st, Sound(st), NEW h, h = Holder(st)
  PROVE  Holds(h, st.stored, st.marks)
<1> SUFFICES ASSUME NEW c \in Addrs
             PROVE  /\ \A ev \in st.stored : ev.addr = c => h[c] = HeldAs(ev)
                    /\ (\A ev \in st.stored : ev.addr # c) =>
                         \/ h[c] = Nothing /\ \A m \in ToSet(st.marks) : m.addr # c
                         \/ h[c] # Nothing /\ \E m \in ToSet(st.marks) : m.addr = c /\ h[c] = EvictedAs(m)
  BY DEF Holds
<1> DEFINE marked == {n \in DOMAIN st.marks : st.marks[n].addr = c}
<1>0. c # Nothing /\ st.marks \in Seq(AllMarks) /\ st.stored \in SUBSET Events
  BY DEF Addrs, Sound
<1>1. h[c] = IF Current(st, c) # Nothing THEN HeldAs(Current(st, c))
             ELSE IF marked = {} THEN Nothing ELSE EvictedAs(st.marks[Min(marked)])
  BY DEF Holder, HeldAs, EvictedAs
<1>2. ASSUME NEW ev \in st.stored, ev.addr = c PROVE h[c] = HeldAs(ev)
  <2>1. ByAddr(st.stored, c) = {ev}
    BY <1>0, <1>2 DEF ByAddr, Sound, OnePerAddress
  <2>2. Current(st, c) = ev
    BY <2>1 DEF Current
  <2>3. ev # Nothing
    BY <1>0, EventsAssumption
  <2> HIDE DEF marked
  <2> QED
    BY <1>1, <2>2, <2>3
<1>3. ASSUME \A ev \in st.stored : ev.addr # c
      PROVE  \/ h[c] = Nothing /\ \A m \in ToSet(st.marks) : m.addr # c
             \/ h[c] # Nothing /\ \E m \in ToSet(st.marks) : m.addr = c /\ h[c] = EvictedAs(m)
  <2>1. ByAddr(st.stored, c) = {}
    BY <1>3 DEF ByAddr
  <2>2. Current(st, c) = Nothing
    BY <2>1 DEF Current
  <2>3. CASE marked = {}
    <3>1. \A m \in ToSet(st.marks) : m.addr # c
      BY <2>3 DEF ToSet
    <3> HIDE DEF marked
    <3> QED
      BY <1>1, <2>2, <2>3, <3>1
  <2>4. CASE marked # {}
    <3>1. marked \in SUBSET Nat
      BY <1>0
    <3>2. PICK n : n = Min(marked) /\ n \in marked
      <4> HIDE DEF marked
      <4> QED
        BY <2>4, <3>1, MinIsIn
    <3>3. PICK m : m = st.marks[n] /\ m \in ToSet(st.marks) /\ m.addr = c /\ m \in AllMarks
      <4>1. PICK mk : mk = st.marks /\ mk \in Seq(AllMarks)
        BY <1>0
      <4>2. n \in DOMAIN mk /\ mk[n].addr = c
        BY <3>2, <4>1
      <4>3. mk[n] \in AllMarks /\ mk[n] \in ToSet(mk)
        BY <4>1, <4>2 DEF ToSet
      <4> QED
        BY <4>1, <4>2, <4>3
    <3>4. h[c] = EvictedAs(m)
      <4> HIDE DEF marked
      <4> QED
        BY <1>1, <2>2, <2>4, <3>2, <3>3
    <3> QED
      BY <3>3, <3>4, EvictedParts
  <2> QED
    BY <2>3, <2>4
<1> QED
  BY <1>2, <1>3

\* The outcomes of a put: an insert wins against what holds its address, and what a
\* request deletes at its addresses is among what it removes.
Wins(ev, stored, marks) ==
  /\ \A x \in stored : ev.addr # Nothing /\ x.addr = ev.addr => IsWinner(ev, x)
  /\ (\A x \in stored : x.addr # ev.addr) =>
       \A m \in ToSet(marks) : m.addr = ev.addr => m.id = ev.id \/ IsWinner(ev, m)
Judged(d, ev, del, stored, marks) ==
  \/ d.action = "skip"
  \/ d.action = "tombstone" /\ ev.kind # "delete" /\ Unknown(ev, del, stored)
  \/ /\ d.action = "delete" /\ ev.kind = "delete" /\ Unknown(ev, del, stored)
     /\ d.plan = Plan(ev, stored) /\ Overdue(stored, d.plan.until) \subseteq d.coords
     /\ \A i \in d.coords : \E x \in Events : /\ x.id = i /\ x.addr \in DOMAIN d.plan.until
                                              /\ x.at <= d.plan.until[x.addr]
  \/ /\ d.action = "insert" /\ ev.kind # "delete" /\ Unknown(ev, del, stored) /\ ~Covers(del, ev)
     /\ d.drop = AtAddress(stored, ev.addr) /\ Wins(ev, stored, marks)

\* The coordinates of a plan that are held, by a stored event or an evicted one.
LEMMA IndexCoordsIs ==
  ASSUME NEW stored \in SUBSET Events, NEW marks \in Seq(AllMarks), NEW h, Holds(h, stored, marks),
         NEW plan, DOMAIN plan.until \subseteq Addrs, NEW coords, coords = CoordinateRemovals(plan, h)
  PROVE  /\ Overdue(stored, plan.until) \subseteq coords
         /\ \A i \in coords : \E x \in Events : /\ x.id = i /\ x.addr \in DOMAIN plan.until
                                                /\ x.at <= plan.until[x.addr]
<1>1. ASSUME NEW x \in stored, x.addr \in DOMAIN plan.until, x.at <= plan.until[x.addr]
      PROVE  x.id \in coords
  <2>1. PICK c \in DOMAIN plan.until : c = x.addr
    BY <1>1
  <2>2. h[c] = HeldAs(x)
    BY <1>1, <2>1 DEF Holds
  <2>3. h[c].id = x.id /\ h[c].at = x.at /\ h[c] # Nothing
    BY <2>2, HeldParts
  <2> QED
    BY <1>1, <2>1, <2>3 DEF CoordinateRemovals
<1>2. ASSUME NEW c \in DOMAIN plan.until, h[c] # Nothing, h[c].at <= plan.until[c]
      PROVE  \E x \in Events : x.id = h[c].id /\ x.addr = c /\ x.at <= plan.until[c]
  <2>0. c \in Addrs
    OBVIOUS
  <2>1. CASE \E x \in stored : x.addr = c
    <3>1. PICK x \in stored : x.addr = c
      BY <2>1
    <3>2. h[c] = HeldAs(x)
      BY <2>0, <3>1 DEF Holds
    <3>3. x \in Events /\ h[c].id = x.id /\ h[c].at = x.at
      BY <3>2, HeldParts
    <3> QED
      BY <1>2, <3>1, <3>3
  <2>2. CASE \A x \in stored : x.addr # c
    <3>1. PICK m \in ToSet(marks) : m.addr = c /\ h[c] = EvictedAs(m)
      BY <1>2, <2>0, <2>2 DEF Holds
    <3>2. m \in AllMarks
      BY DEF ToSet
    <3>3. PICK x \in Events : x.id = m.id /\ x.at = m.at /\ x.addr = m.addr
      BY <3>2, EvictedParts
    <3>4. h[c].id = m.id /\ h[c].at = m.at
      BY <3>1, <3>2, EvictedParts
    <3> QED
      BY <1>2, <3>1, <3>3, <3>4
  <2> QED
    BY <2>1, <2>2
<1> QED
  BY <1>1, <1>2 DEF CoordinateRemovals, Overdue

\* Decide(), over an index.
LEMMA JudgedIs ==
  ASSUME NEW ev \in Events, NEW del, NEW stored \in SUBSET Events, NEW marks \in Seq(AllMarks),
         Distinct(marks), OnePerAddress(stored), NEW h, Holds(h, stored, marks),
         NEW d, d = Decide(ev, del, stored, h)
  PROVE  Judged(d, ev, del, stored, marks)
<1> DEFINE known == ev.id \in del.ids \/ ById(stored, ev.id) # Nothing
           prev == IF ev.addr = Nothing THEN Nothing ELSE h[ev.addr]
<1>1. ~known <=> Unknown(ev, del, stored)
  BY ByIdIs DEF Unknown
<1>2. CASE ev.kind = "invalid" \/ known
  BY <1>2 DEF Decide, Judged, Skip
<1>3. CASE ev.kind # "invalid" /\ ~known /\ ev.kind = "delete"
  <2>1. PICK plan, coords : plan = Plan(ev, stored) /\ coords = CoordinateRemovals(plan, h)
    OBVIOUS
  <2>2. d = [action |-> "delete", result |-> "deleted", plan |-> plan, coords |-> coords]
    BY <1>3, <2>1 DEF Decide
  <2>3. DOMAIN plan.until \subseteq Addrs
    BY <2>1, EventsAssumption DEF Plan, Addrs
  <2>4. d.action = "delete" /\ d.plan = plan /\ d.coords = coords
    BY ONLY <2>2
  <2>5. /\ Overdue(stored, plan.until) \subseteq coords
        /\ \A i \in coords : \E x \in Events : /\ x.id = i /\ x.addr \in DOMAIN plan.until
                                               /\ x.at <= plan.until[x.addr]
    BY <2>1, <2>3, IndexCoordsIs
  <2> HIDE DEF known
  <2> QED
    BY <1>1, <1>3, <2>1, <2>4, <2>5, Zenon DEF Judged
<1>4. CASE ev.kind # "invalid" /\ ~known /\ ev.kind # "delete" /\ Covers(del, ev)
  <2>1. d = [action |-> "tombstone", result |-> "duplicate"]
    BY <1>4 DEF Decide
  <2> QED
    BY <1>1, <1>4, <2>1 DEF Judged
<1>5. CASE ev.kind \notin {"invalid", "delete"} /\ ~known /\ ~Covers(del, ev)
  <2>0. ASSUME d.action = "skip" \/ (d.action = "insert" /\ d.drop = AtAddress(stored, ev.addr)
                                       /\ Wins(ev, stored, marks))
        PROVE  Judged(d, ev, del, stored, marks)
    BY <1>1, <1>5, <2>0 DEF Judged
  <2>1. CASE ev.addr = Nothing
    <3>1. AtAddress(stored, ev.addr) = {}
      BY <2>1 DEF AtAddress
    <3>2. d.action = "skip" \/ (d.action = "insert" /\ d.drop = {})
      BY <1>5, <2>1 DEF Decide, Skip
    <3>3. \A m \in ToSet(marks) : m.addr # ev.addr
      <4>1. ToSet(marks) \subseteq AllMarks
        BY DEF ToSet
      <4> QED
        BY <2>1, <4>1, EvictedParts
    <3>4. Wins(ev, stored, marks)
      BY <2>1, <3>3 DEF Wins
    <3> QED
      BY <2>0, <3>1, <3>2, <3>4
  <2>2. ASSUME ev.addr # Nothing, NEW x \in stored, x.addr = ev.addr
        PROVE  Judged(d, ev, del, stored, marks)
    <3>1. PICK c \in Addrs : c = ev.addr
      BY <2>2 DEF Addrs
    <3>2. prev = HeldAs(x)
      BY <2>2, <3>1 DEF Holds
    <3>3. prev # Nothing /\ prev.id = x.id /\ prev.at = x.at /\ prev.evicted = FALSE
      BY <3>2, HeldParts
    <3>4. x.id # ev.id
      BY <1>1, <1>5 DEF Unknown
    <3>5. d.action = "skip" \/ (d.action = "insert" /\ d.drop = {prev.id} /\ IsWinner(ev, prev))
      BY <1>5, <2>2, <3>3, <3>4 DEF Decide, Skip
    <3>6. AtAddress(stored, ev.addr) = {x.id}
      BY <2>2 DEF AtAddress, OnePerAddress
    <3>7. IsWinner(ev, prev) => Wins(ev, stored, marks)
      BY <2>2, <3>3 DEF Wins, IsWinner, OnePerAddress
    <3> QED
      BY <2>0, <3>3, <3>5, <3>6, <3>7
  <2>3. ASSUME ev.addr # Nothing, \A x \in stored : x.addr # ev.addr
        PROVE  Judged(d, ev, del, stored, marks)
    <3>1. PICK c \in Addrs : c = ev.addr
      BY <2>3 DEF Addrs
    <3>2. AtAddress(stored, ev.addr) = {}
      BY <2>3 DEF AtAddress
    <3>3. CASE h[c] = Nothing /\ \A m \in ToSet(marks) : m.addr # c
      <4>1. d.action = "skip" \/ (d.action = "insert" /\ d.drop = {})
        BY <1>5, <2>3, <3>1, <3>3 DEF Decide, Skip
      <4>2. Wins(ev, stored, marks)
        BY <2>3, <3>1, <3>3 DEF Wins
      <4> QED
        BY <2>0, <3>2, <4>1, <4>2
    <3>4. ASSUME h[c] # Nothing, NEW m \in ToSet(marks), m.addr = c, h[c] = EvictedAs(m)
          PROVE  Judged(d, ev, del, stored, marks)
      <4>1. m \in AllMarks
        BY DEF ToSet
      <4>2. h[c].id = m.id /\ h[c].at = m.at /\ h[c].evicted = TRUE
        BY <3>4, <4>1, EvictedParts
      <4>3. d.action = "skip" \/ (/\ d.action = "insert" /\ d.drop = {}
                                  /\ h[c].id = ev.id \/ IsWinner(ev, h[c]))
        BY <1>5, <2>3, <3>1, <3>4, <4>2 DEF Decide, Skip
      <4>4. h[c].id = ev.id \/ IsWinner(ev, h[c]) => Wins(ev, stored, marks)
        BY <2>3, <3>1, <3>4, <4>2 DEF Wins, IsWinner, Distinct
      <4> QED
        BY <2>0, <3>2, <4>3, <4>4
    <3> QED
      BY <2>3, <3>1, <3>3, <3>4 DEF Holds
  <2> QED
    BY <2>1, <2>2, <2>3
<1> QED
  BY <1>2, <1>3, <1>4, <1>5

\* An index made of sound parts is sound.
LEMMA SoundIs ==
  ASSUME NEW stored \in SUBSET Events, NEW del \in Deletions, NEW marks \in Seq(AllMarks), NEW fifo \in Seq(Tombs),
         OnePerAddress(stored), Uncovered(stored, del), Distinct(marks),
         NEW u, u = Ix(stored, del, marks, fifo)
  PROVE  Sound(u) /\ u.stored = stored /\ u.marks = marks /\ u.del = del
<1>1. u.stored = stored /\ u.del = del /\ u.marks = marks /\ u.fifo = fifo
  BY IxParts
<1> QED
  BY <1>1, Zenon DEF Sound

\* Trimming keeps it so.
LEMMA TrimmedSound ==
  ASSUME NEW stored \in SUBSET Events, NEW del \in Deletions, NEW marks \in Seq(AllMarks), NEW fifo \in Seq(Tombs), NEW again,
         OnePerAddress(stored), Uncovered(stored, del), Distinct(marks),
         NEW u, u = Trimmed(Ix(stored, del, marks, fifo), again)
  PROVE  Sound(u) /\ u.stored = stored /\ u.marks = marks
<1>1. PICK d, f : u = Ix(stored, d, marks, f) /\ Weaker(d, del) /\ f \in Seq(Tombs)
  BY TrimmedIs
<1>2. d \in Deletions /\ Uncovered(stored, d)
  BY <1>1 DEF Weaker, Uncovered
<1> QED
  BY <1>1, <1>2, SoundIs

\* What a put does to the events and to the watermarks.
SkipDone(u, t) == u.stored = t.stored /\ u.marks = t.marks
InsertDone(u, t, ev) ==
  /\ ev.kind # "delete" /\ \A x \in t.stored : x.id # ev.id
  /\ u.stored = With(Sans(t.stored, AtAddress(t.stored, ev.addr)), ev)
  /\ ToSet(u.marks) = {m \in ToSet(t.marks) : m.addr # ev.addr}
  /\ Wins(ev, t.stored, t.marks)
EraseDone(u, t, ev) ==
  /\ ev.kind = "delete" /\ \A x \in t.stored : x.id # ev.id
  /\ \E gone : /\ u.stored = With(Sans(t.stored, gone), ev)
               /\ \A i \in gone : \E x \in Events : x.id = i /\ Deletes(ev, x)
  /\ ToSet(u.marks) \subseteq ToSet(t.marks)
  /\ \A m \in ToSet(t.marks) \ ToSet(u.marks) : \E x \in Events : m = MarkOf(x) /\ Names(ev, x)

\* The insertion of an event that wins its address.
LEMMA InsertIs ==
  ASSUME NEW t, Sound(t), NEW ev \in Events, Unknown(ev, t.del, t.stored), ~Covers(t.del, ev),
         NEW drop, drop = AtAddress(t.stored, ev.addr), NEW u, u = IndexInsert(IndexRemove(t, drop), ev)
  PROVE  /\ Sound(u) /\ u.stored = With(Sans(t.stored, drop), ev)
         /\ ToSet(u.marks) = {m \in ToSet(t.marks) : m.addr # ev.addr}
<1>1. PICK stored \in SUBSET Events, del \in Deletions, marks \in Seq(AllMarks), fifo \in Seq(Tombs) :
        /\ t = Ix(stored, del, marks, fifo) /\ t.stored = stored /\ t.del = del /\ t.marks = marks
        /\ OnePerAddress(stored) /\ Uncovered(stored, del) /\ Distinct(marks)
  BY Zenon DEF Sound
<1>0. PICK s1 : s1 = Sans(stored, drop)
  OBVIOUS
<1>2. PICK m1 : IndexRemove(t, drop) = Ix(s1, del, m1, fifo) /\ Cut(m1, marks, drop)
  BY <1>0, <1>1, IndexRemoveIs
<1>3. m1 \in Seq(AllMarks)
  BY <1>2 DEF Cut
<1>5. PICK s : s = With(s1, ev)
  OBVIOUS
<1>4. PICK m2 : u = Ix(s, del, m2, fifo) /\ Leaves(m2, m1, ev.addr)
  BY <1>2, <1>3, <1>5, IndexInsertIs
<1>6. OnePerAddress(s)
  BY <1>0, <1>1, <1>5 DEF With, OnePerAddress, Sans, AtAddress
<1>7. Uncovered(s, del)
  BY <1>0, <1>1, <1>5 DEF With, Uncovered, Sans
<1>8. m2 \in Seq(AllMarks) /\ Distinct(m2)
  BY <1>1, <1>2, <1>4 DEF Cut, Leaves
<1>9. ToSet(m2) = {m \in ToSet(marks) : m.addr # ev.addr}
  <2>1. \A m \in ToSet(marks) : m.id \in drop => m.addr = ev.addr
    <3> SUFFICES ASSUME NEW m \in ToSet(marks), NEW y \in stored, y.addr = ev.addr, m.id = y.id
                 PROVE  m.addr = ev.addr
      BY <1>1 DEF AtAddress
    <3>1. m \in AllMarks
      BY DEF ToSet
    <3>2. PICK x \in Events : x.id = m.id /\ x.addr = m.addr
      BY <3>1, EvictedParts
    <3> QED
      BY <3>2, EventsAssumption
  <2>2. /\ ToSet(m1) = {x \in ToSet(marks) : x.id \notin drop }
        /\ ToSet(m2) = {x \in ToSet(m1) : x.addr # ev.addr}
    BY <1>2, <1>4 DEF Cut, Leaves
  <2> QED
    BY ONLY <2>1, <2>2
<1>10. Sound(u) /\ u.stored = s /\ u.marks = m2
  <2>1. s \in SUBSET Events
    BY <1>0, <1>5 DEF With, Sans
  <2> QED
    BY ONLY <1>4, <1>6, <1>7, <1>8, <2>1, del \in Deletions, SoundIs
<1> QED
  BY <1>0, <1>1, <1>5, <1>9, <1>10

\* The tombstones a request leaves, with the ids more of its addresses.
Absorbed(dl, del, ev, plan, more) ==
  dl = [Absorb([del EXCEPT !.pending = Without(@, {ev.id})], plan) EXCEPT !.ids = @ \cup more]

\* A deletion request.
LEMMA EraseIs ==
  ASSUME NEW t, Sound(t), NEW ev \in Events, ev.kind = "delete", Unknown(ev, t.del, t.stored),
         NEW plan, plan = Plan(ev, t.stored), NEW more, Overdue(t.stored, plan.until) \subseteq more,
         \A i \in more : \E x \in Events : x.id = i /\ x.addr \in DOMAIN plan.until /\ x.at <= plan.until[x.addr],
         NEW dl, Absorbed(dl, t.del, ev, plan, more),
         NEW cut, cut = DropMarks(t, DOMAIN plan.pending, DOMAIN plan.until), NEW again,
         NEW u, u = Trimmed(IndexInsert(IndexRemove([cut EXCEPT !.del = dl], plan.remove \cup more), ev), again)
  PROVE  Sound(u) /\ EraseDone(u, t, ev)
<1>1. PICK stored \in SUBSET Events, del \in Deletions, marks \in Seq(AllMarks), fifo \in Seq(Tombs) :
        /\ t = Ix(stored, del, marks, fifo) /\ t.stored = stored /\ t.del = del /\ t.marks = marks
        /\ OnePerAddress(stored) /\ Uncovered(stored, del) /\ Distinct(marks)
  BY Zenon DEF Sound
<1>2. PICK gone : gone = plan.remove \cup more
  OBVIOUS
<1>3. plan \in Plans /\ more \in SUBSET Ids /\ {ev.id} \in SUBSET RequestIds
  <2>1. plan \in Plans
    BY <1>1, PlanIs
  <2>2. more \in SUBSET Ids
    BY DEF Ids
  <2> QED
    BY <2>1, <2>2 DEF RequestIds
<1>4. After(dl, del, plan, gone)
  BY <1>1, <1>2, <1>3, AbsorbIs DEF Absorbed
<1>5. /\ DOMAIN plan.until = {c \in ev.a : c[1] = ev.by} /\ DOMAIN plan.pending \subseteq ev.e
      /\ \A c \in DOMAIN plan.until : plan.until[c] = ev.at
      /\ plan.remove \subseteq ev.e
      /\ \A i \in plan.remove : \E x \in stored : x.id = i /\ x.kind # "delete" /\ x.by = ev.by
  BY <1>1, PlanIs
<1>6. \A i \in gone : \E x \in Events : x.id = i /\ Deletes(ev, x) /\ x # ev
  <2>1. ASSUME NEW i \in plan.remove PROVE \E x \in Events : x.id = i /\ Deletes(ev, x) /\ x # ev
    BY <1>5, <2>1 DEF Deletes, Names
  <2>2. ASSUME NEW i \in more PROVE \E x \in Events : x.id = i /\ Deletes(ev, x) /\ x # ev
    <3>1. PICK x \in Events : x.id = i /\ x.addr \in DOMAIN plan.until /\ x.at <= plan.until[x.addr]
      OBVIOUS
    <3>2. x.addr \in ev.a /\ x.addr # Nothing /\ x.addr[1] = ev.by /\ x.at <= ev.at
      BY <1>5, <3>1, EventsAssumption
    <3>3. ev.addr = Nothing /\ x.by = ev.by
      BY <3>2, EventsAssumption
    <3> QED
      BY <3>1, <3>2, <3>3 DEF Deletes, Names
  <2> QED
    BY <1>2, <2>1, <2>2
<1>7. PICK m1 : cut = Ix(stored, del, m1, fifo) /\ Drops(m1, marks, DOMAIN plan.pending, DOMAIN plan.until)
  BY <1>1, DropMarksIs
<1>8. m1 \in Seq(AllMarks)
  BY <1>7 DEF Drops
<1>9. PICK v : v = [cut EXCEPT !.del = dl] /\ v = Ix(stored, dl, m1, fifo)
  BY <1>7, IxParts
<1>10. PICK s1 : s1 = Sans(stored, gone)
  OBVIOUS
<1>11. PICK m2 : IndexRemove(v, gone) = Ix(s1, dl, m2, fifo) /\ Cut(m2, m1, gone)
  <2>1. v = Ix(stored, dl, m1, fifo)
    BY <1>9
  <2>2. \E m2 : IndexRemove(Ix(stored, dl, m1, fifo), gone) = Ix(Sans(stored, gone), dl, m2, fifo) /\ Cut(m2, m1, gone)
    BY ONLY <1>8, IndexRemoveIs
  <2> QED
    BY ONLY <1>10, <2>1, <2>2
<1>12. m2 \in Seq(AllMarks)
  BY <1>11 DEF Cut
<1>13. PICK s : s = With(s1, ev)
  OBVIOUS
<1>14. PICK m3 : /\ IndexInsert(IndexRemove(v, gone), ev) = Ix(s, dl, m3, fifo)
                 /\ Leaves(m3, m2, ev.addr)
  <2>1. \E m3 : /\ IndexInsert(Ix(s1, dl, m2, fifo), ev) = Ix(With(s1, ev), dl, m3, fifo)
                /\ Leaves(m3, m2, ev.addr)
    BY ONLY <1>12, IndexInsertIs
  <2> QED
    BY ONLY <1>11, <1>13, <2>1
<1>15. u = Trimmed(Ix(s, dl, m3, fifo), again)
  BY <1>2, <1>9, <1>14
<1>16. s \in SUBSET Events
  BY <1>10, <1>13 DEF With, Sans
<1>17. ev.addr = Nothing
  BY EventsAssumption
<1>18. OnePerAddress(s)
  BY <1>1, <1>10, <1>13, <1>17 DEF OnePerAddress, With, Sans
<1>19. dl \in Deletions
  BY <1>4 DEF After
<1>20. Uncovered(s, dl)
  <2>1. ASSUME NEW x \in s1 PROVE ~Covers(dl, x)
    <3>1. x \in stored /\ x.id \notin gone /\ ~Covers(del, x)
      BY <1>1, <1>10, <2>1 DEF Sans, Uncovered
    <3>2. Erased(ev, stored) \subseteq gone
      BY <1>1, <1>2 DEF Erased
    <3> QED
      BY <1>1, <1>4, <3>1, <3>2, DeletionCovers
  <2>2. ~Covers(dl, ev)
    <3>1. ev.id \notin gone
      BY <1>6, EventsAssumption
    <3>2. ev.id \notin dl.ids
      BY <1>1, <1>4, <3>1 DEF After, Unknown
    <3> QED
      BY <3>2 DEF Covers
  <2> QED
    BY <1>13, <2>1, <2>2 DEF Uncovered, With
<1>21. m3 \in Seq(AllMarks) /\ Distinct(m3)
  BY <1>1, <1>7, <1>11, <1>14 DEF Drops, Cut, Leaves
<1>22. Sound(u) /\ u.stored = s /\ u.marks = m3
  BY <1>15, <1>16, <1>18, <1>19, <1>20, <1>21, TrimmedSound
<1>23. /\ ToSet(m3) \subseteq ToSet(marks)
       /\ \A m \in ToSet(marks) \ ToSet(m3) : \E x \in Events : m = MarkOf(x) /\ Names(ev, x)
  <2>1. /\ ToSet(m1) = {x \in ToSet(marks) : x.id \notin DOMAIN plan.pending /\ x.addr \notin DOMAIN plan.until}
        /\ ToSet(m2) = {x \in ToSet(m1) : x.id \notin gone }
        /\ ToSet(m3) = {x \in ToSet(m2) : x.addr # ev.addr}
    BY <1>7, <1>11, <1>14 DEF Drops, Cut, Leaves
  <2>2. ToSet(m3) \subseteq ToSet(marks)
    BY <2>1
  <2>3. ASSUME NEW m \in ToSet(marks), m \notin ToSet(m3) PROVE \E x \in Events : m = MarkOf(x) /\ Names(ev, x)
    <3>1. m \in AllMarks
      BY DEF ToSet
    <3>2. PICK x \in Events : x.addr # Nothing /\ m = MarkOf(x) /\ x.id = m.id /\ x.addr = m.addr
      BY <3>1, EvictedParts
    <3>3. m.id \in DOMAIN plan.pending \/ m.addr \in DOMAIN plan.until \/ m.id \in gone
      BY <1>17, <2>1, <2>3, <3>2
    <3>4. CASE m.id \in DOMAIN plan.pending \/ m.addr \in DOMAIN plan.until
      BY <1>5, <3>2, <3>4 DEF Names
    <3>5. CASE m.id \in gone
      <4>1. PICK y \in Events : y.id = m.id /\ Deletes(ev, y)
        BY <1>6, <3>5
      <4>2. x = y
        BY <3>2, <4>1, EventsAssumption
      <4> QED
        BY <3>2, <4>1, <4>2 DEF Deletes
    <3> QED
      BY <3>3, <3>4, <3>5
  <2> QED
    BY <2>2, <2>3
<1>24. \A x \in stored : x.id # ev.id
  BY <1>1 DEF Unknown
<1> QED
  BY <1>1, <1>6, <1>10, <1>13, <1>22, <1>23, <1>24, ZenonT(30) DEF EraseDone

\* put(), of an event.
LEMMA PutIs ==
  ASSUME NEW t, Sound(t), NEW ev \in Events, NEW u, u = Put(t, ev)
  PROVE  Sound(u) /\ (SkipDone(u, t) \/ InsertDone(u, t, ev) \/ EraseDone(u, t, ev))
<1>1. PICK stored \in SUBSET Events, del \in Deletions, marks \in Seq(AllMarks), fifo \in Seq(Tombs) :
        /\ t = Ix(stored, del, marks, fifo) /\ t.stored = stored /\ t.del = del /\ t.marks = marks
        /\ OnePerAddress(stored) /\ Uncovered(stored, del) /\ Distinct(marks)
  BY Zenon DEF Sound
<1>2. PICK h : h = Holder(t) /\ Holds(h, stored, marks)
  BY <1>1, HolderIs
<1>3. PICK d : d = Decide(ev, t.del, t.stored, h)
  OBVIOUS
<1>4. Judged(d, ev, del, stored, marks)
  BY <1>1, <1>2, <1>3, JudgedIs
<1>5. CASE d.action = "skip"
  <2>1. u = Trimmed(t, {})
    BY <1>2, <1>3, <1>5 DEF Put
  <2> QED
    BY <1>1, <2>1, TrimmedSound DEF SkipDone
<1>6. CASE d.action = "tombstone"
  <2>1. u = Trimmed([t EXCEPT !.del = Tombstone(@, {ev.id})], {})
    BY <1>2, <1>3, <1>6 DEF Put
  <2>2. PICK ids : ids = {ev.id}
    OBVIOUS
  <2>7. ids \in SUBSET Ids
    BY <2>2 DEF Ids
  <2>8. PICK dl : dl = Tombstone(del, ids)
    OBVIOUS
  <2>3. [t EXCEPT !.del = Tombstone(@, {ev.id})] = Ix(stored, dl, marks, fifo)
    <3>1. [t EXCEPT !.del = Tombstone(@, {ev.id})] = [t EXCEPT !.del = dl]
      BY <1>1, <2>2, <2>8
    <3>2. [Ix(stored, del, marks, fifo) EXCEPT !.del = dl] = Ix(stored, dl, marks, fifo)
      BY ONLY IxParts
    <3> QED
      BY ONLY <1>1, <3>1, <3>2
  <2>4. u = Trimmed(Ix(stored, dl, marks, fifo), {})
    BY <2>1, <2>3
  <2>5. dl \in Deletions
    BY <2>7, <2>8, TombstoneIs
  <2>6. Uncovered(stored, dl)
    <3>1. \A x \in stored : x.id \notin ids
      BY <1>4, <1>6, <2>2 DEF Judged, Unknown
    <3>2. \A x \in stored : ~Covers(del, x)
      BY <1>1 DEF Uncovered
    <3> QED
      BY <2>7, <2>8, <3>1, <3>2, TombstoneCovers DEF Uncovered
  <2> QED
    BY <1>1, <2>4, <2>5, <2>6, TrimmedSound DEF SkipDone
<1>7. CASE d.action = "delete"
  <2>1. PICK plan, more : plan = d.plan /\ more = d.coords
    OBVIOUS
  <2>2. /\ ev.kind = "delete" /\ Unknown(ev, del, stored) /\ plan = Plan(ev, stored)
        /\ Overdue(stored, plan.until) \subseteq more
        /\ \A i \in more : \E x \in Events : x.id = i /\ x.addr \in DOMAIN plan.until /\ x.at <= plan.until[x.addr]
    BY <1>4, <1>7, <2>1 DEF Judged
  <2>3. PICK dl : Absorbed(dl, del, ev, plan, more)
    BY DEF Absorbed
  <2>4. PICK cut : cut = DropMarks(t, DOMAIN plan.pending, DOMAIN plan.until)
    OBVIOUS
  <2>5. PICK again : u = Trimmed(IndexInsert(IndexRemove([cut EXCEPT !.del = dl], plan.remove \cup more), ev), again)
    BY <1>1, <1>2, <1>3, <1>7, <2>1, <2>3, <2>4, ZenonT(30) DEF Put, Absorbed
  <2>6. Unknown(ev, t.del, t.stored) /\ plan = Plan(ev, t.stored) /\ Overdue(t.stored, plan.until) \subseteq more
        /\ Absorbed(dl, t.del, ev, plan, more)
    BY <1>1, <2>2, <2>3
  <2>7. Sound(u) /\ EraseDone(u, t, ev)
    BY <2>2, <2>4, <2>5, <2>6, EraseIs, Zenon
  <2> QED
    BY <2>7
<1>8. CASE d.action = "insert"
  <2>1. PICK drop : drop = AtAddress(t.stored, ev.addr)
    OBVIOUS
  <2>2. /\ ev.kind # "delete" /\ Unknown(ev, t.del, t.stored) /\ ~Covers(t.del, ev)
        /\ d.drop = drop /\ Wins(ev, t.stored, t.marks)
    BY <1>1, <1>4, <1>8, <2>1 DEF Judged
  <2>3. u = IndexInsert(IndexRemove(t, drop), ev)
    BY <1>2, <1>3, <1>8, <2>2 DEF Put
  <2>4. /\ Sound(u) /\ u.stored = With(Sans(t.stored, drop), ev)
        /\ ToSet(u.marks) = {m \in ToSet(t.marks) : m.addr # ev.addr}
    BY <2>1, <2>2, <2>3, InsertIs
  <2> QED
    BY <2>1, <2>2, <2>4 DEF InsertDone, Unknown
<1> QED
  BY <1>4, <1>5, <1>6, <1>7, <1>8 DEF Judged

\* remove(): the events and watermarks of the ids go.
LEMMA RemoveIdsIs ==
  ASSUME NEW t, Sound(t), NEW ids, ids \in SUBSET Ids, NEW u, u = RemoveIds(t, ids)
  PROVE  /\ Sound(u) /\ u.stored = Sans(t.stored, ids)
         /\ ToSet(u.marks) = {m \in ToSet(t.marks) : m.id \notin ids}
<1>1. PICK stored \in SUBSET Events, del \in Deletions, marks \in Seq(AllMarks), fifo \in Seq(Tombs) :
        /\ t = Ix(stored, del, marks, fifo) /\ t.stored = stored /\ t.del = del /\ t.marks = marks
        /\ OnePerAddress(stored) /\ Uncovered(stored, del) /\ Distinct(marks)
  BY Zenon DEF Sound
<1>2. PICK s : s = Sans(stored, ids)
  OBVIOUS
<1>3. PICK m : IndexRemove(t, ids) = Ix(s, del, m, fifo) /\ Cut(m, marks, ids)
  <2>1. \E m : /\ IndexRemove(Ix(stored, del, marks, fifo), ids) = Ix(Sans(stored, ids), del, m, fifo)
               /\ Cut(m, marks, ids)
    BY ONLY marks \in Seq(AllMarks), IndexRemoveIs
  <2> QED
    BY <1>1, <1>2, <2>1
<1>4. PICK dl : dl = Tombstone(del, ids)
  OBVIOUS
<1>5. u = Trimmed(Ix(s, dl, m, fifo), {})
  <2>1. PICK v : v = IndexRemove(t, ids)
    OBVIOUS
  <2>2. u = Trimmed([v EXCEPT !.del = Tombstone(@, ids)], {})
    BY <2>1 DEF RemoveIds
  <2>3. v = Ix(s, del, m, fifo) /\ v.del = del
    BY <1>3, <2>1, IxParts
  <2>4. [v EXCEPT !.del = Tombstone(@, ids)] = [v EXCEPT !.del = dl]
    BY <1>4, <2>3
  <2>5. [Ix(s, del, m, fifo) EXCEPT !.del = dl] = Ix(s, dl, m, fifo)
    BY ONLY IxParts
  <2> QED
    BY ONLY <2>2, <2>3, <2>4, <2>5
<1>6. dl \in Deletions
  BY <1>4, TombstoneIs
<1>7. s \in SUBSET Events /\ OnePerAddress(s)
  BY <1>1, <1>2 DEF OnePerAddress, Sans
<1>8. Uncovered(s, dl)
  <2>1. ASSUME NEW x \in s PROVE ~Covers(dl, x)
    <3>1. x \in Events /\ x.id \notin ids /\ ~Covers(del, x)
      BY <1>1, <1>2, <2>1 DEF Sans, Uncovered
    <3> QED
      BY <1>4, <3>1, TombstoneCovers
  <2> QED
    BY <2>1 DEF Uncovered
<1>9. m \in Seq(AllMarks) /\ Distinct(m) /\ ToSet(m) = {x \in ToSet(marks) : x.id \notin ids}
  BY <1>1, <1>3 DEF Cut
<1>10. Sound(u) /\ u.stored = s /\ u.marks = m
  BY <1>5, <1>6, <1>7, <1>8, <1>9, TrimmedSound
<1> QED
  BY <1>1, <1>2, <1>9, <1>10

\* The larger of two integers.
LEMMA LargerIs ==
  ASSUME NEW x \in Int, NEW y \in Int
  PROVE  Max({x, y}) = IF x >= y THEN x ELSE y
<1> DEFINE z == IF x >= y THEN x ELSE y
<1>1. z \in {x, y} /\ \A w \in {x, y} : z >= w
  OBVIOUS
<1>2. \A w \in {x, y} : (\A v \in {x, y} : w >= v) => w = z
  OBVIOUS
<1> HIDE DEF z
<1>3. Max({x, y}) = z
  BY <1>1, <1>2, Zenon DEF Max
<1> QED
  BY <1>3 DEF z

\* The last watermarks of a sequence.
LEMMA LastIs ==
  ASSUME NEW all \in Seq(AllMarks), NEW u, u = SubSeq(all, Max({1, Len(all) - MaxWatermarks + 1}), Len(all))
  PROVE  /\ u \in Seq(AllMarks) /\ ToSet(u) \subseteq ToSet(all) /\ (Distinct(all) => Distinct(u))
         /\ Len(all) <= MaxWatermarks => ToSet(u) = ToSet(all)
<1>0. MaxWatermarks \in Nat /\ Len(all) \in Nat
  BY ReactiveAssumption
<1>1. PICK from \in Int : /\ from = Max({1, Len(all) - MaxWatermarks + 1}) /\ from >= 1
                          /\ Len(all) <= MaxWatermarks => from = 1
  <2>1. Max({1, Len(all) - MaxWatermarks + 1}) = IF 1 >= Len(all) - MaxWatermarks + 1 THEN 1
                                                 ELSE Len(all) - MaxWatermarks + 1
    BY <1>0, LargerIs
  <2> QED
    BY <1>0, <2>1
<1>2. PICK n \in Nat : n = Len(all)
  BY <1>0
<1>3. \A i \in from..n : all[i] \in AllMarks
  BY <1>1, <1>2
<1>4. u = SubSeq(all, from, n)
  BY <1>1, <1>2
<1>5. /\ u \in Seq(AllMarks) /\ Len(u) = IF from <= n THEN n - from + 1 ELSE 0
      /\ \A i \in 1..(n - from + 1) : u[i] = all[from + i - 1]
  BY ONLY <1>3, <1>4, from \in Int, n \in Nat, SubSeqProperties
<1>6. \A i \in DOMAIN u : /\ i \in 1..(n - from + 1) /\ from + i - 1 \in DOMAIN all /\ u[i] = all[from + i - 1]
  BY <1>1, <1>2, <1>5
<1>7. ToSet(u) \subseteq ToSet(all)
  BY <1>6 DEF ToSet
<1>8. IsInjective(all) => IsInjective(u)
  <2> SUFFICES ASSUME IsInjective(all), NEW i \in DOMAIN u, NEW j \in DOMAIN u, u[i] = u[j] PROVE i = j
    BY DEF IsInjective
  <2>1. from + i - 1 = from + j - 1
    BY <1>6 DEF IsInjective
  <2> QED
    BY <1>6, <2>1
<1>9. ASSUME Len(all) <= MaxWatermarks PROVE ToSet(all) \subseteq ToSet(u)
  <2>1. \A i \in DOMAIN all : i \in DOMAIN u /\ u[i] = all[i]
    BY <1>1, <1>2, <1>5, <1>9
  <2> QED
    BY <2>1 DEF ToSet
<1> QED
  BY <1>5, <1>7, <1>8, <1>9 DEF Distinct

\* The addresses that events have.
Addressed == {ev.addr : ev \in {x \in Events : x.addr # Nothing}}
\* There are no more watermarks than those.
LEMMA MarksFit ==
  ASSUME NEW marks \in Seq(AllMarks), Distinct(marks)
  PROVE  /\ Len(marks) <= Cardinality(Addressed) /\ Cardinality(Addressed) \in Nat
         /\ \A ev \in Events : ev.addr # Nothing => Cardinality(Addressed) # 0
<1>1. IsFiniteSet(Addressed)
  <2>1. PICK E : E = {x \in Events : x.addr # Nothing}
    OBVIOUS
  <2>2. IsFiniteSet(E)
    BY <2>1, FS_Subset, EventsAssumption
  <2>3. Addressed = {ev.addr : ev \in E}
    BY <2>1 DEF Addressed
  <2>4. PICK f : f = [ev \in E |-> ev.addr]
    OBVIOUS
  <2>5. f \in Surjection(E, Addressed)
    BY <2>3, <2>4 DEF Surjection
  <2> QED
    BY ONLY <2>2, <2>5, FS_Surjection
<1>2. PICK n \in Nat : n = Len(marks) /\ DOMAIN marks = 1..n
  OBVIOUS
<1>3. PICK D : D = 1..n
  OBVIOUS
<1>4. IsFiniteSet(D) /\ Cardinality(D) = n
  BY <1>3, FS_Interval
<1>5. PICK f : f = [i \in D |-> marks[i].addr]
  OBVIOUS
<1>6. f \in [D -> Addressed]
  <2>1. \A i \in D : marks[i] \in AllMarks
    BY <1>2, <1>3
  <2>2. \A m \in AllMarks : m.addr \in Addressed
    BY MarkParts DEF AllMarks, Addressed
  <2> QED
    BY <1>5, <2>1, <2>2
<1>7. \A i, j \in D : f[i] = f[j] => i = j
  <2> SUFFICES ASSUME NEW i \in D, NEW j \in D, f[i] = f[j] PROVE i = j
    OBVIOUS
  <2>1. marks[i].addr = marks[j].addr /\ marks[i] \in ToSet(marks) /\ marks[j] \in ToSet(marks)
    BY <1>2, <1>3, <1>5 DEF ToSet
  <2>2. marks[i] = marks[j]
    BY <2>1 DEF Distinct
  <2> QED
    BY <1>2, <1>3, <2>2 DEF Distinct, IsInjective
<1>8. f \in Injection(D, Addressed)
  BY <1>6, <1>7 DEF Injection, IsInjective
<1>9. Len(marks) <= Cardinality(Addressed) /\ Cardinality(Addressed) \in Nat
  BY <1>1, <1>2, <1>4, <1>8, FS_Injection, FS_CardinalityType
<1>10. \A ev \in Events : ev.addr # Nothing => Addressed # {}
  BY DEF Addressed
<1> QED
  BY <1>1, <1>9, <1>10, FS_EmptySet

\* A watermark after all others.
LEMMA AppendMark ==
  ASSUME NEW marks \in Seq(AllMarks), Distinct(marks), NEW k \in AllMarks, \A m \in ToSet(marks) : m.addr # k.addr,
         NEW all, all = Append(marks, k)
  PROVE  all \in Seq(AllMarks) /\ Distinct(all) /\ ToSet(all) = ToSet(marks) \cup {k}
<1>1. /\ all \in Seq(AllMarks) /\ DOMAIN all = 1..(Len(marks) + 1) /\ all[Len(marks) + 1] = k
      /\ \A i \in 1..Len(marks) : all[i] = marks[i] /\ marks[i] \in ToSet(marks)
  BY DEF ToSet
<1>2. ToSet(all) = ToSet(marks) \cup {k}
  BY <1>1 DEF ToSet
<1>3. IsInjective(all)
  <2> SUFFICES ASSUME NEW i \in DOMAIN all, NEW j \in DOMAIN all, all[i] = all[j], i # j PROVE FALSE
    BY DEF IsInjective
  <2>1. i \in 1..Len(marks) /\ j \in 1..Len(marks)
    BY <1>1
  <2> QED
    BY <1>1, <2>1 DEF Distinct, IsInjective
<1> QED
  BY <1>1, <1>2, <1>3 DEF Distinct

\* There are as many ids as events.
LEMMA IdsFinite ==
  ASSUME NEW evs \in SUBSET Events
  PROVE  IsFiniteSet(evs) /\ IsFiniteSet(IdsOf(evs)) /\ Cardinality(IdsOf(evs)) = Cardinality(evs)
<1>1. IsFiniteSet(evs)
  BY FS_Subset, EventsAssumption
<1>2. PICK f : f = [ev \in evs |-> ev.id]
  OBVIOUS
<1>3. f \in Surjection(evs, IdsOf(evs))
  BY <1>2 DEF Surjection, IdsOf
<1>4. \A x, y \in evs : f[x] = f[y] => x = y
  BY <1>2, EventsAssumption
<1>5. f \in Injection(evs, IdsOf(evs))
  BY <1>2, <1>3, <1>4 DEF Surjection, Injection, IsInjective
<1> QED
  BY <1>1, <1>3, <1>5, FS_Surjection

\* evict() of one id: a winner leaves a watermark.
EvictDone(u, t, id) ==
  /\ u.stored = Sans(t.stored, {id})
  /\ Cardinality(Addressed) <= MaxWatermarks =>
       /\ \A x \in t.stored : x.id = id /\ x.addr # Nothing => MarkOf(x) \in ToSet(u.marks)
       /\ \A m \in ToSet(t.marks) : (\A x \in t.stored : x.addr # m.addr) => m \in ToSet(u.marks)

\* One id.
LEMMA EvictOneIs ==
  ASSUME NEW t, Sound(t), NEW id, NEW u, u = EvictOne(t, id)
  PROVE  Sound(u) /\ EvictDone(u, t, id)
<1>1. PICK stored \in SUBSET Events, del \in Deletions, marks \in Seq(AllMarks), fifo \in Seq(Tombs) :
        /\ t = Ix(stored, del, marks, fifo) /\ t.stored = stored /\ t.del = del /\ t.marks = marks
        /\ OnePerAddress(stored) /\ Uncovered(stored, del) /\ Distinct(marks)
  BY Zenon DEF Sound
<1>2. CASE \A x \in stored : x.id # id
  <2>1. ById(stored, id) = Nothing
    BY <1>2, ByIdIs
  <2>2. u = t
    BY <1>1, <2>1 DEF EvictOne
  <2>3. Sans(stored, {id}) = stored
    BY <1>2 DEF Sans
  <2> QED
    BY <1>1, <1>2, <2>2, <2>3 DEF EvictDone
<1>3. ASSUME NEW ev \in stored, ev.id = id
      PROVE  Sound(u) /\ EvictDone(u, t, id)
  <2>1. ById(stored, id) = ev /\ ev # Nothing /\ ev \in Events
    BY <1>3, ByIdIs, EventsAssumption
  <2>2. PICK s, ids : s = Sans(stored, ids) /\ ids = {id}
    OBVIOUS
  <2>3. PICK m : IndexRemove(t, ids) = Ix(s, del, m, fifo) /\ Cut(m, marks, ids)
    <3>1. \E m : /\ IndexRemove(Ix(stored, del, marks, fifo), ids) = Ix(Sans(stored, ids), del, m, fifo)
                 /\ Cut(m, marks, ids)
      BY ONLY marks \in Seq(AllMarks), IndexRemoveIs
    <3> QED
      BY <1>1, <2>2, <3>1
  <2>4. PICK out : out = IndexRemove(t, ids)
    OBVIOUS
  <2>5. m \in Seq(AllMarks) /\ Distinct(m) /\ ToSet(m) = {x \in ToSet(marks) : x.id # id}
    BY <1>1, <2>2, <2>3 DEF Cut
  <2>6. s \in SUBSET Events /\ OnePerAddress(s) /\ Uncovered(s, del)
    BY <1>1, <2>2 DEF OnePerAddress, Sans, Uncovered
  <2>7. \A x \in stored : x.id = id => x = ev
    BY <1>3, EventsAssumption
  <2>8. \A x \in ToSet(marks) : x.id = id => x.addr = ev.addr
    <3>1. ToSet(marks) \subseteq AllMarks
      BY DEF ToSet
    <3>2. ASSUME NEW x \in AllMarks, x.id = id PROVE x.addr = ev.addr
      <4>1. PICK y \in Events : y.id = x.id /\ y.addr = x.addr
        BY EvictedParts
      <4> QED
        BY <1>3, <2>1, <3>2, <4>1, EventsAssumption
    <3> QED
      BY <3>1, <3>2
  <2>9. CASE ev.addr = Nothing \/ MaxWatermarks = 0
    <3>1. u = out
      BY <1>1, <2>1, <2>2, <2>4, <2>9 DEF EvictOne
    <3>2. Sound(u) /\ u.stored = s /\ u.marks = m
      BY <2>3, <2>4, <2>5, <2>6, <3>1, SoundIs
    <3>3. ASSUME Cardinality(Addressed) <= MaxWatermarks
          PROVE  /\ \A x \in stored : x.id = id /\ x.addr # Nothing => MarkOf(x) \in ToSet(m)
                 /\ \A y \in ToSet(marks) : (\A x \in stored : x.addr # y.addr) => y \in ToSet(m)
      <4>1. ev.addr = Nothing
        <5>1. CASE MaxWatermarks = 0
          <6>1. Cardinality(Addressed) \in Nat /\ (ev.addr # Nothing => Cardinality(Addressed) # 0)
            BY <1>1, <2>1, MarksFit
          <6> QED
            BY <3>3, <5>1, <6>1
        <5> QED
          BY <2>9, <5>1
      <4> QED
        BY <1>3, <2>5, <2>7, <2>8, <4>1
    <3> QED
      BY <1>1, <2>2, <3>2, <3>3 DEF EvictDone
  <2>10. CASE ev.addr # Nothing /\ MaxWatermarks # 0
    <3>1. PICK none, addrs : none = {} /\ addrs = {ev.addr}
      OBVIOUS
    <3>12. PICK m2 : DropMarks(Ix(s, del, m, fifo), none, addrs) = Ix(s, del, m2, fifo) /\ Drops(m2, m, none, addrs)
      <4>1. m \in Seq(AllMarks)
        BY <2>5
      <4> QED
        BY ONLY <4>1, DropMarksIs, SMTT(30)
    <3>2. PICK all : all = Append(m2, MarkOf(ev))
      OBVIOUS
    <3>3. PICK last : last = SubSeq(all, Max({1, Len(all) - MaxWatermarks + 1}), Len(all))
      OBVIOUS
    <3>4. out = Ix(s, del, m, fifo)
      BY <2>3, <2>4
    <3>5. all = Append(DropMarks(out, {}, {ev.addr}).marks, [addr |-> ev.addr, id |-> id, at |-> ev.at])
      <4>1. PICK v : v = DropMarks(out, none, addrs) /\ v.marks = m2
        BY <3>4, <3>12, IxParts
      <4> QED
        BY <1>3, <3>1, <3>2, <4>1 DEF MarkOf
    <3>6. u = [out EXCEPT !.marks = last]
      BY <1>1, <2>1, <2>2, <2>4, <2>10, <3>3, <3>5 DEF EvictOne
    <3>7. u = Ix(s, del, last, fifo)
      BY ONLY <3>4, <3>6, IxParts
    <3>8. /\ all \in Seq(AllMarks) /\ Distinct(all)
          /\ ToSet(all) = {x \in ToSet(m) : x.addr # ev.addr} \cup {MarkOf(ev)}
      <4>1. MarkOf(ev) \in AllMarks /\ MarkOf(ev).addr = ev.addr
        BY <2>1, <2>10, MarkParts
      <4>2. m2 \in Seq(AllMarks) /\ Distinct(m2) /\ ToSet(m2) = {x \in ToSet(m) : x.addr # ev.addr}
        BY <2>5, <3>1, <3>12 DEF Drops
      <4>3. all \in Seq(AllMarks) /\ Distinct(all) /\ ToSet(all) = ToSet(m2) \cup {MarkOf(ev)}
        BY <3>2, <4>1, <4>2, AppendMark
      <4> QED
        BY <4>2, <4>3
    <3>9. /\ last \in Seq(AllMarks) /\ Distinct(last)
          /\ Len(all) <= MaxWatermarks => ToSet(last) = ToSet(all)
      BY <3>3, <3>8, LastIs
    <3>10. Sound(u) /\ u.stored = s /\ u.marks = last
      BY <2>6, <3>7, <3>9, SoundIs
    <3>11. ASSUME Cardinality(Addressed) <= MaxWatermarks
           PROVE  /\ \A x \in stored : x.id = id /\ x.addr # Nothing => MarkOf(x) \in ToSet(last)
                  /\ \A y \in ToSet(marks) : (\A x \in stored : x.addr # y.addr) => y \in ToSet(last)
      <4>1. Len(all) <= Cardinality(Addressed) /\ Cardinality(Addressed) \in Nat /\ Len(all) \in Nat
        BY <3>8, MarksFit
      <4>2. ToSet(last) = ToSet(all)
        BY <3>9, <3>11, <4>1, ReactiveAssumption
      <4> QED
        BY <1>3, <2>5, <2>7, <2>8, <3>8, <4>2
    <3> QED
      BY <1>1, <2>2, <3>10, <3>11 DEF EvictDone
  <2> QED
    BY <2>9, <2>10
<1> QED
  BY <1>2, <1>3

\* The sound indexes, as a set.
SoundIndexes ==
  {t \in {Ix(s, d, m, f) : s \in SUBSET Events, d \in Deletions, m \in Seq(AllMarks), f \in Seq(Tombs)} : Sound(t)}
\* An index is sound when it is a member.
LEMMA SoundOnes ==
  ASSUME NEW t
  PROVE  Sound(t) <=> t \in SoundIndexes
<1>1. SUFFICES ASSUME Sound(t) PROVE t \in SoundIndexes
  BY DEF SoundIndexes
<1>2. \E s \in SUBSET Events, d \in Deletions, m \in Seq(AllMarks), f \in Seq(Tombs) : t = Ix(s, d, m, f)
  BY <1>1, Zenon DEF Sound
<1> QED
  BY <1>1, <1>2 DEF SoundIndexes

\* Evict() goes through the indexes acc.
EvictRun(acc, t, ids) ==
  /\ acc[0] = t
  /\ \A k \in 1..Len(ids) : acc[k] = EvictOne(acc[k - 1], ids[k])
  /\ \A k \in 0..Len(ids) : acc[k] \in SoundIndexes
  /\ Evict(t, ids) = acc[Len(ids)]

\* The steps of an eviction.
LEMMA EvictRuns ==
  ASSUME NEW t, t \in SoundIndexes, NEW T, NEW ids \in Seq(T)
  PROVE  \E acc : EvictRun(acc, t, ids)
<1> DEFINE n == Len(ids)
           D == 1..n
           V == SoundIndexes
           step == [p \in V \X D |-> EvictOne(p[1], ids[p[2]])]
           pick == [s \in SUBSET D |-> Max(s)]
           iter == CHOOSE f : f = [s \in SUBSET D |-> IF s = {} THEN t
                                                      ELSE EvictOne(f[s \ {Max(s)}], ids[Max(s)])]
           acc == [k \in 0..n |-> iter[1..k]]
<1>1. n \in Nat /\ IsFiniteSet(D) /\ DOMAIN ids = D
  BY FS_Interval
<1>2. \A s \in SUBSET D : s # {} => pick[s] \in s /\ Max(s) \in s
  BY <1>1, MaxOfPrefix
<1>3. \A v \in V : \A i : EvictOne(v, i) \in V
  BY EvictOneIs, SoundOnes
<1>4. step \in [V \X D -> V]
  <2> HIDE DEF D, V
  <2> QED
    BY <1>3
<1>5. PICK f \in [SUBSET D -> V] : Folds(f, D, t, step, pick)
  <2> HIDE DEF D, step, pick
  <2> QED
    BY <1>1, <1>2, <1>4, FoldExists
<1>6. f = [s \in SUBSET D |-> IF s = {} THEN t ELSE EvictOne(f[s \ {Max(s)}], ids[Max(s)])]
  <2>1. ASSUME NEW s \in SUBSET D, s # {} PROVE f[s] = EvictOne(f[s \ {Max(s)}], ids[Max(s)])
    <3>1. s \ {Max(s)} \in SUBSET D /\ Max(s) \in D /\ pick[s] = Max(s)
      BY <1>2, <2>1
    <3>2. f[s \ {Max(s)}] \in V
      BY <1>5, <3>1
    <3>3. f[s] = step[<<f[s \ {Max(s)}], Max(s)>>]
      BY <1>5, <2>1, <3>1 DEF Folds
    <3> HIDE DEF D, V
    <3> QED
      BY <3>1, <3>2, <3>3
  <2>2. f[{}] = t
    BY <1>5 DEF Folds
  <2>3. f = [s \in SUBSET D |-> f[s]]
    BY <1>5
  <2> HIDE DEF D, V
  <2> QED
    BY <2>1, <2>2, <2>3
<1>7. iter = [s \in SUBSET D |-> IF s = {} THEN t ELSE EvictOne(iter[s \ {Max(s)}], ids[Max(s)])]
  BY <1>6
<1>8. Evict(t, ids) = iter[D]
  BY <1>1 DEF Evict, FoldLeft, MapThenFoldSet
<1> HIDE DEF iter
<1>9. acc[0] = t
  <2>1. 1..0 = {} /\ iter[{}] = t
    BY <1>7
  <2> QED
    BY <1>1, <2>1
<1>10. ASSUME NEW k \in 1..n PROVE acc[k] = EvictOne(acc[k - 1], ids[k])
  <2>1. 1..k \in SUBSET D /\ 1..k # {} /\ k - 1 \in 0..n /\ k \in 0..n
    BY ONLY <1>1, k \in 1..n
  <2>2. Max(1..k) = k /\ (1..k) \ {k} = 1..(k - 1)
    BY <1>1, MaxOfPrefix
  <2>3. iter[1..k] = EvictOne(iter[(1..k) \ {Max(1..k)}], ids[Max(1..k)])
    BY <1>7, <2>1
  <2>4. iter[1..k] = EvictOne(iter[1..(k - 1)], ids[k])
    BY <2>2, <2>3
  <2> QED
    BY <2>1, <2>4
<1>11. \A k \in 0..n : acc[k] \in V
  <2> DEFINE Good == {k \in 0..n : acc[k] \in V}
  <2> HIDE DEF acc
  <2>1. 0 \in Good
    BY <1>1, <1>9
  <2>2. ASSUME NEW k \in 1..n, k - 1 \in Good PROVE k \in Good
    <3>1. acc[k - 1] \in V /\ k \in 0..n
      BY <1>1, <2>2
    <3> HIDE DEF V
    <3> QED
      BY <1>3, <1>10, <3>1
  <2> HIDE DEF Good
  <2>3. 0..n \subseteq Good
    BY <1>1, <2>1, <2>2, UpToInduction
  <2> QED
    BY <2>3 DEF Good
<1>12. acc[n] = iter[D]
  BY <1>1
<1> HIDE DEF acc
<1>13. EvictRun(acc, t, ids)
  BY <1>8, <1>9, <1>10, <1>11, <1>12 DEF EvictRun
<1> QED
  BY <1>13

\* What an eviction removes, and the watermarks it leaves.
EvictsTo(u, t, gone) ==
  /\ u.stored = Sans(t.stored, gone)
  /\ Cardinality(Addressed) <= MaxWatermarks =>
       /\ \A x \in t.stored : x.id \in gone /\ x.addr # Nothing => MarkOf(x) \in ToSet(u.marks)
       /\ \A m \in ToSet(t.marks) : (\A x \in t.stored : x.addr # m.addr) => m \in ToSet(u.marks)

\* One more id.
LEMMA EvictsMore ==
  ASSUME NEW t, Sound(t), NEW v, NEW gone, EvictsTo(v, t, gone), NEW u, NEW id, EvictDone(u, v, id),
         NEW more, more = gone \cup {id}
  PROVE  EvictsTo(u, t, more)
<1>1. v.stored = Sans(t.stored, gone) /\ u.stored = Sans(v.stored, {id})
  BY DEF EvictsTo, EvictDone
<1>2. u.stored = Sans(t.stored, more)
  BY <1>1 DEF Sans
<1>3. t.stored \in SUBSET Events /\ OnePerAddress(t.stored)
  BY DEF Sound
<1>4. ASSUME Cardinality(Addressed) <= MaxWatermarks
      PROVE  /\ \A x \in t.stored : x.id \in more /\ x.addr # Nothing => MarkOf(x) \in ToSet(u.marks)
             /\ \A m \in ToSet(t.marks) : (\A x \in t.stored : x.addr # m.addr) => m \in ToSet(u.marks)
  <2>1. /\ \A x \in t.stored : x.id \in gone /\ x.addr # Nothing => MarkOf(x) \in ToSet(v.marks)
        /\ \A m \in ToSet(t.marks) : (\A x \in t.stored : x.addr # m.addr) => m \in ToSet(v.marks)
    BY <1>4 DEF EvictsTo
  <2>2. /\ \A x \in v.stored : x.id = id /\ x.addr # Nothing => MarkOf(x) \in ToSet(u.marks)
        /\ \A m \in ToSet(v.marks) : (\A x \in v.stored : x.addr # m.addr) => m \in ToSet(u.marks)
    BY <1>4 DEF EvictDone
  <2>3. v.stored \subseteq t.stored
    BY <1>1 DEF Sans
  <2>4. ASSUME NEW x \in t.stored, x.id \in more, x.addr # Nothing PROVE MarkOf(x) \in ToSet(u.marks)
    <3>1. CASE x.id \in gone
      <4>1. \A y \in v.stored : y.addr # x.addr
        BY <1>1, <1>3, <2>4, <3>1 DEF OnePerAddress, Sans
      <4>2. MarkOf(x).addr = x.addr
        BY <1>3, MarkParts
      <4> QED
        BY <2>1, <2>2, <2>4, <3>1, <4>1, <4>2
    <3>2. CASE x.id \notin gone
      <4>1. x \in v.stored /\ x.id = id
        BY <1>1, <2>4, <3>2 DEF Sans
      <4> QED
        BY <2>2, <2>4, <4>1
    <3> QED
      BY <3>1, <3>2
  <2> QED
    BY <2>1, <2>2, <2>3, <2>4
<1> QED
  BY <1>2, <1>4 DEF EvictsTo

\* evict().
LEMMA EvictIs ==
  ASSUME NEW t, Sound(t), NEW T, NEW ids \in Seq(T), NEW u, u = Evict(t, ids)
  PROVE  Sound(u) /\ EvictsTo(u, t, ToSet(ids))
<1>1. PICK acc : EvictRun(acc, t, ids)
  BY SoundOnes, EvictRuns
<1>2. PICK n \in Nat : n = Len(ids) /\ DOMAIN ids = 1..n
  OBVIOUS
<1> DEFINE Upto(k) == {ids[i] : i \in 1..k}
           Good == {k \in 0..n : EvictsTo(acc[k], t, Upto(k))}
<1>3. 0 \in Good
  <2>1. acc[0] = t
    BY <1>1 DEF EvictRun
  <2>2. \A i : i \notin Upto(0)
    OBVIOUS
  <2> HIDE DEF Upto
  <2>3. EvictsTo(t, t, Upto(0))
    BY <2>2 DEF EvictsTo, Sans
  <2> QED
    BY <2>1, <2>3
<1>4. ASSUME NEW k \in 1..n, k - 1 \in Good PROVE k \in Good
  <2>1. acc[k] = EvictOne(acc[k - 1], ids[k]) /\ acc[k - 1] \in SoundIndexes /\ k - 1 \in 0..n /\ k \in 0..n
    BY <1>1, <1>2 DEF EvictRun
  <2>2. EvictDone(acc[k], acc[k - 1], ids[k])
    BY <2>1, SoundOnes, EvictOneIs
  <2>3. Upto(k) = Upto(k - 1) \cup {ids[k]}
    <3>1. 1..k = (1..(k - 1)) \cup {k}
      OBVIOUS
    <3> QED
      BY <3>1
  <2>4. EvictsTo(acc[k - 1], t, Upto(k - 1))
    BY <1>4
  <2> HIDE DEF Upto
  <2>5. EvictsTo(acc[k], t, Upto(k))
    BY <2>2, <2>3, <2>4, EvictsMore
  <2> QED
    BY <2>1, <2>5
<1> HIDE DEF Good
<1>5. 0..n \subseteq Good
  BY <1>3, <1>4, UpToInduction
<1>6. Upto(n) = ToSet(ids)
  BY <1>2 DEF ToSet
<1>7. u = acc[n] /\ acc[n] \in SoundIndexes
  BY <1>1, <1>2 DEF EvictRun
<1>8. EvictsTo(acc[n], t, Upto(n))
  <2>1. n \in Good
    BY <1>5
  <2> HIDE DEF Upto
  <2> QED
    BY <2>1 DEF Good
<1> QED
  BY <1>6, <1>7, <1>8, SoundOnes

-----------------------------------------------------------------------------
(* The order of events, and recency.                                         *)

\* The newest of some events.
Top(x, evs) == x \in evs /\ \A y \in evs \ {x} : IsWinner(x, y)
\* Events have a newest one.
LEMMA TopExists ==
  ASSUME NEW evs, evs \in SUBSET Events, evs # {}
  PROVE  \E x : Top(x, evs)
<1> DEFINE pick == [s \in SUBSET Events |-> CHOOSE x \in s : TRUE]
           Good == {s \in SUBSET Events : s = {} \/ \E x : Top(x, s)}
<1>1. \A s \in SUBSET Events : s # {} => pick[s] \in s
  OBVIOUS
<1>2. ASSUME NEW s \in SUBSET Events, s # {}, s \ {pick[s]} \in Good PROVE s \in Good
  <2>1. PICK p : p = pick[s] /\ p \in s
    BY <1>1, <1>2
  <2>2. CASE s \ {p} = {}
    <3>1. Top(p, s)
      BY <2>1, <2>2 DEF Top
    <3> QED
      BY <3>1
  <2>3. ASSUME NEW x, Top(x, s \ {p}) PROVE s \in Good
    <3>1. x \in s /\ x # p /\ \A y \in s : y # x /\ y # p => IsWinner(x, y)
      BY <2>1, <2>3 DEF Top
    <3>2. /\ x.id # p.id /\ x.id \in Nat /\ p.id \in Nat /\ x.at \in Nat /\ p.at \in Nat
          /\ \A y \in s : y.id \in Nat /\ y.at \in Nat
      BY <2>1, <3>1, EventsAssumption
    <3>3. CASE IsWinner(x, p)
      <4>1. Top(x, s)
        BY <3>1, <3>3 DEF Top
      <4> QED
        BY <4>1
    <3>4. CASE ~IsWinner(x, p)
      <4>1. IsWinner(p, x)
        BY <3>2, <3>4 DEF IsWinner
      <4>2. \A y \in s : y # x /\ y # p => IsWinner(p, y)
        BY <3>1, <3>2, <4>1 DEF IsWinner
      <4>3. Top(p, s)
        BY <2>1, <3>1, <4>1, <4>2 DEF Top
      <4> QED
        BY <4>3
    <3> QED
      BY <3>3, <3>4
  <2> QED
    BY <1>2, <2>1, <2>2, <2>3
<1>3. {} \in Good
  OBVIOUS
<1>5. IsFiniteSet(Events)
  BY EventsAssumption
<1> HIDE DEF Good, pick
<1>6. Climbs(Good, Events, pick)
  BY <1>1, <1>2 DEF Climbs
<1>4. SUBSET Events \subseteq Good
  BY ONLY <1>3, <1>5, <1>6, SubsetInduction
<1> QED
  BY <1>4 DEF Good

\* The newest of a version and of those at its address.
LEMMA BetterIs ==
  ASSUME NEW evs, evs \in SUBSET Events, NEW c, NEW old, old \in Events \cup {Nothing},
         old # Nothing => old.addr = c, NEW b, b = Better(old, evs, c)
  PROVE  /\ b \in ByAddr(Events, c) \cup {Nothing}
         /\ \A x : x # Nothing /\ Top(x, ByAddr(evs, c) \cup ({old} \ {Nothing})) => b = x
         /\ ByAddr(evs, c) \cup ({old} \ {Nothing}) = {} => b = Nothing
<1>1. PICK all : all = ByAddr(evs, c) \cup ({old} \ {Nothing})
  OBVIOUS
<1>2. all \in SUBSET Events /\ \A x \in all : x.addr = c
  BY <1>1 DEF ByAddr
<1>6. all \subseteq ByAddr(Events, c)
  BY <1>2 DEF ByAddr
<1>3. b = IF all = {} THEN Nothing ELSE CHOOSE ev \in all : \A y \in all \ {ev} : IsWinner(ev, y)
  BY <1>1 DEF Better
<1>4. CASE all = {}
  BY <1>1, <1>3, <1>4 DEF Top
<1>5. CASE all # {}
  <2>1. PICK x : Top(x, all)
    BY <1>2, <1>5, TopExists
  <2>2. Top(b, all)
    BY <1>3, <1>5, <2>1 DEF Top
  <2>3. \A y : Top(y, all) => y = b
    <3>1. \A y \in all : y.id \in Nat /\ y.at \in Nat
      BY <1>2, EventsAssumption
    <3> QED
      BY <2>2, <3>1 DEF Top, IsWinner
  <2> QED
    BY <1>1, <1>2, <1>5, <1>6, <2>2, <2>3 DEF Top
<1> QED
  BY <1>4, <1>5, <1>6

\* A list of all members of a set without repetition.
LEMMA ListIs ==
  ASSUME NEW S, IsFiniteSet(S), NEW u, u \in [1..Cardinality(S) -> S], \A i, j \in 1..Cardinality(S) : u[i] = u[j] => i = j
  PROVE  u \in Seq(S) /\ ToSet(u) = S /\ IsInjective(u)
<1>1. PICK n \in Nat : n = Cardinality(S)
  BY FS_CardinalityType
<1>2. u \in Seq(S) /\ IsInjective(u)
  BY <1>1 DEF IsInjective
<1>3. u \in Injection(1..n, S)
  BY <1>1, <1>2 DEF Injection
<1>4. IsFiniteSet(1..n) /\ Cardinality(1..n) = n
  BY FS_Interval
<1>5. u \in Surjection(1..n, S)
  BY <1>1, <1>3, <1>4, FS_Injection
<1> QED
  BY <1>1, <1>2, <1>5 DEF Surjection, ToSet

\* Two lists of ids with no member in common.
LEMMA ConcatIds ==
  ASSUME NEW a, a \in Seq(Ids), NEW b, b \in Seq(Ids), IsInjective(a), IsInjective(b),
         \A x \in ToSet(a) : x \notin ToSet(b), NEW u, u = a \o b
  PROVE  u \in Seq(Ids) /\ ToSet(u) = ToSet(a) \cup ToSet(b) /\ IsInjective(u)
<1>1. /\ u \in Seq(Ids) /\ DOMAIN u = 1..(Len(a) + Len(b)) /\ DOMAIN a = 1..Len(a) /\ DOMAIN b = 1..Len(b)
      /\ \A i \in 1..Len(a) : u[i] = a[i]
      /\ \A i \in DOMAIN u : i > Len(a) => i - Len(a) \in 1..Len(b) /\ u[i] = b[i - Len(a)]
      /\ \A j \in 1..Len(b) : j + Len(a) \in DOMAIN u /\ u[j + Len(a)] = b[j]
  OBVIOUS
<1>2. ToSet(u) = ToSet(a) \cup ToSet(b)
  <2>1. \A x \in ToSet(u) : x \in ToSet(a) \cup ToSet(b)
    <3> SUFFICES ASSUME NEW i \in DOMAIN u PROVE u[i] \in ToSet(a) \cup ToSet(b)
      BY DEF ToSet
    <3>1. CASE i \in 1..Len(a)
      BY <1>1, <3>1 DEF ToSet
    <3>2. CASE i > Len(a)
      BY <1>1, <3>2 DEF ToSet
    <3> QED
      BY <1>1, <3>1, <3>2
  <2>2. \A x \in ToSet(a) : x \in ToSet(u)
    BY <1>1 DEF ToSet
  <2>3. \A x \in ToSet(b) : x \in ToSet(u)
    <3> SUFFICES ASSUME NEW j \in 1..Len(b) PROVE b[j] \in ToSet(u)
      BY <1>1, ZenonT(30) DEF ToSet
    <3>1. PICK k : k = j + Len(a)
      OBVIOUS
    <3>2. k \in DOMAIN u /\ u[k] = b[j]
      BY ONLY <3>1, <1>1
    <3> QED
      BY <3>2 DEF ToSet
  <2> QED
    BY <2>1, <2>2, <2>3
<1>3. IsInjective(u)
  <2> SUFFICES ASSUME NEW i \in DOMAIN u, NEW j \in DOMAIN u, u[i] = u[j] PROVE i = j
    BY DEF IsInjective
  <2>1. CASE i \in 1..Len(a) /\ j \in 1..Len(a)
    BY <1>1, <2>1 DEF IsInjective
  <2>2. CASE i > Len(a) /\ j > Len(a)
    <3>1. i - Len(a) = j - Len(a)
      BY <1>1, <2>2 DEF IsInjective
    <3> QED
      BY <1>1, <3>1
  <2>3. ASSUME NEW k \in 1..Len(a), NEW l \in DOMAIN u, l > Len(a), u[k] = u[l] PROVE FALSE
    <3>1. u[k] \in ToSet(a) /\ u[l] \in ToSet(b)
      BY <1>1, <2>3 DEF ToSet
    <3> QED
      BY <2>3, <3>1
  <2> QED
    BY <1>1, <2>1, <2>2, <2>3
<1> QED
  BY <1>1, <1>2, <1>3

\* The events of a set, oldest first.
Ascending(q, evs) ==
  /\ q \in [1..Cardinality(evs) -> evs]
  /\ \A i, j \in 1..Cardinality(evs) : i < j => IsWinner(q[j], q[i])
\* There is such a list.
LEMMA AscendingExists ==
  ASSUME NEW evs, evs \in SUBSET Events
  PROVE  \E q : Ascending(q, evs)
<1> DEFINE pick == [s \in SUBSET Events |-> CHOOSE x : Top(x, s)]
           Good == {s \in SUBSET Events : \E q : Ascending(q, s)}
<1>1. \A s \in SUBSET Events : s # {} => pick[s] \in s /\ Top(pick[s], s)
  BY TopExists DEF Top
<1>2. ASSUME NEW s \in SUBSET Events, s # {}, s \ {pick[s]} \in Good PROVE s \in Good
  <2>1. PICK x : x = pick[s] /\ Top(x, s) /\ x \in s
    BY <1>1, <1>2
  <2>2. PICK t : t = s \ {x} /\ t \in SUBSET Events
    OBVIOUS
  <2>3. PICK q : Ascending(q, t)
    BY <1>2, <2>1, <2>2
  <2>4. PICK n \in Nat : Cardinality(t) = n /\ Cardinality(s) = n + 1
    <3>1. IsFiniteSet(s) /\ Cardinality(s) \in Nat
      BY IdsFinite, FS_CardinalityType
    <3>2. IsFiniteSet(t) /\ Cardinality(t) \in Nat
      BY <2>2, IdsFinite, FS_CardinalityType
    <3>3. Cardinality(t) = Cardinality(s) - 1
      BY <2>1, <2>2, <3>1, FS_RemoveElement
    <3> QED
      BY <3>1, <3>2, <3>3
  <2>5. q \in [1..n -> t] /\ \A i, j \in 1..n : i < j => IsWinner(q[j], q[i])
    BY <2>3, <2>4 DEF Ascending
  <2>6. PICK r : r = [k \in 1..(n + 1) |-> IF k = n + 1 THEN x ELSE q[k]]
    OBVIOUS
  <2>7. \A k \in 1..n : k \in 1..(n + 1) /\ r[k] = q[k] /\ q[k] \in s /\ IsWinner(x, q[k])
    BY <2>1, <2>2, <2>5, <2>6 DEF Top
  <2>8. r[n + 1] = x
    BY <2>6
  <2>9. r \in [1..(n + 1) -> s]
    <3>1. \A k \in 1..(n + 1) : k \in 1..n \/ k = n + 1
      OBVIOUS
    <3>2. \A k \in 1..(n + 1) : r[k] \in s
      BY <2>1, <2>7, <2>8, <3>1
    <3>3. DOMAIN r = 1..(n + 1) /\ r = [k \in DOMAIN r |-> r[k]]
      BY <2>6
    <3> QED
      BY ONLY <3>2, <3>3
  <2>10. ASSUME NEW i \in 1..(n + 1), NEW j \in 1..(n + 1), i < j PROVE IsWinner(r[j], r[i])
    <3>1. i \in 1..n
      BY <2>10
    <3>2. CASE j = n + 1
      BY <2>7, <2>8, <3>1, <3>2
    <3>3. CASE j \in 1..n
      BY <2>5, <2>7, <2>10, <3>1, <3>3
    <3> QED
      BY <3>2, <3>3
  <2>11. Ascending(r, s)
    BY <2>4, <2>9, <2>10 DEF Ascending
  <2> QED
    BY <2>11
<1>3. {} \in Good
  <2>1. Ascending(<<>>, {})
    BY FS_EmptySet DEF Ascending
  <2> QED
    BY <2>1
<1>5. IsFiniteSet(Events)
  BY EventsAssumption
<1> HIDE DEF Good, pick
<1>6. Climbs(Good, Events, pick)
  BY <1>1, <1>2 DEF Climbs
<1>4. SUBSET Events \subseteq Good
  BY ONLY <1>3, <1>5, <1>6, SubsetInduction
<1> QED
  BY <1>4 DEF Good

\* Touching a result lists its ids once each.
LEMMA OldestIs ==
  ASSUME NEW evs, evs \in SUBSET Events, NEW u, u = OldestFirst(evs)
  PROVE  u \in Seq(IdsOf(evs)) /\ ToSet(u) = IdsOf(evs) /\ IsInjective(u)
<1>1. PICK n \in Nat : n = Cardinality(evs) /\ n = Cardinality(IdsOf(evs)) /\ IsFiniteSet(IdsOf(evs))
  BY IdsFinite, FS_CardinalityType
<1>2. PICK q : q \in [1..n -> evs] /\ \A i, j \in 1..n : i < j => IsWinner(q[j], q[i])
  BY <1>1, AscendingExists DEF Ascending
<1>3. PICK w : w = [i \in 1..n |-> q[i].id]
  OBVIOUS
<1>4. \A i \in 1..n : w[i] = q[i].id /\ q[i] \in evs /\ ById(evs, w[i]) = q[i]
  BY <1>2, <1>3, ByIdIs
<1>5. \A i, j \in 1..n : i # j => w[i] # w[j]
  <2> SUFFICES ASSUME NEW i \in 1..n, NEW j \in 1..n, i < j PROVE w[i] # w[j]
    OBVIOUS
  <2>1. IsWinner(q[j], q[i]) /\ q[i] \in Events /\ q[j] \in Events
    BY <1>2, <1>4
  <2>2. q[i] # q[j]
    BY <2>1, EventsAssumption DEF IsWinner
  <2> QED
    BY <1>4, <2>1, <2>2, EventsAssumption
<1>6. w \in [1..n -> IdsOf(evs)] /\ DOMAIN w = 1..n
  BY <1>3, <1>4 DEF IdsOf
<1>7. w \in SetToSeqs(IdsOf(evs))
  BY <1>1, <1>5, <1>6 DEF SetToSeqs
<1>8. \A i, j \in DOMAIN w : i < j => IsWinner(ById(evs, w[j]), ById(evs, w[i]))
  BY <1>2, <1>4, <1>6
<1>9. u \in SetToSeqs(IdsOf(evs))
  BY <1>7, <1>8 DEF OldestFirst
<1>10. u \in [1..n -> IdsOf(evs)] /\ \A i, j \in 1..n : u[i] = u[j] => i = j
  BY <1>1, <1>9 DEF SetToSeqs
<1> QED
  BY <1>1, <1>10, ListIs

\* Filtering a list of ids.
LEMMA OnlyIds ==
  ASSUME NEW rec, rec \in Seq(Ids), IsInjective(rec), NEW S, NEW u, u = Only(rec, S)
  PROVE  u \in Seq(Ids) /\ ToSet(u) = ToSet(rec) \cap S /\ IsInjective(u)
<1>1. PICK T : T = Ids
  OBVIOUS
<1>2. rec \in Seq(T)
  BY <1>1
<1>3. u \in Seq(T) /\ ToSet(u) = ToSet(rec) \cap S /\ (IsInjective(rec) => IsInjective(u))
  BY ONLY <1>2, u = Only(rec, S), OnlyIs
<1> QED
  BY <1>1, <1>3

\* recency lists the stored ids, once each.
Listed(rec, stored) == rec \in Seq(Ids) /\ IsInjective(rec) /\ ToSet(rec) = IdsOf(stored)

\* Touching keeps it so.
LEMMA TouchedIs ==
  ASSUME NEW stored, stored \in SUBSET Events, NEW rec, Listed(rec, stored), NEW evs, evs \in SUBSET stored,
         NEW u, u = Touched(rec, evs)
  PROVE  Listed(u, stored)
<1>1. PICK b : b = OldestFirst(evs) /\ b \in Seq(IdsOf(evs)) /\ ToSet(b) = IdsOf(evs) /\ IsInjective(b)
  BY OldestIs
<1>2. PICK S : S = ToSet(rec) \ IdsOf(evs)
  OBVIOUS
<1>3. PICK a : a = Only(rec, S)
  OBVIOUS
<1>4. rec \in Seq(Ids) /\ IsInjective(rec) /\ ToSet(rec) = IdsOf(stored)
  BY DEF Listed
<1>5. a \in Seq(Ids) /\ ToSet(a) = ToSet(rec) \cap S /\ IsInjective(a)
  BY ONLY <1>3, <1>4, OnlyIds
<1>6. IdsOf(evs) \subseteq IdsOf(stored) /\ IdsOf(stored) \subseteq Ids
  BY DEF IdsOf, Ids
<1>7. b \in Seq(Ids)
  BY <1>1, <1>6
<1>8. \A x \in ToSet(a) : x \notin ToSet(b)
  BY <1>1, <1>2, <1>5
<1>9. u = a \o b
  BY <1>1, <1>2, <1>3 DEF Touched
<1>10. u \in Seq(Ids) /\ ToSet(u) = ToSet(a) \cup ToSet(b) /\ IsInjective(u)
  BY ONLY <1>1, <1>5, <1>7, <1>8, <1>9, ConcatIds
<1> QED
  BY <1>1, <1>2, <1>4, <1>5, <1>6, <1>10 DEF Listed

\* So does a removal.
LEMMA ListedLess ==
  ASSUME NEW stored, NEW rec, Listed(rec, stored), NEW less, less \subseteq stored,
         NEW u, u = Only(rec, IdsOf(less))
  PROVE  Listed(u, less)
<1>1. rec \in Seq(Ids) /\ IsInjective(rec) /\ ToSet(rec) = IdsOf(stored)
  BY DEF Listed
<1>2. PICK S : S = IdsOf(less) /\ S \subseteq IdsOf(stored)
  BY DEF IdsOf
<1>3. u \in Seq(Ids) /\ ToSet(u) = ToSet(rec) \cap S /\ IsInjective(u)
  BY ONLY <1>1, <1>2, u = Only(rec, IdsOf(less)), OnlyIds
<1> QED
  BY <1>1, <1>2, <1>3 DEF Listed

\* So do the insertions and removals of a write.
LEMMA KeptIs ==
  ASSUME NEW old, NEW rec, Listed(rec, old), NEW st, st.stored \in SUBSET Events,
         NEW ins, ins = st.stored \ old, NEW u, u = Kept(rec, st, ins), old \in SUBSET Events
  PROVE  Listed(u, st.stored)
<1>1. rec \in Seq(Ids) /\ IsInjective(rec) /\ ToSet(rec) = IdsOf(old)
  BY DEF Listed
<1>2. PICK S : S = IdsOf(st.stored)
  OBVIOUS
<1>3. PICK a : a = Only(rec, S)
  OBVIOUS
<1>4. a \in Seq(Ids) /\ ToSet(a) = ToSet(rec) \cap S /\ IsInjective(a)
  BY ONLY <1>1, <1>3, OnlyIds
<1>5. PICK b : b = SetToSeq(IdsOf(ins))
  OBVIOUS
<1>6. IsFiniteSet(IdsOf(ins)) /\ ins \in SUBSET Events
  BY IdsFinite
<1>7. PICK I : I = IdsOf(ins) /\ b \in Seq(I) /\ ToSet(b) = I /\ IsInjective(b)
  BY ONLY <1>5, <1>6, SetToSeqIs
<1>8. I \subseteq Ids
  BY <1>6, <1>7 DEF IdsOf, Ids
<1>9. b \in Seq(Ids)
  <2>1. \A i \in 1..Len(b) : b[i] \in I
    BY ONLY <1>7
  <2>2. Len(b) \in Nat /\ b = [i \in 1..Len(b) |-> b[i]]
    BY ONLY <1>7
  <2>3. \A i \in 1..Len(b) : b[i] \in Ids
    BY ONLY <2>1, <1>8
  <2> QED
    BY ONLY <2>2, <2>3
<1>10. \A i \in IdsOf(ins) : i \notin IdsOf(old)
  BY EventsAssumption DEF IdsOf
<1>11. \A x \in ToSet(a) : x \notin ToSet(b)
  BY <1>1, <1>4, <1>7, <1>10
<1>12. u = a \o b
  BY <1>2, <1>3, <1>5 DEF Kept
<1>13. u \in Seq(Ids) /\ ToSet(u) = ToSet(a) \cup ToSet(b) /\ IsInjective(u)
  BY ONLY <1>4, <1>7, <1>9, <1>11, <1>12, ConcatIds
<1>14. ToSet(u) = IdsOf(st.stored)
  BY <1>1, <1>2, <1>4, <1>7, <1>13 DEF IdsOf
<1> QED
  BY <1>13, <1>14 DEF Listed

-----------------------------------------------------------------------------
(* The newest versions.                                                      *)

NewestTyped(nw) == /\ nw \in [Addrs -> Events \cup {Nothing}]
                   /\ \A c \in Addrs : nw[c] # Nothing => nw[c].addr = c
\* Unless its address is spoiled, the newest version is what is stored there, or
\* has a watermark when nothing is.
NewestKept(st, nw, sp) ==
  \A c \in Addrs \ sp :
    /\ \A x \in st.stored : x.addr = c => nw[c] = x
    /\ nw[c] # Nothing /\ (\A x \in st.stored : x.addr # c) => MarkOf(nw[c]) \in ToSet(st.marks)

\* What a put makes of the newest versions.
NewestAfter(nw, stored, deletes) ==
  [c \in Addrs |-> Better(IF c \in deletes THEN Nothing ELSE nw[c], stored, c)]
Named(nw, ev) == {c \in Addrs : nw[c] # Nothing /\ Names(ev, nw[c])}
Deleted(nw, ev) == {c \in Named(nw, ev) : Deletes(ev, nw[c])}

\* It is typed.
LEMMA NewestAfterTyped ==
  ASSUME NEW nw, NewestTyped(nw), NEW stored, stored \in SUBSET Events, NEW deletes,
         NEW after, after = NewestAfter(nw, stored, deletes)
  PROVE  NewestTyped(after)
<1>1. ASSUME NEW c \in Addrs
      PROVE  after[c] \in Events \cup {Nothing} /\ (after[c] # Nothing => after[c].addr = c)
  <2>1. PICK old : old = (IF c \in deletes THEN Nothing ELSE nw[c])
    OBVIOUS
  <2>2. old \in Events \cup {Nothing} /\ (old # Nothing => old.addr = c)
    BY <2>1 DEF NewestTyped
  <2>3. PICK b : b = Better(old, stored, c) /\ b = after[c]
    BY <2>1 DEF NewestAfter
  <2>4. b \in ByAddr(Events, c) \cup {Nothing}
    BY ONLY <2>2, <2>3, stored \in SUBSET Events, BetterIs
  <2>5. b \in Events \cup {Nothing} /\ (b # Nothing => b.addr = c)
    BY <2>4 DEF ByAddr
  <2> QED
    BY <2>3, <2>5
<1>2. DOMAIN after = Addrs /\ after = [c \in Addrs |-> after[c]]
  BY DEF NewestAfter
<1> QED
  BY <1>1, <1>2 DEF NewestTyped

\* What is stored at an address is the newest when it wins against the last one.
LEMMA BetterStored ==
  ASSUME NEW stored, stored \in SUBSET Events, OnePerAddress(stored), NEW x \in stored, NEW c \in Addrs, x.addr = c,
         NEW old, old \in Events \cup {Nothing}, old # Nothing => old.addr = c,
         old = Nothing \/ old = x \/ IsWinner(x, old)
  PROVE  Better(old, stored, c) = x
<1>1. PICK all : all = ByAddr(stored, c) \cup ({old} \ {Nothing})
  OBVIOUS
<1>2. \A y \in ByAddr(stored, c) : y = x
  BY DEF ByAddr, OnePerAddress, Addrs
<1>3. x \in ByAddr(stored, c) /\ x # Nothing
  BY EventsAssumption DEF ByAddr
<1>4. \A y \in all \ {x} : IsWinner(x, y)
  BY <1>1, <1>2
<1>5. Top(x, all)
  BY <1>1, <1>3, <1>4 DEF Top
<1>6. PICK b : b = Better(old, stored, c)
  OBVIOUS
<1>7. \A y : y # Nothing /\ Top(y, ByAddr(stored, c) \cup ({old} \ {Nothing})) => b = y
  BY <1>6, BetterIs
<1> QED
  BY <1>1, <1>3, <1>5, <1>6, <1>7

\* The last one stays the newest when nothing is stored at the address.
LEMMA BetterAlone ==
  ASSUME NEW stored, stored \in SUBSET Events, NEW c \in Addrs, \A x \in stored : x.addr # c,
         NEW old, old \in Events \cup {Nothing}, old # Nothing => old.addr = c
  PROVE  Better(old, stored, c) = old
<1>1. PICK all : all = ByAddr(stored, c) \cup ({old} \ {Nothing})
  OBVIOUS
<1>2. ByAddr(stored, c) = {}
  BY DEF ByAddr
<1>3. PICK b : b = Better(old, stored, c)
  OBVIOUS
<1>4. /\ \A x : x # Nothing /\ Top(x, ByAddr(stored, c) \cup ({old} \ {Nothing})) => b = x
      /\ ByAddr(stored, c) \cup ({old} \ {Nothing}) = {} => b = Nothing
  BY <1>3, BetterIs
<1>5. CASE old = Nothing
  <2>1. all = {}
    BY <1>1, <1>2, <1>5
  <2> QED
    BY <1>1, <1>3, <1>4, <1>5, <2>1
<1>6. CASE old # Nothing
  <2>1. Top(old, all)
    BY <1>1, <1>2, <1>6 DEF Top
  <2> QED
    BY <1>1, <1>3, <1>4, <1>6, <2>1
<1> QED
  BY <1>5, <1>6

\* A put keeps the newest versions.
LEMMA PutKeepsNewest ==
  ASSUME NEW t, Sound(t), NEW ev \in Events, NEW u, u = Put(t, ev),
         NEW nw, NewestTyped(nw), NEW sp, NewestKept(t, nw, sp),
         NEW deletes, deletes = Deleted(nw, ev), NEW after, after = NewestAfter(nw, u.stored, deletes),
         NEW sp2, sp2 = sp \cup (Named(nw, ev) \ deletes)
  PROVE  NewestKept(u, after, sp2)
<1>0. /\ u.stored \in SUBSET Events /\ OnePerAddress(u.stored)
      /\ t.stored \in SUBSET Events /\ OnePerAddress(t.stored) /\ t.marks \in Seq(AllMarks)
      /\ SkipDone(u, t) \/ InsertDone(u, t, ev) \/ EraseDone(u, t, ev)
  <2>1. Sound(u) /\ (SkipDone(u, t) \/ InsertDone(u, t, ev) \/ EraseDone(u, t, ev))
    BY PutIs
  <2> QED
    BY <2>1 DEF Sound
<1> SUFFICES ASSUME NEW c \in Addrs, c \notin sp2
             PROVE  /\ \A x \in u.stored : x.addr = c => after[c] = x
                    /\ after[c] # Nothing /\ (\A x \in u.stored : x.addr # c)
                         => MarkOf(after[c]) \in ToSet(u.marks)
  BY DEF NewestKept
<1>1. c # Nothing /\ c \notin sp
  BY DEF Addrs
<1>2. /\ \A x \in t.stored : x.addr = c => nw[c] = x
      /\ nw[c] # Nothing /\ (\A x \in t.stored : x.addr # c) => MarkOf(nw[c]) \in ToSet(t.marks)
  BY <1>1 DEF NewestKept
<1>3. nw[c] \in Events \cup {Nothing} /\ (nw[c] # Nothing => nw[c].addr = c)
  BY DEF NewestTyped
<1>4. PICK old : old = (IF c \in deletes THEN Nothing ELSE nw[c])
  OBVIOUS
<1>5. after[c] = Better(old, u.stored, c)
  BY <1>4 DEF NewestAfter
<1>6. old \in Events \cup {Nothing} /\ (old # Nothing => old.addr = c)
  BY <1>3, <1>4
\* It is enough that what is stored wins, and that what is not has its mark.
<1>7. SUFFICES /\ \A x \in u.stored : x.addr = c => old = Nothing \/ old = x \/ IsWinner(x, old)
               /\ old # Nothing /\ (\A x \in u.stored : x.addr # c) => MarkOf(old) \in ToSet(u.marks)
  <2>1. \A x \in u.stored : x.addr = c => after[c] = x
    BY <1>0, <1>5, <1>6, <1>7, BetterStored
  <2>2. (\A x \in u.stored : x.addr # c) => after[c] = old
    BY <1>0, <1>5, <1>6, BetterAlone
  <2> QED
    BY <1>7, <2>1, <2>2
<1>8. CASE SkipDone(u, t)
  BY <1>2, <1>4, <1>8 DEF SkipDone
<1>9. CASE InsertDone(u, t, ev)
  <2>1. /\ ev.kind # "delete"
        /\ u.stored = With(Sans(t.stored, AtAddress(t.stored, ev.addr)), ev)
        /\ ToSet(u.marks) = {m \in ToSet(t.marks) : m.addr # ev.addr}
        /\ \A x \in t.stored : ev.addr # Nothing /\ x.addr = ev.addr => IsWinner(ev, x)
        /\ (\A x \in t.stored : x.addr # ev.addr) =>
             \A m \in ToSet(t.marks) : m.addr = ev.addr => m.id = ev.id \/ IsWinner(ev, m)
    BY <1>9 DEF InsertDone, Wins
  <2>2. old = nw[c]
    BY <1>4, <2>1 DEF Deleted, Named, Names
  <2>3. CASE ev.addr = c
    <3>2. ev \in u.stored
      BY <2>1 DEF With
    <3>1. \A x \in u.stored : x.addr = c => x = ev
      BY <1>0, <1>1, <2>3, <3>2 DEF OnePerAddress
    <3>3. old = Nothing \/ old = ev \/ IsWinner(ev, old)
      <4>1. CASE \E x \in t.stored : x.addr = c
        BY <1>1, <1>2, <2>1, <2>2, <2>3, <4>1
      <4>2. CASE (\A x \in t.stored : x.addr # c) /\ nw[c] # Nothing
        <5>1. PICK m : m = MarkOf(nw[c]) /\ m \in ToSet(t.marks)
          BY <1>2, <4>2
        <5>2. nw[c] \in Events
          BY <1>3, <4>2
        <5>3. m.addr = c /\ m.id = nw[c].id /\ m.at = nw[c].at
          BY <1>3, <4>2, <5>1, <5>2, MarkParts
        <5>4. m.id = ev.id \/ IsWinner(ev, m)
          BY <2>1, <2>3, <4>2, <5>1, <5>3
        <5> QED
          BY <2>2, <5>2, <5>3, <5>4, EventsAssumption DEF IsWinner
      <4> QED
        BY <2>2, <4>1, <4>2
    <3> QED
      BY <2>3, <3>1, <3>2, <3>3
  <2>4. CASE ev.addr # c
    <3>1. \A x \in Events : x.addr = c => (x \in u.stored <=> x \in t.stored)
      BY <1>0, <1>1, <2>1, <2>4, EventsAssumption DEF With, Sans, AtAddress
    <3>2. (\A x \in u.stored : x.addr # c) => \A x \in t.stored : x.addr # c
      BY <1>0, <3>1
    <3>3. old # Nothing => MarkOf(old).addr = c
      BY <1>3, <2>2, MarkParts
    <3> QED
      BY <1>0, <1>2, <2>1, <2>2, <2>4, <3>1, <3>2, <3>3
  <2> QED
    BY <2>3, <2>4
<1>10. CASE EraseDone(u, t, ev)
  <2>1. /\ ev.kind = "delete" /\ ToSet(u.marks) \subseteq ToSet(t.marks)
        /\ \A m \in ToSet(t.marks) \ ToSet(u.marks) : \E x \in Events : m = MarkOf(x) /\ Names(ev, x)
    BY <1>10 DEF EraseDone
  <2>2. PICK gone : /\ u.stored = With(Sans(t.stored, gone), ev)
                    /\ \A i \in gone : \E x \in Events : x.id = i /\ Deletes(ev, x)
    BY <1>10 DEF EraseDone
  <2>3. ev.addr # c
    BY <1>1, <2>1, EventsAssumption
  <2>4. CASE c \in deletes
    BY <1>4, <2>4
  <2>5. CASE c \notin deletes
    <3>1. old = nw[c] /\ (old # Nothing => ~Names(ev, old))
      BY <1>4, <2>5 DEF Named
    <3>2. ASSUME NEW x \in t.stored, x.addr = c PROVE x \in u.stored /\ old = x
      <4>1. old = x /\ x # Nothing
        BY <1>0, <1>2, <3>1, <3>2, EventsAssumption
      <4>2. \A y \in Events : y.id = x.id => y = x
        BY <1>0, EventsAssumption
      <4>3. x.id \notin gone
        BY <2>2, <3>1, <4>1, <4>2 DEF Deletes
      <4> QED
        BY <2>2, <4>1, <4>3 DEF With, Sans
    <3>3. \A x \in u.stored : x.addr = c => x \in t.stored
      BY <2>2, <2>3 DEF With, Sans
    <3>4. ASSUME old # Nothing, \A x \in u.stored : x.addr # c PROVE MarkOf(old) \in ToSet(u.marks)
      <4>1. \A x \in t.stored : x.addr # c
        BY <3>2, <3>4
      <4>2. MarkOf(old) \in ToSet(t.marks) /\ old \in Events
        BY <1>2, <1>3, <3>1, <3>4, <4>1
      <4>3. \A x \in Events : MarkOf(old) = MarkOf(x) => x = old
        BY <4>2, MarkParts
      <4> QED
        BY <2>1, <3>1, <3>4, <4>2, <4>3
    <3> QED
      BY <3>2, <3>3, <3>4
  <2> QED
    BY <2>4, <2>5
<1> QED
  BY <1>0, <1>8, <1>9, <1>10

\* So does an eviction, when every address has room for a watermark.
LEMMA EvictKeepsNewest ==
  ASSUME NEW t, Sound(t), NEW u, Sound(u), NEW gone, EvictsTo(u, t, gone), Cardinality(Addressed) <= MaxWatermarks,
         NEW nw, NewestTyped(nw), NEW sp, NewestKept(t, nw, sp)
  PROVE  NewestKept(u, nw, sp)
<1>1. /\ u.stored = Sans(t.stored, gone)
      /\ \A x \in t.stored : x.id \in gone /\ x.addr # Nothing => MarkOf(x) \in ToSet(u.marks)
      /\ \A m \in ToSet(t.marks) : (\A x \in t.stored : x.addr # m.addr) => m \in ToSet(u.marks)
  BY DEF EvictsTo
<1> SUFFICES ASSUME NEW c \in Addrs, c \notin sp
             PROVE  /\ \A x \in u.stored : x.addr = c => nw[c] = x
                    /\ nw[c] # Nothing /\ (\A x \in u.stored : x.addr # c) => MarkOf(nw[c]) \in ToSet(u.marks)
  BY DEF NewestKept
<1>2. /\ \A x \in t.stored : x.addr = c => nw[c] = x
      /\ nw[c] # Nothing /\ (\A x \in t.stored : x.addr # c) => MarkOf(nw[c]) \in ToSet(t.marks)
  BY DEF NewestKept
<1>3. c # Nothing /\ (nw[c] # Nothing => nw[c] \in Events /\ nw[c].addr = c)
  BY DEF NewestTyped, Addrs
<1>4. \A x \in u.stored : x \in t.stored
  BY <1>1 DEF Sans
<1>5. ASSUME nw[c] # Nothing, \A x \in u.stored : x.addr # c PROVE MarkOf(nw[c]) \in ToSet(u.marks)
  <2>1. CASE \E x \in t.stored : x.addr = c
    <3>1. PICK x \in t.stored : x.addr = c /\ nw[c] = x
      BY <1>2, <2>1
    <3>2. x.id \in gone
      BY <1>1, <1>5, <3>1 DEF Sans
    <3> QED
      BY <1>1, <1>3, <3>1, <3>2
  <2>2. CASE \A x \in t.stored : x.addr # c
    <3>1. PICK m : m = MarkOf(nw[c]) /\ m \in ToSet(t.marks)
      BY <1>2, <1>5, <2>2
    <3>2. m.addr = c
      BY <1>3, <1>5, <3>1, MarkParts
    <3> QED
      BY <1>1, <2>2, <3>1, <3>2
  <2> QED
    BY <2>1, <2>2
<1> QED
  BY <1>2, <1>4, <1>5

\* So does a removal, of which nothing remains.
LEMMA RemovalKeepsNewest ==
  ASSUME NEW t, Sound(t), NEW ids, ids \in SUBSET Ids, NEW u, u = RemoveIds(t, ids),
         NEW nw, NewestTyped(nw), NEW sp, NewestKept(t, nw, sp),
         NEW after, after = [c \in Addrs |-> IF nw[c] # Nothing /\ nw[c].id \in ids THEN Nothing ELSE nw[c]]
  PROVE  NewestTyped(after) /\ NewestKept(u, after, sp)
<1>1. /\ u.stored = Sans(t.stored, ids)
      /\ ToSet(u.marks) = {m \in ToSet(t.marks) : m.id \notin ids}
  BY RemoveIdsIs
<1>2. NewestTyped(after)
  BY DEF NewestTyped
<1>3. Nothing \notin t.stored
  BY EventsAssumption DEF Sound
<1>4. ASSUME NEW c \in Addrs, c \notin sp
      PROVE  /\ \A x \in u.stored : x.addr = c => after[c] = x
             /\ after[c] # Nothing /\ (\A x \in u.stored : x.addr # c) => MarkOf(after[c]) \in ToSet(u.marks)
  <2>1. /\ \A x \in t.stored : x.addr = c => nw[c] = x
        /\ nw[c] # Nothing /\ (\A x \in t.stored : x.addr # c) => MarkOf(nw[c]) \in ToSet(t.marks)
    BY <1>4 DEF NewestKept
  <2>2. after[c] = IF nw[c] # Nothing /\ nw[c].id \in ids THEN Nothing ELSE nw[c]
    OBVIOUS
  <2>3. \A x \in u.stored : x \in t.stored /\ x.id \notin ids
    BY <1>1 DEF Sans
  <2>4. \A x \in u.stored : x.addr = c => after[c] = x
    BY <2>1, <2>2, <2>3
  <2>5. ASSUME after[c] # Nothing, \A x \in u.stored : x.addr # c PROVE MarkOf(after[c]) \in ToSet(u.marks)
    <3>1. after[c] = nw[c] /\ nw[c] # Nothing /\ nw[c].id \notin ids
      BY <2>2, <2>5
    <3>2. \A x \in t.stored : x.addr # c
      BY <1>1, <2>1, <2>5, <3>1 DEF Sans
    <3>3. PICK m : m = MarkOf(nw[c]) /\ m \in ToSet(t.marks)
      BY <2>1, <3>1, <3>2
    <3>4. nw[c] \in Events
      BY <3>1 DEF NewestTyped
    <3>5. m.id = nw[c].id
      BY <3>3, <3>4, MarkParts
    <3> QED
      BY <1>1, <3>1, <3>3, <3>5
  <2> QED
    BY <2>4, <2>5
<1> QED
  BY <1>2, <1>4 DEF NewestKept

-----------------------------------------------------------------------------
(* A series of writes.                                                       *)

\* What holds of an index, the order of its ids and the newest versions.
Kept3(st, rec, nw, sp) ==
  /\ Sound(st) /\ Listed(rec, st.stored) /\ NewestTyped(nw) /\ sp \in SUBSET Addrs
  /\ Cardinality(Addressed) <= MaxWatermarks => NewestKept(st, nw, sp)

\* A series that began with the events of old.
Sr(st, rec, changed, nw, sp) == [st |-> st, rec |-> rec, changed |-> changed, newest |-> nw, spoiled |-> sp]
InSeries(r, old) ==
  /\ r = Sr(r.st, r.rec, r.changed, r.newest, r.spoiled)
  /\ Kept3(r.st, r.rec, r.newest, r.spoiled)
  /\ r.changed \in SUBSET Events
  /\ \A x \in Events : x \notin r.changed => (x \in r.st.stored <=> x \in old)

\* The events that a put brings.
Brings(u, t, ev) == u.stored \subseteq t.stored \/ (ev \notin t.stored /\ u.stored \subseteq With(t.stored, ev))

\* put() of one event.
LEMMA PutOneIs ==
  ASSUME NEW old, old \in SUBSET Events, NEW r, InSeries(r, old), NEW ev, ev \in Events, NEW u, u = PutOne(r, ev)
  PROVE  InSeries(u, old) /\ Brings(u.st, r.st, ev)
<1>1. PICK t, rec, changed, nw, sp :
        /\ r.st = t /\ r.rec = rec /\ r.changed = changed /\ r.newest = nw /\ r.spoiled = sp
        /\ Sound(t) /\ Listed(rec, t.stored) /\ NewestTyped(nw) /\ sp \in SUBSET Addrs
        /\ Cardinality(Addressed) <= MaxWatermarks => NewestKept(t, nw, sp)
        /\ changed \in SUBSET Events
        /\ \A x \in Events : x \notin changed => (x \in t.stored <=> x \in old)
  BY DEF InSeries, Kept3
<1>2. PICK s : s = Put(t, ev) /\ Sound(s) /\ (SkipDone(s, t) \/ InsertDone(s, t, ev) \/ EraseDone(s, t, ev))
  BY <1>1, PutIs
<1>3. s.stored \in SUBSET Events /\ t.stored \in SUBSET Events
  BY <1>1, <1>2 DEF Sound
<1>4. PICK ins, out : ins = s.stored \ t.stored /\ out = t.stored \ s.stored
  OBVIOUS
<1>5. PICK deletes : deletes = Deleted(nw, ev)
  OBVIOUS
<1>6. PICK after, sp2 : after = NewestAfter(nw, s.stored, deletes) /\ sp2 = sp \cup (Named(nw, ev) \ deletes)
  OBVIOUS
<1>7. PICK k : k = Kept(rec, s, ins)
  OBVIOUS
<1>8. u = Sr(s, k, changed \cup ins \cup out, after, sp2)
  BY <1>1, <1>2, <1>4, <1>5, <1>6, <1>7 DEF PutOne, Sr, NewestAfter, Named, Deleted
<1>9. PICK ch : ch = changed \cup ins \cup out
  OBVIOUS
<1>10. u = Sr(s, k, ch, after, sp2) /\ u.st = s /\ u.rec = k /\ u.changed = ch /\ u.newest = after /\ u.spoiled = sp2
  BY ONLY <1>8, <1>9 DEF Sr
<1>11. Listed(k, s.stored)
  BY <1>1, <1>3, <1>4, <1>7, KeptIs
<1>12. NewestTyped(after) /\ sp2 \in SUBSET Addrs
  BY <1>1, <1>3, <1>6, NewestAfterTyped DEF Named
<1>13. Cardinality(Addressed) <= MaxWatermarks => NewestKept(s, after, sp2)
  BY <1>1, <1>2, <1>5, <1>6, PutKeepsNewest
<1>14. ch \in SUBSET Events /\ \A x \in Events : x \notin ch => (x \in s.stored <=> x \in old)
  BY <1>1, <1>3, <1>4, <1>9
<1>15. Brings(s, t, ev)
  BY <1>2, <1>3 DEF Brings, SkipDone, InsertDone, EraseDone, With, Sans
<1> QED
  BY <1>1, <1>2, <1>10, <1>11, <1>12, <1>13, <1>14, <1>15 DEF InSeries, Kept3

\* The series that began with the events of old, as a set.
Series(old) ==
  {r \in {Sr(st, rec, changed, nw, sp) : st \in SoundIndexes, rec \in Seq(Ids), changed \in SUBSET Events,
                                         nw \in [Addrs -> Events \cup {Nothing}], sp \in SUBSET Addrs} :
     InSeries(r, old)}
\* A series is one when it is a member.
LEMMA SeriesOnes ==
  ASSUME NEW r, NEW old
  PROVE  InSeries(r, old) <=> r \in Series(old)
<1>1. SUFFICES ASSUME InSeries(r, old) PROVE r \in Series(old)
  BY DEF Series
<1>2. /\ r = Sr(r.st, r.rec, r.changed, r.newest, r.spoiled)
      /\ Sound(r.st) /\ Listed(r.rec, r.st.stored) /\ NewestTyped(r.newest) /\ r.spoiled \in SUBSET Addrs
      /\ r.changed \in SUBSET Events
  BY <1>1 DEF InSeries, Kept3
<1>3. PICK st, rec, changed, nw, sp :
        st = r.st /\ rec = r.rec /\ changed = r.changed /\ nw = r.newest /\ sp = r.spoiled
  OBVIOUS
<1>4. st \in SoundIndexes
  BY <1>2, <1>3, SoundOnes
<1>5. rec \in Seq(Ids) /\ nw \in [Addrs -> Events \cup {Nothing}]
  BY <1>2, <1>3 DEF Listed, NewestTyped
<1>6. r = Sr(st, rec, changed, nw, sp) /\ changed \in SUBSET Events /\ sp \in SUBSET Addrs
  BY ONLY <1>2, <1>3
<1>7. r \in {Sr(s, l, ch, n, p) : s \in SoundIndexes, l \in Seq(Ids), ch \in SUBSET Events,
                                 n \in [Addrs -> Events \cup {Nothing}], p \in SUBSET Addrs}
  BY ONLY <1>4, <1>5, <1>6
<1> QED
  BY <1>1, <1>7 DEF Series

\* hydrate()'s puts, one after the other.
PutsRun(acc, r, evs, old) ==
  /\ acc[0] = r
  /\ \A k \in 1..Len(evs) : acc[k] = PutOne(acc[k - 1], evs[k])
  /\ \A k \in 0..Len(evs) : acc[k] \in Series(old)
  /\ FoldLeft(PutOne, r, evs) = acc[Len(evs)]
\* The steps exist, and each leaves a series.
LEMMA PutsRuns ==
  ASSUME NEW old, old \in SUBSET Events, NEW r, r \in Series(old), NEW evs, evs \in Seq(Events)
  PROVE  \E acc : PutsRun(acc, r, evs, old)
<1> DEFINE n == Len(evs)
           D == 1..n
           V == Series(old)
           step == [p \in V \X D |-> PutOne(p[1], evs[p[2]])]
           pick == [s \in SUBSET D |-> Max(s)]
           iter == CHOOSE f : f = [s \in SUBSET D |-> IF s = {} THEN r
                                                      ELSE PutOne(f[s \ {Max(s)}], evs[Max(s)])]
           acc == [k \in 0..n |-> iter[1..k]]
<1>0. \A i \in D : evs[i] \in Events
  OBVIOUS
<1>1. n \in Nat /\ IsFiniteSet(D) /\ DOMAIN evs = D
  BY FS_Interval
<1>2. \A s \in SUBSET D : s # {} => pick[s] \in s /\ Max(s) \in s
  BY <1>1, MaxOfPrefix
<1>3. \A v \in V, ev \in Events : PutOne(v, ev) \in V
  BY PutOneIs, SeriesOnes
<1>4. step \in [V \X D -> V]
  <2> HIDE DEF D, V
  <2> QED
    BY <1>0, <1>3
<1>5. PICK f \in [SUBSET D -> V] : Folds(f, D, r, step, pick)
  <2> HIDE DEF D, step, pick
  <2> QED
    BY <1>1, <1>2, <1>4, FoldExists
<1>6. f = [s \in SUBSET D |-> IF s = {} THEN r ELSE PutOne(f[s \ {Max(s)}], evs[Max(s)])]
  <2>1. ASSUME NEW s \in SUBSET D, s # {} PROVE f[s] = PutOne(f[s \ {Max(s)}], evs[Max(s)])
    <3>1. s \ {Max(s)} \in SUBSET D /\ Max(s) \in D /\ pick[s] = Max(s)
      BY <1>2, <2>1
    <3>2. f[s \ {Max(s)}] \in V
      BY <1>5, <3>1
    <3>3. f[s] = step[<<f[s \ {Max(s)}], Max(s)>>]
      BY <1>5, <2>1, <3>1 DEF Folds
    <3> HIDE DEF D, V
    <3> QED
      BY <3>1, <3>2, <3>3
  <2>2. f[{}] = r
    BY <1>5 DEF Folds
  <2>3. f = [s \in SUBSET D |-> f[s]]
    BY <1>5
  <2> HIDE DEF D, V
  <2> QED
    BY <2>1, <2>2, <2>3
<1>7. iter = [s \in SUBSET D |-> IF s = {} THEN r ELSE PutOne(iter[s \ {Max(s)}], evs[Max(s)])]
  BY <1>6
<1>8. FoldLeft(PutOne, r, evs) = iter[D]
  BY <1>1 DEF FoldLeft, MapThenFoldSet
<1> HIDE DEF iter
<1>9. acc[0] = r
  <2>1. 1..0 = {} /\ iter[{}] = r
    BY <1>7
  <2> QED
    BY <1>1, <2>1
<1>10. ASSUME NEW k \in 1..n PROVE acc[k] = PutOne(acc[k - 1], evs[k])
  <2>1. 1..k \in SUBSET D /\ 1..k # {} /\ k - 1 \in 0..n /\ k \in 0..n
    BY ONLY <1>1, k \in 1..n
  <2>2. Max(1..k) = k /\ (1..k) \ {k} = 1..(k - 1)
    BY <1>1, MaxOfPrefix
  <2>3. iter[1..k] = PutOne(iter[(1..k) \ {Max(1..k)}], evs[Max(1..k)])
    BY <1>7, <2>1
  <2>4. iter[1..k] = PutOne(iter[1..(k - 1)], evs[k])
    BY <2>2, <2>3
  <2> QED
    BY <2>1, <2>4
<1>11. \A k \in 0..n : acc[k] \in V
  <2> DEFINE Good == {k \in 0..n : acc[k] \in V}
  <2> HIDE DEF acc
  <2>1. 0 \in Good
    BY <1>1, <1>9
  <2>2. ASSUME NEW k \in 1..n, k - 1 \in Good PROVE k \in Good
    <3>1. acc[k - 1] \in V /\ k \in 0..n
      BY <1>1, <2>2
    <3>2. evs[k] \in Events
      BY <1>0
    <3> HIDE DEF V
    <3> QED
      BY <1>3, <1>10, <3>1, <3>2
  <2> HIDE DEF Good
  <2>3. 0..n \subseteq Good
    BY <1>1, <2>1, <2>2, UpToInduction
  <2> QED
    BY <2>3 DEF Good
<1>12. acc[n] = iter[D]
  BY <1>1
<1> HIDE DEF acc
<1>13. PutsRun(acc, r, evs, old)
  BY <1>8, <1>9, <1>10, <1>11, <1>12 DEF PutsRun
<1> QED
  BY <1>13

-----------------------------------------------------------------------------
(* The watches.                                                              *)

\* What an index shows to a watch.
Shows(st, w) ==
  CASE Target[w].kind = "event" -> IdsOf({Get(st, Target[w].key)} \ {Nothing})
    [] Target[w].kind = "replaceable" -> IdsOf({GetByAddress(st, Target[w].key)} \ {Nothing})
    [] Target[w].kind = "query" -> IdsOf(Query(st, Matching(w), Target[w].limit))
\* compute() is what the index shows.
LEMMA FreshIs == ASSUME NEW w PROVE Fresh(w) = Shows(ix, w)
BY DEF Fresh, Shows

\* It depends on the stored events that match.
LEMMA ShowsSame ==
  ASSUME NEW s, Sound(s), NEW t, Sound(t), NEW w, w \in Watches,
         \A x \in Matching(w) : x \in s.stored <=> x \in t.stored
  PROVE  Shows(s, w) = Shows(t, w)
<1>1. /\ s.stored \in SUBSET Events /\ t.stored \in SUBSET Events
      /\ \A x \in s.stored : ~Covers(s.del, x) /\ x.id \notin s.del.ids
      /\ \A x \in t.stored : ~Covers(t.del, x) /\ x.id \notin t.del.ids
  BY DEF Sound, Uncovered, Covers
<1>2. Target[w].kind \in {"event", "replaceable", "query"}
  BY ReactiveAssumption
<1>3. CASE Target[w].kind = "event"
  <2>1. PICK i : i = Target[w].key
    OBVIOUS
  <2>2. Matching(w) = {x \in Events : x.id = i}
    BY <1>3, <2>1 DEF Matching
  <2>3. Get(s, i) = ById(s.stored, i) /\ Get(t, i) = ById(t.stored, i)
    BY <1>1, ByIdIs DEF Get
  <2>4. ById(s.stored, i) = ById(t.stored, i)
    BY <1>1, <2>2, ByIdIs
  <2> QED
    BY <1>3, <2>1, <2>3, <2>4 DEF Shows
<1>4. CASE Target[w].kind = "replaceable"
  <2>1. PICK c : c = Target[w].key
    OBVIOUS
  <2>2. Matching(w) = ByAddr(Events, c)
    BY <1>4, <2>1 DEF Matching
  <2>3. ByAddr(s.stored, c) = ByAddr(t.stored, c)
    BY <1>1, <2>2 DEF ByAddr
  <2>4. PICK ev : ev = Current(s, c) /\ ev = Current(t, c)
    BY <2>3 DEF Current
  <2>5. ev = Nothing \/ (ev \in s.stored /\ ev \in t.stored)
    BY <2>3, <2>4 DEF Current, ByAddr
  <2>6. GetByAddress(s, c) = ev /\ GetByAddress(t, c) = ev
    BY <1>1, <2>4, <2>5 DEF GetByAddress
  <2> QED
    BY <1>4, <2>1, <2>6 DEF Shows
<1>5. CASE Target[w].kind = "query"
  <2>1. PICK m : m = Matching(w)
    OBVIOUS
  <2>2. Visible(s) = s.stored /\ Visible(t) = t.stored
    BY <1>1 DEF Visible
  <2>3. Visible(s) \cap m = Visible(t) \cap m
    BY <2>1, <2>2
  <2>4. Query(s, m, Target[w].limit) = Query(t, m, Target[w].limit)
    BY <2>3 DEF Query
  <2> QED
    BY <1>5, <2>1, <2>4 DEF Shows
<1> QED
  BY <1>2, <1>3, <1>4, <1>5

-----------------------------------------------------------------------------
(* The eviction pass.                                                        *)

\* The smaller of two integers.
LEMMA SmallerIs ==
  ASSUME NEW x \in Int, NEW y \in Int
  PROVE  Min({x, y}) = IF x <= y THEN x ELSE y
<1> DEFINE z == IF x <= y THEN x ELSE y
<1>1. z \in {x, y} /\ \A w \in {x, y} : z <= w
  OBVIOUS
<1>2. \A w \in {x, y} : (\A v \in {x, y} : w <= v) => w = z
  OBVIOUS
<1> HIDE DEF z
<1>3. Min({x, y}) = z
  BY <1>1, <1>2, Zenon DEF Min
<1> QED
  BY <1>3 DEF z

\* The first k of a list without repetition are k.
LEMMA FirstAre ==
  ASSUME NEW may, may \in Seq(Ids), IsInjective(may), NEW k \in 0..Len(may), NEW u, u = SubSeq(may, 1, k)
  PROVE  /\ u \in Seq(Ids) /\ ToSet(u) \subseteq ToSet(may)
         /\ IsFiniteSet(ToSet(u)) /\ Cardinality(ToSet(u)) = k
         /\ k = Len(may) => ToSet(u) = ToSet(may)
<1>1. /\ u \in Seq(Ids) /\ Len(u) = k /\ DOMAIN u = 1..k /\ DOMAIN may = 1..Len(may) /\ k \in Nat
      /\ \A i \in 1..k : u[i] = may[i] /\ i \in 1..Len(may)
  BY SMTT(30)
<1>2. ToSet(u) \subseteq ToSet(may) /\ (k = Len(may) => ToSet(u) = ToSet(may))
  BY <1>1 DEF ToSet
<1>3. \A i, j \in 1..k : u[i] = u[j] => i = j
  BY <1>1 DEF IsInjective
<1>4. PICK f : f = [i \in 1..k |-> u[i]]
  OBVIOUS
<1>5. f \in Surjection(1..k, ToSet(u))
  BY <1>1, <1>4 DEF Surjection, ToSet
<1>6. \A i, j \in 1..k : f[i] = f[j] => i = j
  BY <1>3, <1>4
<1>7. f \in Injection(1..k, ToSet(u))
  BY <1>4, <1>5, <1>6 DEF Surjection, Injection, IsInjective
<1>8. IsFiniteSet(1..k) /\ Cardinality(1..k) = k
  BY <1>1, FS_Interval
<1>9. IsFiniteSet(ToSet(u)) /\ Cardinality(ToSet(u)) = k
  BY <1>5, <1>7, <1>8, FS_Surjection, FS_Injection
<1> QED
  BY <1>1, <1>2, <1>9, ZenonT(30)

\* The pass leaves no more than the cap, or what no watch shows is gone.
LEMMA EvictIfNeededIs ==
  ASSUME NEW st, Sound(st), NEW rec, Listed(rec, st.stored), NEW protected, NEW u, u = EvictIfNeeded(st, rec, protected)
  PROVE  /\ Sound(u)
         /\ \E gone : EvictsTo(u, st, gone)
         /\ Cardinality(u.stored) <= MaxEvents \/ IdsOf(u.stored) \subseteq Pinned \cup protected
<1>1. PICK S : S = ToSet(rec) \ (Pinned \cup protected)
  OBVIOUS
<1>2. PICK may : may = Only(rec, S)
  OBVIOUS
<1>3. rec \in Seq(Ids) /\ IsInjective(rec) /\ ToSet(rec) = IdsOf(st.stored)
  BY DEF Listed
<1>4. may \in Seq(Ids) /\ ToSet(may) = ToSet(rec) \cap S /\ IsInjective(may)
  BY ONLY <1>2, <1>3, OnlyIds
<1>5. PICK n \in Nat : n = Len(may)
  BY <1>4
<1>6. st.stored \in SUBSET Events
  BY DEF Sound
<1>7. PICK total \in Nat : total = Cardinality(st.stored) /\ total = Cardinality(IdsOf(st.stored)) /\ IsFiniteSet(IdsOf(st.stored))
  BY <1>6, IdsFinite, FS_CardinalityType
<1>8. PICK over \in Nat : over = Max({0, total - MaxEvents}) /\ total - over <= MaxEvents
  <2>1. PICK d \in Int : d = total - MaxEvents
    BY ReactiveAssumption
  <2>2. Max({0, d}) = IF 0 >= d THEN 0 ELSE d
    BY LargerIs
  <2> QED
    BY <2>1, <2>2, ReactiveAssumption
<1>9. PICK k \in 0..n : k = Min({over, n}) /\ (k = over \/ k = n)
  <2>1. Min({over, n}) = IF over <= n THEN over ELSE n
    BY SmallerIs
  <2> QED
    BY <2>1
<1>10. PICK ids : ids = SubSeq(may, 1, k)
  OBVIOUS
<1>11. /\ ids \in Seq(Ids) /\ ToSet(ids) \subseteq ToSet(may)
       /\ IsFiniteSet(ToSet(ids)) /\ Cardinality(ToSet(ids)) = k
       /\ k = n => ToSet(ids) = ToSet(may)
  BY <1>4, <1>5, <1>10, FirstAre
<1>12. u = Evict(st, ids)
  BY <1>1, <1>2, <1>5, <1>7, <1>8, <1>9, <1>10 DEF EvictIfNeeded
<1>13. Sound(u) /\ EvictsTo(u, st, ToSet(ids))
  BY <1>11, <1>12, EvictIs
<1>14. u.stored = Sans(st.stored, ToSet(ids)) /\ u.stored \in SUBSET Events
  BY <1>13 DEF EvictsTo, Sound
<1>15. IdsOf(u.stored) = IdsOf(st.stored) \ ToSet(ids)
  BY <1>14 DEF Sans, IdsOf
<1>16. CASE k = over
  <2>1. IdsOf(st.stored) \cap ToSet(ids) = ToSet(ids)
    BY <1>3, <1>4, <1>11
  <2>2a. PICK all, few : all = IdsOf(st.stored) /\ few = ToSet(ids)
    OBVIOUS
  <2>2b. Cardinality(all \ few) = Cardinality(all) - Cardinality(all \cap few)
    BY <1>7, <2>2a, FS_Difference
  <2>2. Cardinality(IdsOf(st.stored) \ ToSet(ids)) = total - k
    BY <1>7, <1>11, <2>1, <2>2a, <2>2b
  <2>3. Cardinality(u.stored) = total - k
    BY <1>14, <1>15, <2>2, IdsFinite
  <2> QED
    BY <1>8, <1>13, <1>16, <2>3
<1>17. CASE k = n
  <2>1. IdsOf(u.stored) \subseteq Pinned \cup protected
    BY <1>1, <1>3, <1>4, <1>11, <1>15, <1>17
  <2> QED
    BY <1>13, <2>1
<1> QED
  BY <1>9, <1>16, <1>17

\* What a series ends with.
Written(r, protected) ==
  /\ Kept3(ix, recency, newest, spoiled)' /\ ix'.stored \subseteq r.st.stored
  /\ Cardinality(ix'.stored) <= MaxEvents \/ IdsOf(ix'.stored) \subseteq Pinned \cup protected
  /\ \E changed \in SUBSET Events : /\ Mark(changed)
                                    /\ \A x \in Events : x \notin changed => (x \in ix'.stored <=> x \in ix.stored)
  /\ UNCHANGED <<batch, told>>
\* It is what a write leaves.
LEMMA WriteIs ==
  ASSUME NEW r, InSeries(r, ix.stored), NEW protected, Write(r, protected)
  PROVE  Written(r, protected)
<1>1. PICK st, rec, changed, nw, sp :
        /\ r.st = st /\ r.rec = rec /\ r.changed = changed /\ r.newest = nw /\ r.spoiled = sp
        /\ Sound(st) /\ Listed(rec, st.stored) /\ NewestTyped(nw) /\ sp \in SUBSET Addrs
        /\ Cardinality(Addressed) <= MaxWatermarks => NewestKept(st, nw, sp)
        /\ changed \in SUBSET Events
        /\ \A x \in Events : x \notin changed => (x \in st.stored <=> x \in ix.stored)
  BY DEF InSeries, Kept3
<1>2. PICK u : u = EvictIfNeeded(st, rec, protected)
  OBVIOUS
<1>3. /\ Sound(u)
      /\ \E gone : EvictsTo(u, st, gone)
      /\ Cardinality(u.stored) <= MaxEvents \/ IdsOf(u.stored) \subseteq Pinned \cup protected
  BY <1>1, <1>2, EvictIfNeededIs
<1>4. /\ ix' = u /\ recency' = Only(rec, IdsOf(u.stored)) /\ newest' = nw /\ spoiled' = sp
      /\ Mark(changed \cup (st.stored \ u.stored)) /\ UNCHANGED <<batch, told>>
  BY <1>1, <1>2 DEF Write
<1>5. u.stored \subseteq st.stored /\ st.stored \in SUBSET Events
  BY <1>1, <1>3 DEF EvictsTo, Sans, Sound
<1>6. Listed(recency', u.stored)
  BY <1>1, <1>4, <1>5, ListedLess
<1>7. Cardinality(Addressed) <= MaxWatermarks => NewestKept(u, nw, sp)
  BY <1>1, <1>3, EvictKeepsNewest
<1>8. Kept3(u, recency', nw, sp)
  BY <1>1, <1>3, <1>6, <1>7 DEF Kept3
<1>9. Kept3(ix, recency, newest, spoiled)'
  BY <1>4, <1>8 DEF Kept3
<1>10. PICK ch : ch = changed \cup (st.stored \ u.stored)
  OBVIOUS
<1>11. ch \in SUBSET Events /\ Mark(ch) /\ \A x \in Events : x \notin ch => (x \in u.stored <=> x \in ix.stored)
  BY <1>1, <1>4, <1>5, <1>10
<1> QED
  BY <1>1, <1>3, <1>4, <1>5, <1>9, <1>11 DEF Written

-----------------------------------------------------------------------------
(* The inductive invariant.                                                  *)

Watching == [made : BOOLEAN, snap : SUBSET Ids, behind : BOOLEAN, dirty : BOOLEAN, subs : BOOLEAN,
             reg : BOOLEAN, removing : BOOLEAN, tasks : Nat, pins : SUBSET Ids]

\* One watch.  A subscriber keeps it registered; its snapshot is what it shows
\* unless a write came since, which only one that is dirty must know when it has
\* a subscriber; and a subscriber that saw something else is going to be called.
Awake(o, i, w, tl, waits) ==
  /\ o.subs => o.made /\ o.reg
  /\ o.made /\ ~o.behind => o.snap = Shows(i, w)
  /\ o.made /\ o.subs /\ ~o.dirty => o.snap = Shows(i, w)
  /\ o.subs => Shows(i, w) = tl \/ w \in waits

WatchTypes == /\ watch \in [Watches -> Watching] /\ told \in [Watches -> SUBSET Ids]
              /\ dirty \subseteq Watches /\ batch \subseteq Watches /\ flush \in BOOLEAN
WatchInv == /\ WatchTypes
            /\ \A w \in Watches : Awake(watch[w], ix, w, told[w], dirty \cup batch)
            /\ dirty # {} => flush
ReactiveInv == Kept3(ix, recency, newest, spoiled) /\ WatchInv

\* It holds at first.
LEMMA EmptySound == Sound(EmptyIndex) /\ EmptyIndex.stored = {} /\ EmptyIndex.marks = <<>>
<1>1. PICK none : none = {}
  OBVIOUS
<1>2. PICK e : e = <<>> /\ e \in Seq(AllMarks) /\ e \in Seq(Tombs) /\ ToSet(e) = {} /\ IsInjective(e)
  <2>1. PICK e : e = <<>>
    OBVIOUS
  <2>2. DOMAIN e = {} /\ \A T : e \in Seq(T)
    BY <2>1
  <2>3. IsInjective(e) /\ ToSet(e) = {}
    BY ONLY <2>2 DEF IsInjective, ToSet
  <2>4. e \in Seq(AllMarks) /\ e \in Seq(Tombs)
    BY ONLY <2>2
  <2> QED
    BY ONLY <2>1, <2>3, <2>4
<1>3. NoDeletion \in Deletions
  <2>1. <<>> \in Partial(Ids, Authors) /\ <<>> \in Partial(Addrs, Nat)
    BY DEF Partial
  <2> QED
    BY <2>1 DEF NoDeletion, Deletions
<1>4. OnePerAddress(none) /\ Uncovered(none, NoDeletion) /\ Distinct(e)
  BY <1>1, <1>2 DEF OnePerAddress, Uncovered, Distinct
<1>5. EmptyIndex = Ix(none, NoDeletion, e, e)
  BY <1>1, <1>2 DEF EmptyIndex, Ix
<1>6. none \in SUBSET Events
  BY <1>1
<1>8. PICK t : t = Ix(none, NoDeletion, e, e)
  OBVIOUS
<1>9. t.stored = none /\ t.del = NoDeletion /\ t.marks = e /\ t.fifo = e
  BY <1>8, IxParts
<1>7. Sound(t) /\ t.stored = none /\ t.marks = e
  BY <1>2, <1>3, <1>4, <1>6, <1>8, <1>9 DEF Sound
<1> QED
  BY <1>1, <1>2, <1>5, <1>7, <1>8
\* An empty index has all of it.
LEMMA EmptyKept == Kept3(EmptyIndex, <<>>, [c \in Addrs |-> Nothing], {})
<1>1. Listed(<<>>, {})
  BY DEF Listed, IsInjective, ToSet, IdsOf
<1>2. NewestTyped([c \in Addrs |-> Nothing])
  BY DEF NewestTyped
<1>3. NewestKept(EmptyIndex, [c \in Addrs |-> Nothing], {})
  BY EmptySound DEF NewestKept
<1> QED
  BY <1>1, <1>2, <1>3, EmptySound DEF Kept3
\* The store starts so.
LEMMA ReactiveStarts == ASSUME Init PROVE ReactiveInv
<1>1. Kept3(ix, recency, newest, spoiled)
  BY EmptyKept DEF Init
<1>2. \A w \in Watches : watch[w].made = FALSE /\ watch[w].subs = FALSE
  BY DEF Init, NewWatch
<1>3. WatchTypes
  BY DEF Init, NewWatch, WatchTypes, Watching
<1> QED
  BY <1>1, <1>2, <1>3 DEF ReactiveInv, WatchInv, Awake, Init

\* What is shown are ids.
LEMMA ShowsTyped ==
  ASSUME NEW i, Sound(i), NEW w, w \in Watches
  PROVE  Shows(i, w) \in SUBSET Ids
<1>1. i.stored \in SUBSET Events
  BY DEF Sound
<1>2. \A evs \in SUBSET Events : IdsOf(evs) \in SUBSET Ids
  BY DEF IdsOf, Ids
<1>3. CASE Target[w].kind = "event"
  <2>1. PICK ev : ev = Get(i, Target[w].key)
    OBVIOUS
  <2>2. ev \in Events \cup {Nothing}
    BY <1>1, <2>1 DEF Get, ById
  <2>3. PICK evs : evs = {ev} \ {Nothing} /\ evs \in SUBSET Events
    BY <2>2
  <2> QED
    BY <1>2, <1>3, <2>1, <2>3 DEF Shows
<1>4. CASE Target[w].kind = "replaceable"
  <2>1. PICK ev : ev = GetByAddress(i, Target[w].key)
    OBVIOUS
  <2>2. ev \in Events \cup {Nothing}
    BY <1>1, <2>1 DEF GetByAddress, Current, ByAddr
  <2>3. PICK evs : evs = {ev} \ {Nothing} /\ evs \in SUBSET Events
    BY <2>2
  <2> QED
    BY <1>2, <1>4, <2>1, <2>3 DEF Shows
<1>5. CASE Target[w].kind = "query"
  <2>1. PICK evs : evs = Query(i, Matching(w), Target[w].limit)
    OBVIOUS
  <2>2. evs \in SUBSET Events
    BY <1>1, <2>1 DEF Query, Newest, Visible
  <2> QED
    BY <1>2, <1>5, <2>1, <2>2 DEF Shows
<1> QED
  BY <1>3, <1>4, <1>5, ReactiveAssumption

\* A write that marks what it changes keeps it.
LEMMA MarkKeeps ==
  ASSUME WatchInv, Sound(ix), Sound(ix)', NEW changed \in SUBSET Events, Mark(changed),
         \A x \in Events : x \notin changed => (x \in ix'.stored <=> x \in ix.stored),
         UNCHANGED <<batch, told>>
  PROVE  WatchInv'
<1>1. PICK hit : hit = Invalidated(changed)
  OBVIOUS
<1>2. /\ watch' = [w \in Watches |-> [watch[w] EXCEPT !.behind = @ \/ changed # {},
                                                      !.dirty = @ \/ w \in hit]]
      /\ dirty' = dirty \cup hit /\ flush' = (flush \/ hit # {})
  BY <1>1 DEF Mark
<1>3. hit \subseteq Watches
  BY <1>1 DEF Invalidated
<1>4. WatchTypes'
  BY <1>2, <1>3, ZenonT(30) DEF WatchInv, WatchTypes, Watching
<1>5. ASSUME NEW w \in Watches PROVE Awake(watch'[w], ix', w, told'[w], dirty' \cup batch')
  <2>1. /\ watch'[w].made = watch[w].made /\ watch'[w].snap = watch[w].snap /\ watch'[w].subs = watch[w].subs
        /\ watch'[w].reg = watch[w].reg
        /\ watch'[w].behind = (watch[w].behind \/ changed # {})
        /\ watch'[w].dirty = (watch[w].dirty \/ w \in hit)
    BY <1>2 DEF WatchInv, WatchTypes, Watching
  <2>2. Awake(watch[w], ix, w, told[w], dirty \cup batch)
    BY DEF WatchInv
  <2>3. Matching(w) \subseteq Events
    BY ReactiveAssumption DEF Matching, ByAddr
  <2>4. (\A ev \in changed : ev \notin Matching(w)) => Shows(ix', w) = Shows(ix, w)
    <3> SUFFICES ASSUME \A ev \in changed : ev \notin Matching(w) PROVE Shows(ix', w) = Shows(ix, w)
      OBVIOUS
    <3>1. \A x \in Matching(w) : x \in ix'.stored <=> x \in ix.stored
      BY <2>3
    <3>2. PICK s : s = ix' /\ Sound(s)
      BY DEF Sound
    <3> QED
      BY <3>1, <3>2, ShowsSame
  <2>5. watch[w].reg /\ w \notin hit => Shows(ix', w) = Shows(ix, w)
    BY <1>1, <2>4 DEF Invalidated, Concerns
  <2>6. changed = {} => Shows(ix', w) = Shows(ix, w)
    BY <2>4
  <2> QED
    BY <1>2, <2>1, <2>2, <2>5, <2>6 DEF Awake
<1>6. dirty' # {} => flush'
  BY <1>2 DEF WatchInv
<1> QED
  BY <1>4, <1>5, <1>6 DEF WatchInv

\* The series that have written nothing yet.
LEMMA NowIs == ASSUME Kept3(ix, recency, newest, spoiled) PROVE InSeries(Now, ix.stored)
<1>1. PICK none : none = {}
  OBVIOUS
<1>2. Now = Sr(ix, recency, none, newest, spoiled)
  BY <1>1 DEF Now, Sr
<1>3. /\ Now.st = ix /\ Now.rec = recency /\ Now.changed = none /\ Now.newest = newest
      /\ Now.spoiled = spoiled
  BY ONLY <1>2 DEF Sr
<1> QED
  BY <1>1, <1>2, <1>3 DEF InSeries

\* What a write keeps.
LEMMA WrittenKeeps ==
  ASSUME ReactiveInv, NEW r, NEW protected, Written(r, protected)
  PROVE  ReactiveInv'
<1>1. Sound(ix) /\ Sound(ix)' /\ Kept3(ix, recency, newest, spoiled)'
  BY DEF ReactiveInv, Kept3, Written
<1>2. PICK changed \in SUBSET Events :
        Mark(changed) /\ \A x \in Events : x \notin changed => (x \in ix'.stored <=> x \in ix.stored)
  BY DEF Written
<1>3. UNCHANGED <<batch, told>> /\ WatchInv
  BY DEF Written, ReactiveInv
<1>4. WatchInv'
  BY <1>1, <1>2, <1>3, MarkKeeps
<1> QED
  BY <1>1, <1>4 DEF ReactiveInv

\* Add() and hydrate() are writes; what they bring is bounded.
Bounded == LET ins == ix'.stored \ ix.stored
           IN ins # {} => \/ Cardinality(ix'.stored) <= MaxEvents
                          \/ IdsOf(ix'.stored \ ins) \subseteq Pinned
\* add().
LEMMA AddKeeps ==
  ASSUME ReactiveInv, NEW ev \in Events, Add(ev)
  PROVE  ReactiveInv' /\ Bounded
<1>1. PICK r : r = PutOne(Now, ev)
  OBVIOUS
<1>2. InSeries(Now, ix.stored) /\ ix.stored \in SUBSET Events
  BY NowIs DEF ReactiveInv, Kept3, Sound
<1>3. InSeries(r, ix.stored) /\ Brings(r.st, Now.st, ev) /\ Now.st = ix
  BY <1>1, <1>2, PutOneIs DEF Now
<1>4. PICK protected : protected = {ev.id}
  OBVIOUS
<1>5. Write(r, protected)
  BY <1>1, <1>4 DEF Add
<1>6. Written(r, protected)
  BY <1>3, <1>5, WriteIs
<1>7. Bounded
  <2>1. SUFFICES ASSUME ix'.stored \ ix.stored # {}, IdsOf(ix'.stored) \subseteq Pinned \cup {ev.id}
                 PROVE  IdsOf(ix'.stored \ (ix'.stored \ ix.stored)) \subseteq Pinned
    BY <1>4, <1>6 DEF Bounded, Written
  <2>2. ix'.stored \subseteq r.st.stored /\ ix'.stored \in SUBSET Events
    BY <1>6 DEF Written, Kept3, Sound
  <2>3. ev \notin ix.stored
    BY <1>3, <2>1, <2>2 DEF Brings
  <2>4. \A x \in ix.stored : x.id # ev.id
    BY <1>2, <2>3, EventsAssumption
  <2> QED
    BY <2>1, <2>4 DEF IdsOf
<1> QED
  BY <1>6, <1>7, WrittenKeeps
\* hydrate().
LEMMA HydrateKeeps ==
  ASSUME ReactiveInv, NEW evs \in Hydrations, Hydrate(evs)
  PROVE  ReactiveInv' /\ Bounded
<1>1. PICK r : r = FoldLeft(PutOne, Now, evs)
  OBVIOUS
<1>2. InSeries(Now, ix.stored) /\ ix.stored \in SUBSET Events
  BY NowIs DEF ReactiveInv, Kept3, Sound
<1>3. evs \in Seq(Events)
  BY ReactiveAssumption
<1>4. PICK acc : PutsRun(acc, Now, evs, ix.stored)
  BY <1>2, <1>3, PutsRuns, SeriesOnes
<1>5. InSeries(r, ix.stored)
  BY <1>1, <1>3, <1>4, SeriesOnes DEF PutsRun
<1>6. PICK protected : protected = {}
  OBVIOUS
<1>7. Write(r, protected)
  BY <1>1, <1>6 DEF Hydrate
<1>8. Written(r, protected)
  BY <1>5, <1>7, WriteIs
<1>9. Bounded
  BY <1>6, <1>8 DEF Bounded, Written, IdsOf
<1> QED
  BY <1>8, <1>9, WrittenKeeps

\* remove() brings nothing.
LEMMA RemoveKeeps ==
  ASSUME ReactiveInv, NEW ids \in Removals, RemoveAll(ids)
  PROVE  ReactiveInv' /\ Bounded
<1>1. /\ Sound(ix) /\ Listed(recency, ix.stored) /\ NewestTyped(newest) /\ spoiled \in SUBSET Addrs
      /\ Cardinality(Addressed) <= MaxWatermarks => NewestKept(ix, newest, spoiled)
      /\ WatchInv /\ ix.stored \in SUBSET Events /\ ids \in SUBSET Ids
  BY ReactiveAssumption DEF ReactiveInv, Kept3, Sound
<1>2. PICK st : st = RemoveIds(ix, ids) /\ Sound(st) /\ st.stored = Sans(ix.stored, ids)
  BY <1>1, RemoveIdsIs
<1>3. PICK nw : nw = [c \in Addrs |-> IF newest[c] # Nothing /\ newest[c].id \in ids THEN Nothing ELSE newest[c]]
  OBVIOUS
<1>4. /\ ix' = st /\ recency' = Only(recency, IdsOf(st.stored)) /\ newest' = nw /\ spoiled' = spoiled
      /\ Mark(ix.stored \ st.stored) /\ UNCHANGED <<batch, told>>
  BY <1>2, <1>3 DEF RemoveAll
<1>5. st.stored \subseteq ix.stored
  BY <1>2 DEF Sans
<1>6. Listed(recency', st.stored)
  BY <1>1, <1>4, <1>5, ListedLess
<1>7. NewestTyped(nw)
  BY <1>1, <1>3 DEF NewestTyped
<1>8. Cardinality(Addressed) <= MaxWatermarks => NewestKept(st, nw, spoiled)
  BY <1>1, <1>2, <1>3, RemovalKeepsNewest
<1>9. Kept3(ix, recency, newest, spoiled)'
  BY <1>1, <1>2, <1>4, <1>6, <1>7, <1>8 DEF Kept3
<1>10. PICK changed \in SUBSET Events : changed = ix.stored \ st.stored
  BY <1>1
<1>11. WatchInv'
  <2>1. Sound(ix)' /\ Mark(changed) /\ \A x \in Events : x \notin changed => (x \in ix'.stored <=> x \in ix.stored)
    BY <1>2, <1>4, <1>5, <1>9, <1>10 DEF Kept3
  <2> QED
    BY <1>1, <1>4, <2>1, MarkKeeps
<1>12. Bounded
  BY <1>4, <1>5 DEF Bounded
<1> QED
  BY <1>9, <1>11, <1>12 DEF ReactiveInv

\* clear() leaves nothing to show.
LEMMA ClearKeeps ==
  ASSUME ReactiveInv, Clear
  PROVE  ReactiveInv' /\ Bounded
<1>1. /\ ix' = EmptyIndex /\ recency' = <<>> /\ newest' = [c \in Addrs |-> Nothing] /\ spoiled' = {}
      /\ flush' = TRUE /\ UNCHANGED <<batch, told>>
      /\ watch' = [w \in Watches |-> [watch[w] EXCEPT !.behind = TRUE, !.dirty = @ \/ w \in {v \in Watches : watch[v].reg}]]
      /\ dirty' = dirty \cup {v \in Watches : watch[v].reg}
  BY DEF Clear
<1>2. Kept3(ix, recency, newest, spoiled)'
  BY <1>1, EmptyKept DEF Kept3
<1>3. WatchTypes'
  BY <1>1, ZenonT(30) DEF ReactiveInv, WatchInv, WatchTypes, Watching
<1>4. ASSUME NEW w \in Watches PROVE Awake(watch'[w], ix', w, told'[w], dirty' \cup batch')
  <2>1. /\ watch'[w].made = watch[w].made /\ watch'[w].snap = watch[w].snap /\ watch'[w].subs = watch[w].subs
        /\ watch'[w].reg = watch[w].reg /\ watch'[w].behind = TRUE
        /\ watch'[w].dirty = (watch[w].dirty \/ watch[w].reg)
    BY <1>1 DEF ReactiveInv, WatchInv, WatchTypes, Watching
  <2>2. Awake(watch[w], ix, w, told[w], dirty \cup batch)
    BY DEF ReactiveInv, WatchInv
  <2> QED
    BY <1>1, <2>1, <2>2 DEF Awake
<1>5. Bounded
  BY <1>1, EmptySound DEF Bounded
<1> QED
  BY <1>1, <1>2, <1>3, <1>4, <1>5 DEF ReactiveInv, WatchInv

\* What only touches ids.
LEMMA TouchKeeps ==
  ASSUME Kept3(ix, recency, newest, spoiled), NEW evs \in SUBSET ix.stored, recency' = Touched(recency, evs),
         UNCHANGED <<ix, newest, spoiled>>
  PROVE  Kept3(ix, recency, newest, spoiled)' /\ Bounded
<1>1. ix.stored \in SUBSET Events /\ Listed(recency, ix.stored)
  BY DEF Kept3, Sound
<1>2. Listed(recency', ix.stored)
  BY <1>1, TouchedIs
<1>3. Bounded
  BY DEF Bounded
<1> QED
  BY <1>2, <1>3 DEF Kept3

\* The calls of the application and of the microtasks, a watch at a time.
LEMMA CallKeeps ==
  ASSUME ReactiveInv, NEW w \in Watches,
         MakeWatch(w) \/ Subscribe(w) \/ Unsubscribe(w) \/ Unregister(w) \/ GetSnapshot(w) \/ Notify(w)
  PROVE  ReactiveInv' /\ Bounded
<1>0. /\ Kept3(ix, recency, newest, spoiled) /\ WatchInv /\ WatchTypes
      /\ \A v \in Watches : Awake(watch[v], ix, v, told[v], dirty \cup batch)
      /\ Sound(ix)
  BY DEF ReactiveInv, WatchInv, Kept3
<1>1. PICK shown : shown = Shows(ix, w) /\ Fresh(w) = shown /\ shown \in SUBSET Ids
  BY <1>0, FreshIs, ShowsTyped
<1>2. Kept3(ix, recency, newest, spoiled)' /\ Bounded
  <2>1. CASE UNCHANGED <<ix, recency, newest, spoiled>>
    BY <1>0, <2>1 DEF Kept3, Bounded
  <2>2. CASE Compute(w) /\ UNCHANGED <<ix, newest, spoiled>>
    <3>1. PICK evs \in SUBSET ix.stored : evs = {ev \in ix.stored : ev.id \in Fresh(w)}
      OBVIOUS
    <3> QED
      BY <1>0, <2>2, <3>1, TouchKeeps DEF Compute
  <2> QED
    BY <2>1, <2>2 DEF MakeWatch, Subscribe, Unsubscribe, Unregister, GetSnapshot, Notify
\* It is enough to look at the watch itself.
<1>3. ASSUME UNCHANGED ix, NEW o \in Watching, watch' = [watch EXCEPT ![w] = o], dirty' = dirty,
             batch' \subseteq Watches, batch' = batch \/ batch' = batch \ {w}, flush' = flush,
             NEW tl \in SUBSET Ids, told' = [told EXCEPT ![w] = tl],
             Awake(o, ix, w, tl, dirty \cup batch')
      PROVE  WatchInv'
  <2>1. WatchTypes'
    BY <1>0, <1>3 DEF WatchTypes
  <2>2. ASSUME NEW v \in Watches PROVE Awake(watch'[v], ix', v, told'[v], dirty' \cup batch')
    <3>1. CASE v = w
      BY <1>0, <1>3, <3>1 DEF WatchTypes
    <3>2. CASE v # w
      <4>1. watch'[v] = watch[v] /\ told'[v] = told[v] /\ (v \in dirty \cup batch => v \in dirty' \cup batch')
        BY <1>0, <1>3, <3>2 DEF WatchTypes
      <4> QED
        BY <1>0, <1>3, <4>1 DEF Awake
    <3> QED
      BY <3>1, <3>2
  <2>3. dirty' # {} => flush'
    BY <1>0, <1>3 DEF WatchInv
  <2> QED
    BY <2>1, <2>2, <2>3 DEF WatchInv
<1>4. Awake(watch[w], ix, w, told[w], dirty \cup batch) /\ watch[w] \in Watching
  BY <1>0 DEF WatchTypes
<1>5. ASSUME MakeWatch(w) PROVE WatchInv'
  <2>1. PICK o : o = [watch[w] EXCEPT !.made = TRUE, !.snap = Fresh(w), !.behind = FALSE]
    OBVIOUS
  <2>2. o \in Watching /\ watch' = [watch EXCEPT ![w] = o]
    BY <1>0, <1>1, <1>4, <1>5, <2>1 DEF MakeWatch, Watching, WatchTypes
  <2>3. /\ o.made = TRUE /\ o.snap = Fresh(w) /\ o.behind = FALSE
        /\ o.dirty = watch[w].dirty /\ o.subs = watch[w].subs /\ o.reg = watch[w].reg
    BY <1>4, <2>1 DEF Watching
  <2>4. Awake(o, ix, w, told[w], dirty \cup batch)
    BY <1>0, <1>1, <1>4, <1>5, <2>3 DEF MakeWatch, Awake
  <2>5. UNCHANGED <<ix, dirty, batch, flush>> /\ told[w] \in SUBSET Ids /\ told' = [told EXCEPT ![w] = told[w]]
    BY <1>0, <1>1, <1>5 DEF MakeWatch, WatchTypes
  <2> QED
    BY <1>0, <1>3, <2>2, <2>4, <2>5 DEF WatchTypes
<1>6. ASSUME Subscribe(w) PROVE WatchInv'
  <2>1. PICK o : o = [watch[w] EXCEPT !.subs = TRUE, !.removing = FALSE, !.reg = TRUE,
                                       !.dirty = CaughtUp(w),
                                       !.pins = IF watch[w].reg THEN @ ELSE watch[w].snap]
    OBVIOUS
  <2>2a. watch' = [watch EXCEPT ![w] = o]
    BY <1>0, <1>6, <2>1 DEF Subscribe, WatchTypes
  <2>2b. o \in Watching
    BY <1>1, <1>4, <2>1 DEF Watching, CaughtUp
  <2>2. o \in Watching /\ watch' = [watch EXCEPT ![w] = o]
    BY <2>2a, <2>2b
  <2>3. /\ o.made = watch[w].made /\ o.snap = watch[w].snap /\ o.behind = watch[w].behind
        /\ o.dirty = CaughtUp(w) /\ o.subs = TRUE /\ o.reg = TRUE
    BY <1>4, <2>1 DEF Watching
  <2>4. Awake(o, ix, w, shown, dirty \cup batch)
    BY <1>0, <1>1, <1>4, <1>6, <2>3 DEF Subscribe, Awake, CaughtUp
  <2>5. UNCHANGED <<ix, dirty, batch, flush>> /\ shown \in SUBSET Ids /\ told' = [told EXCEPT ![w] = shown]
    BY <1>0, <1>1, <1>6 DEF Subscribe, WatchTypes
  <2> QED
    BY <1>0, <1>3, <2>2, <2>4, <2>5 DEF WatchTypes
<1>7. ASSUME Unsubscribe(w) PROVE WatchInv'
  <2>1. PICK o : o = [watch[w] EXCEPT !.subs = FALSE, !.removing = TRUE, !.tasks = @ + 1]
    OBVIOUS
  <2>2. o \in Watching /\ watch' = [watch EXCEPT ![w] = o]
    BY <1>0, <1>1, <1>4, <1>7, <2>1 DEF Unsubscribe, Watching, WatchTypes
  <2>3. /\ o.made = watch[w].made /\ o.snap = watch[w].snap /\ o.behind = watch[w].behind
        /\ o.dirty = watch[w].dirty /\ o.subs = FALSE /\ o.reg = watch[w].reg
    BY <1>4, <2>1 DEF Watching
  <2>4. Awake(o, ix, w, told[w], dirty \cup batch)
    BY <1>0, <1>1, <1>4, <1>7, <2>3 DEF Unsubscribe, Awake
  <2>5. UNCHANGED <<ix, dirty, batch, flush>> /\ told[w] \in SUBSET Ids /\ told' = [told EXCEPT ![w] = told[w]]
    BY <1>0, <1>1, <1>7 DEF Unsubscribe, WatchTypes
  <2> QED
    BY <1>0, <1>3, <2>2, <2>4, <2>5 DEF WatchTypes
<1>8. ASSUME Unregister(w) PROVE WatchInv'
  <2>1. PICK o : o = [watch[w] EXCEPT !.tasks = @ - 1, !.reg = @ /\ ~StillRemoving(w),
                                       !.pins = IF StillRemoving(w) THEN {} ELSE @]
    OBVIOUS
  <2>2a. watch' = [watch EXCEPT ![w] = o]
    BY <1>0, <1>8, <2>1 DEF Unregister, WatchTypes
  <2>2b. o \in Watching
    <3>1. watch[w].tasks - 1 \in Nat
      BY <1>4, <1>8 DEF Unregister, Watching
    <3>2. (watch[w].reg /\ ~StillRemoving(w)) \in BOOLEAN
      OBVIOUS
    <3>3. (IF StillRemoving(w) THEN {} ELSE watch[w].pins) \in SUBSET Ids
      BY <1>4 DEF Watching
    <3> QED
      BY <1>4, <2>1, <3>1, <3>2, <3>3 DEF Watching
  <2>2. o \in Watching /\ watch' = [watch EXCEPT ![w] = o]
    BY <2>2a, <2>2b
  <2>3. /\ o.made = watch[w].made /\ o.snap = watch[w].snap /\ o.behind = watch[w].behind
        /\ o.dirty = watch[w].dirty /\ o.subs = watch[w].subs /\ o.reg = (watch[w].reg /\ ~StillRemoving(w))
    BY <1>4, <2>1 DEF Watching
  <2>4. Awake(o, ix, w, told[w], dirty \cup batch)
    BY <1>0, <1>1, <1>4, <1>8, <2>3 DEF Unregister, Awake, StillRemoving
  <2>5. UNCHANGED <<ix, dirty, batch, flush>> /\ told[w] \in SUBSET Ids /\ told' = [told EXCEPT ![w] = told[w]]
    BY <1>0, <1>1, <1>8 DEF Unregister, WatchTypes
  <2> QED
    BY <1>0, <1>3, <2>2, <2>4, <2>5 DEF WatchTypes
<1>9. ASSUME GetSnapshot(w) PROVE WatchInv'
  <2>1. PICK o : o = [watch[w] EXCEPT !.snap = Fresh(w), !.behind = FALSE, !.dirty = FALSE,
                                       !.pins = IF watch[w].reg THEN Fresh(w) ELSE @]
    OBVIOUS
  <2>2a. watch' = [watch EXCEPT ![w] = o]
    BY <1>0, <1>9, <2>1 DEF GetSnapshot, WatchTypes
  <2>2b. o \in Watching
    BY <1>1, <1>4, <2>1 DEF Watching
  <2>2. o \in Watching /\ watch' = [watch EXCEPT ![w] = o]
    BY <2>2a, <2>2b
  <2>3. /\ o.made = watch[w].made /\ o.snap = Fresh(w) /\ o.behind = FALSE
        /\ o.dirty = FALSE /\ o.subs = watch[w].subs /\ o.reg = watch[w].reg
    BY <1>4, <2>1 DEF Watching
  <2>4. Awake(o, ix, w, told[w], dirty \cup batch)
    BY <1>0, <1>1, <1>4, <1>9, <2>3 DEF GetSnapshot, Awake
  <2>5. UNCHANGED <<ix, dirty, batch, flush>> /\ told[w] \in SUBSET Ids /\ told' = [told EXCEPT ![w] = told[w]]
    BY <1>0, <1>1, <1>9 DEF GetSnapshot, WatchTypes
  <2> QED
    BY <1>0, <1>3, <2>2, <2>4, <2>5 DEF WatchTypes
<1>10. ASSUME Notify(w) PROVE WatchInv'
  <2>1. PICK tl : tl = (IF watch[w].subs THEN shown ELSE told[w])
    OBVIOUS
  <2>2. /\ UNCHANGED <<ix, watch, dirty, flush>> /\ batch' = batch \ {w} /\ tl \in SUBSET Ids
        /\ told' = [told EXCEPT ![w] = tl]
    BY <1>0, <1>1, <1>10, <2>1 DEF Notify, WatchTypes
  <2>3. watch' = [watch EXCEPT ![w] = watch[w]] /\ batch' \subseteq Watches
    BY <1>0, <2>2 DEF WatchTypes
  <2>4. Awake(watch[w], ix, w, tl, dirty \cup batch')
    BY <1>1, <1>4, <2>1, <2>2 DEF Awake
  <2> QED
    BY <1>3, <1>4, <2>2, <2>3, <2>4
<1>11. WatchInv'
  BY <1>5, <1>6, <1>7, <1>8, <1>9, <1>10
<1> QED
  BY <1>2, <1>11 DEF ReactiveInv

\* The flush.
LEMMA FlushKeeps ==
  ASSUME ReactiveInv, TakeDirty \/ FlushDone \/ (\E ev \in Events : Read(ev)) \/ UNCHANGED reactiveVars
  PROVE  ReactiveInv' /\ Bounded
<1>1. CASE TakeDirty \/ FlushDone \/ UNCHANGED reactiveVars
  <2>1. /\ UNCHANGED <<ix, recency, newest, spoiled, watch, told>>
        /\ dirty' \cup batch' = dirty \cup batch /\ (dirty' # {} => flush')
        /\ dirty' \subseteq Watches /\ batch' \subseteq Watches /\ flush' \in BOOLEAN
    BY <1>1 DEF TakeDirty, FlushDone, reactiveVars, ReactiveInv, WatchInv, WatchTypes
  <2> QED
    BY <2>1 DEF ReactiveInv, WatchInv, WatchTypes, Kept3, Bounded, Awake
<1>2. ASSUME NEW ev \in Events, Read(ev) PROVE ReactiveInv' /\ Bounded
  <2>1. PICK evs \in SUBSET ix.stored : evs = {ev}
    BY <1>2 DEF Read, Visible
  <2>2. recency' = Touched(recency, evs) /\ UNCHANGED <<ix, watch, dirty, flush, batch, told, newest, spoiled>>
    BY <1>2, <2>1 DEF Read
  <2>3. Kept3(ix, recency, newest, spoiled)' /\ Bounded
    BY <2>2, TouchKeeps DEF ReactiveInv
  <2> QED
    BY <2>2, <2>3 DEF ReactiveInv, WatchInv, WatchTypes, Awake
<1> QED
  BY <1>1, <1>2

\* Every step keeps the invariant and the bound.
LEMMA ReactiveStep ==
  ASSUME ReactiveInv, [Next]_reactiveVars
  PROVE  ReactiveInv' /\ Bounded
BY AddKeeps, HydrateKeeps, RemoveKeeps, ClearKeeps, CallKeeps, FlushKeeps DEF Next

\* The invariant of the reactive store.
LEMMA ReactiveHolds == Spec => []ReactiveInv
<1>1. ReactiveInv /\ [Next]_reactiveVars => ReactiveInv'
  BY ReactiveStep
<1> QED
  BY ReactiveStarts, <1>1, PTL DEF Spec

\* The runs of the instance that is checked are runs of the store.
LEMMA InstanceRunsStore == MCSpec => Spec
<1>1. MCInit => Init
  BY DEF MCInit
<1>2. [MCNext]_<<mode, reactiveVars, feedVars>> => [Next]_reactiveVars
  BY DEF MCNext
<1> QED
  BY <1>1, <1>2, PTL DEF MCSpec, Spec

(* getSnapshot() of a watch that need not compute returns what computing     *)
(* would, in every behaviour of the store.                                   *)
THEOREM SnapshotsAreFresh == Spec => []SnapshotFresh
<1>1. ReactiveInv => SnapshotFresh
  BY FreshIs DEF ReactiveInv, WatchInv, Awake, SnapshotFresh, Outdated
<1> QED
  BY ReactiveHolds, <1>1, PTL

(* No subscriber is left with an outdated result and no call on its way.     *)
THEOREM NothingMissed == Spec => []NoMissedNotification
<1>1. ReactiveInv => NoMissedNotification
  BY FreshIs DEF ReactiveInv, WatchInv, Awake, NoMissedNotification
<1> QED
  BY ReactiveHolds, <1>1, PTL

(* With room for a watermark of every address, what is stored at an address  *)
(* is the newest version ever stored there, unless its author or the caller  *)
(* deleted that one; but for the spoiled addresses, whose newest version was *)
(* named by the deletion request of a stranger: the index then drops the     *)
(* watermark of an evicted winner although the request deletes nothing       *)
(* (memory-index.ts, #dropWatermarkId), and accepts an older version.        *)
THEOREM NewestIsHeld == ASSUME Cardinality(Addressed) <= MaxWatermarks PROVE Spec => []NewestHolds
<1>1. ReactiveInv => NewestHolds
  BY DEF ReactiveInv, Kept3, NewestKept, NewestHolds, ByAddr
<1> QED
  BY ReactiveHolds, <1>1, PTL

(* A write that brings events leaves more than the cap stored only when the  *)
(* watches show every other one.                                             *)
THEOREM EvictionIsBounded == Spec => EvictionBounds
<1>1. ReactiveInv /\ [Next]_reactiveVars => [Bounded]_reactiveVars
  BY ReactiveStep
<1>2. Bounded <=> LET ins == ix'.stored \ ix.stored
                  IN ins # {} => \/ Cardinality(ix'.stored) <= MaxEvents
                                 \/ IdsOf(ix'.stored \ ins) \subseteq Pinned
  BY DEF Bounded
<1> QED
  BY ReactiveHolds, <1>1, <1>2, PTL DEF Spec, EvictionBounds
=============================================================================
