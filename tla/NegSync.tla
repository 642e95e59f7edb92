------------------------------- MODULE NegSync -------------------------------
(* One NIP-77 synchronisation with one relay: the Negentropy algorithm of   *)
(* both sides (nips/nip77.ts; the relay runs the same class in              *)
(* testing/relay-core.ts), the session that carries its messages            *)
(* (relay/neg-session.ts) and the exchange of events that follows           *)
(* (client/sync.ts).  Events are 1..LastItem, in the order of time and id.  *)
(* A fingerprint is the set it was computed of: collisions of SHA-256 are   *)
(* left out, and so are the options of syncToRelay() under which nothing is *)
(* moved (dryRun) or put (observe or persistEvents false).                  *)
EXTENDS Integers, FiniteSets, SequencesExt

CONSTANTS
  LastItem,
  Buckets, Threshold,       \* BUCKETS and ID_LIST_THRESHOLD
  ClientLimit, RelayLimit,  \* frameSizeLimit of each side, 0 for none
  MaxRounds,                \* MAX_NEG_ROUNDS
  BatchSize,                \* SYNC_ID_BATCH
  Refused                   \* events the store rejects, e.g. as deleted

VARIABLES
  local, remote,   \* the events the store and the relay hold
  mine, theirs,    \* what each side's NegentropyStorageVector was sealed with
  direction,       \* "down", "up" or "both"
  stage,           \* what syncToRelay() is doing
  wire,            \* the NEG message under way, [to, ranges], or Quiet
  round,           \* the round of runNegSession()
  have, need,      \* what the session has found
  todo,            \* the events still to be uploaded or fetched, in order
  received, failed,  \* of the summary; failed: sendFailures and persistFailures
  missed           \* history: asked for, and not delivered by the relay

vars == <<local, remote, mine, theirs, direction, stage, wire, round, have, need,
          todo, received, failed, missed>>

Items == 1..LastItem
Infinity == LastItem + 1
Quiet == [to |-> "nobody", ranges |-> <<>>]

-----------------------------------------------------------------------------
(* The algorithm.  A message is a sequence of ranges, each from the bound   *)
(* of the one before; a bound b stands for everything below item b.         *)
Rng(bound, mode, held) == [bound |-> bound, mode |-> mode, held |-> held]
Within(set, lo, hi) == {i \in set : lo <= i /\ i < hi}

\* minimalBound(): the shortest bound after p and not after c, which any of
\* the items between them may be.
Separates(low, p, c) == IF low THEN p + 1 ELSE c

\* splitRange(): few items are listed, many are dealt to buckets in their order.
Split(set, lo, hi, low) ==
  LET items == Within(set, lo, hi)
      n == Cardinality(items)
      Rank(i) == Cardinality(Within(items, lo, i + 1))
      End(k) == (n \div Buckets) * k + (IF k < n % Buckets THEN k ELSE n % Buckets)
      Bucket(k) == {i \in items : End(k - 1) < Rank(i) /\ Rank(i) <= End(k)}
  IN IF n < Threshold THEN <<Rng(hi, "ids", items)>>
     ELSE [k \in 1..Buckets |->
             Rng(IF k = Buckets THEN hi ELSE Separates(low, Max(Bucket(k)), Min(Bucket(k + 1))),
                 "fingerprint", Bucket(k))]

Size(ranges) == FoldLeft(LAMBDA n, r : n + 1 + (IF r.mode = "ids" THEN Cardinality(r.held) ELSE 0),
                         0, ranges)
Exceeds(limit, ranges) == limit # 0 /\ Size(ranges) > limit

\* One turn of the loop of reconcile() on range r.  Mutant: the range that a
\* skip stands for is not sent before the next one.
SkipTo_Never(acc) == <<>>
SkipTo(acc) == IF acc.skip THEN <<Rng(acc.prev, "skip", {})>> ELSE <<>>

Turn(set, initiator, limit, low, acc, r) ==
  LET ours == Within(set, acc.prev, r.bound)
      agreed == \/ r.mode = "skip"
                \/ r.mode = "fingerprint" /\ r.held = ours
                \/ r.mode = "ids" /\ initiator
      o == IF agreed THEN <<>>
           ELSE SkipTo(acc) \o (IF r.mode = "ids" THEN <<Rng(r.bound, "ids", ours)>>
                                ELSE Split(set, acc.prev, r.bound, low))
      listed == r.mode = "ids" /\ initiator
      full == Exceeds(limit, acc.out \o o)
  IN [prev |-> r.bound, skip |-> agreed, stop |-> full,
      out |-> IF full
              THEN Append(acc.out, Rng(Infinity, "fingerprint", Within(set, r.bound, Infinity)))
              ELSE acc.out \o o,
      have |-> acc.have \cup (IF listed THEN ours \ r.held ELSE {}),
      need |-> acc.need \cup (IF listed THEN r.held \ ours ELSE {})]

Reconcile(set, initiator, limit, low, ranges) ==
  FoldLeft(LAMBDA acc, r : IF acc.stop THEN acc ELSE Turn(set, initiator, limit, low, acc, r),
           [prev |-> 1, skip |-> FALSE, stop |-> FALSE, out |-> <<>>, have |-> {}, need |-> {}],
           ranges)

Initiate(set, low) == Split(set, 1, Infinity, low)

-----------------------------------------------------------------------------
Init ==
  /\ local \in SUBSET Items /\ remote \in SUBSET Items
  /\ mine = {} /\ theirs = {}
  /\ direction \in {"down", "up", "both"}
  /\ stage = "begin" /\ wire = Quiet /\ round = 0
  /\ have = {} /\ need = {} /\ todo = <<>>
  /\ received = {} /\ failed = {} /\ missed = {}

\* syncToRelay() reads negentropyItems() and NEG-OPEN leaves.
Begin ==
  /\ stage = "begin"
  /\ stage' = "reconcile"
  /\ mine' = local
  /\ \E low \in BOOLEAN : wire' = [to |-> "open", ranges |-> Initiate(local, low)]
  /\ UNCHANGED <<local, remote, theirs, direction, round, have, need, todo, received, failed, missed>>

\* The relay answers every message, with the version byte alone when it has
\* nothing to say; NEG-OPEN seals what it holds then.
RelayAnswers ==
  /\ wire.to \in {"open", "relay"}
  /\ theirs' = IF wire.to = "open" THEN remote ELSE theirs
  /\ \E low \in BOOLEAN :
       wire' = [to |-> "client",
                ranges |-> Reconcile(theirs', FALSE, RelayLimit, low, wire.ranges).out]
  /\ UNCHANGED <<local, remote, mine, direction, stage, round, have, need, todo, received, failed, missed>>

\* next() resolves with a NEG-MSG and runNegSession() goes on.
ClientAnswers ==
  /\ stage = "reconcile" /\ wire.to = "client"
  /\ \E low \in BOOLEAN :
       LET r == Reconcile(mine, TRUE, ClientLimit, low, wire.ranges)
       IN /\ have' = have \cup r.have
          /\ need' = need \cup r.need
          /\ round' = round + 1
          /\ \/ /\ r.out = <<>>
                /\ stage' = "query" /\ wire' = Quiet
             \/ /\ r.out # <<>> /\ round' < MaxRounds
                /\ wire' = [to |-> "relay", ranges |-> r.out]
                /\ UNCHANGED stage
             \/ /\ r.out # <<>> /\ round' >= MaxRounds
                /\ stage' = "error" /\ wire' = [to |-> "relay", ranges |-> r.out]
  /\ UNCHANGED <<local, remote, mine, theirs, direction, todo, received, failed, missed>>

\* The deadline, an abort, NEG-ERR or the death of the socket.
SessionFails ==
  /\ stage = "reconcile"
  /\ stage' = "error" /\ wire' = Quiet
  /\ UNCHANGED <<local, remote, mine, theirs, direction, round, have, need, todo, received, failed, missed>>

Uploads == direction \in {"up", "both"}
Downloads == direction \in {"down", "both"}

\* The upload queries the store for what it is to send; an event that left it
\* since negentropyItems() is a failure.
StartUpload ==
  /\ stage = "query"
  /\ stage' = "upload"
  /\ todo' = IF Uploads THEN SetToSeq(have \cap local) ELSE <<>>
  /\ failed' = IF Uploads THEN have \ local ELSE {}
  /\ UNCHANGED <<local, remote, mine, theirs, direction, wire, round, have, need, received, missed>>

Upload ==
  /\ stage = "upload" /\ todo # <<>>
  /\ \/ remote' = remote \cup {Head(todo)} /\ UNCHANGED failed
     \/ failed' = failed \cup {Head(todo)} /\ UNCHANGED remote
  /\ todo' = Tail(todo)
  /\ UNCHANGED <<local, mine, theirs, direction, stage, wire, round, have, need, received, missed>>

StartDownload ==
  /\ stage = "upload" /\ todo = <<>>
  /\ stage' = "download"
  /\ todo' = IF Downloads THEN SetToSeq(need) ELSE <<>>
  /\ UNCHANGED <<local, remote, mine, theirs, direction, wire, round, have, need, received, failed, missed>>

\* One batch of ids is fetched and put: of what the relay holds, the part that came
\* before EOSE, CLOSED, the timeout or the loss of the socket.  A putMany() that throws
\* ends the download; events that the store rejects are left out of the summary.
Rest(ids) == SubSeq(ids, BatchSize + 1, Len(ids))

Fetch ==
  /\ stage = "download" /\ todo # <<>>
  /\ LET batch == {todo[k] : k \in 1..BatchSize \cap DOMAIN todo}
     IN \E got \in SUBSET (batch \cap remote) :
          \/ /\ local' = local \cup (got \ Refused)
             /\ received' = received \cup (got \ Refused)
             /\ missed' = missed \cup (batch \ got)
             /\ todo' = Rest(todo)
             /\ UNCHANGED failed
          \/ /\ got # {}
             /\ failed' = failed \cup got
             /\ todo' = <<>>
             /\ UNCHANGED <<local, received, missed>>
  /\ UNCHANGED <<remote, mine, theirs, direction, stage, wire, round, have, need>>

Downloaded ==
  /\ stage = "download" /\ todo = <<>>
  /\ stage' = "done"
  /\ UNCHANGED <<local, remote, mine, theirs, direction, wire, round, have, need, todo, received, failed, missed>>

\* External: meanwhile another caller removes an event from the store.
LocalRemove ==
  /\ stage \in {"reconcile", "query"} /\ local = mine
  /\ \E e \in local : local' = local \ {e}
  /\ UNCHANGED <<remote, mine, theirs, direction, stage, wire, round, have, need, todo, received, failed, missed>>

Next == \/ Begin \/ RelayAnswers \/ ClientAnswers \/ SessionFails \/ StartUpload
        \/ Upload \/ StartDownload \/ Fetch \/ Downloaded \/ LocalRemove
Spec == Init /\ [][Next]_vars

-----------------------------------------------------------------------------
(* A session that converges has found exactly the ids only the store held   *)
(* when it began (have) and only the relay held when it answered (need),    *)
(* whatever the splits, the bounds and the frames cut short                 *)
(* (ReconcileOutcome, Relay.negReconcile).                                  *)
ReconcileExact ==
  stage \in {"query", "upload", "download", "done"} =>
    have = mine \ theirs /\ need = theirs \ mine

(* When the sync is over, the relay has every event the store began with,   *)
(* or its upload is reported as failed; and the store has every event the   *)
(* relay held, but for those it refused or lost itself, those the relay did *)
(* not deliver, and a download that putMany() ended (syncToRelay()).        *)
SyncDelivers ==
  stage = "done" =>
    /\ Uploads => mine \subseteq remote \cup failed
    /\ Downloads /\ failed \cap theirs = {} =>
         theirs \subseteq local \cup Refused \cup missed \cup (mine \ local)

(* Both: the difference that is found is the one that is moved.              *)
SyncExact == ReconcileExact /\ SyncDelivers

=============================================================================
