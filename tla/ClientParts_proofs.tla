------------------------- MODULE ClientParts_proofs -------------------------
(***************************************************************************)
(* Theorems about the client's self-contained parts, each for every value  *)
(* of its constants: the remote signer (Nip46), the replaceable loader     *)
(* (Loaders), the fan-in (FanIn), the routing table (Gossip), the NIP-77   *)
(* synchronisation (NegSync) and the queries of the stores (EventQueries). *)
(***************************************************************************)
EXTENDS MCClientParts, StoreLemmas

\* A step of the whole is a step of each part or leaves the part alone.
LEMMA PartSteps ==
  ASSUME [Next]_partVars
  PROVE  /\ [S!Next]_signerVars /\ [L!Next]_loaderVars /\ [F!Next]_fanInVars
         /\ [G!Next]_gossipVars /\ [N!Next]_syncVars /\ [Q!Next]_queryVars
  BY DEF Next, partVars, fanInVars, syncVars, signerVars, loaderVars, queryVars, gossipVars

\* The parts count with the same Cardinality.
LEMMA Counting ==
  \A X : /\ S!Cardinality(X) = Cardinality(X) /\ L!Cardinality(X) = Cardinality(X)
         /\ F!Cardinality(X) = Cardinality(X)
  BY DEF S!Cardinality, L!Cardinality, F!Cardinality, Cardinality

-----------------------------------------------------------------------------
(* The remote signer.                                                        *)

CallStates == {"idle", "publishing", "waiting", "resolved", "rejected", "over"}

SignerTypes ==
  /\ call \in [Requests -> CallStates]
  /\ answer \in [Requests -> {"pending", "good", "bad"}]
  /\ listeners \subseteq Requests /\ IsFiniteSet(listeners)
  /\ timers \subseteq Requests \X {"request", "auth"}
  /\ lateSwitch \subseteq Switches
  /\ handshake \in {"none", "listening", "switching", "asking", "over"}
  /\ outcome \in {"pending", "signer", "failed"}
  /\ sub \in BOOLEAN /\ open \in BOOLEAN /\ wasClosed \in BOOLEAN

\* A request is heard until its promise settles, by one timer.
OneTimer ==
  /\ \A r \in listeners : /\ answer[r] = "pending" /\ call[r] \in {"publishing", "waiting"}
                          /\ \E t \in timers : t[1] = r
  /\ \A t \in timers : t[1] \in listeners
  /\ \A s, t \in timers : s[1] = t[1] => s = t

\* Who is unsent has no answer and who resolved a good one; the handshake's
\* signer is not closed before the application has it.
AnswersFit == \A r \in Requests : /\ call[r] = "idle" => answer[r] = "pending"
                                  /\ call[r] = "resolved" => answer[r] = "good"
HandshakeOpen ==
  handshake \in {"listening", "switching", "asking"} => outcome # "signer" /\ ~wasClosed

\* After close() no switchRelays() has the answer that would let it go on.
NoLateSwitch ==
  wasClosed /\ lateSwitch = {} =>
    \A r \in Switches : answer[r] = "good" => call[r] \in {"rejected", "over"}

SignerInv == /\ SignerTypes /\ OneTimer /\ AnswersFit /\ HandshakeOpen /\ NoLateSwitch
             /\ S!ClosedStaysClosed

LEMMA SignerInit == S!Init => SignerInv
  BY FS_EmptySet, SignerAssumption
  DEF S!Init, S!Owned, SignerInv, SignerTypes, CallStates, OneTimer, AnswersFit, HandshakeOpen,
      NoLateSwitch, S!ClosedStaysClosed

\* One timer and one listener per request are as many of the one as of the other.
LEMMA TimersCounted ==
  ASSUME SignerTypes, OneTimer
  PROVE  S!OneTimerEach
<1> DEFINE f == [t \in timers |-> t[1]]
<1>1. \A t \in timers : t[1] \in Requests
  BY DEF SignerTypes
<1>2. {t[1] : t \in timers} = listeners
  BY DEF OneTimer
<1>3. f \in Injection(timers, listeners) /\ f \in Surjection(timers, listeners)
  BY DEF OneTimer, Injection, Surjection, IsInjective
<1>4. IsFiniteSet(listeners)
  BY DEF SignerTypes
<1> HIDE DEF f
<1>5. Cardinality(timers) = Cardinality(listeners)
  BY <1>3, <1>4, FS_Injection
<1> QED
  BY <1>2, <1>5, Counting, Zenon DEF S!OneTimerEach

\* The first part of #sendRequest().  What an unsent request leaves alone
\* holds again; a new listener comes with its timer.
LEMMA SendKeeps ==
  ASSUME SignerTypes, OneTimer, AnswersFit, NEW r \in Requests,
         NEW isOpen \in BOOLEAN, S!SendOn(r, isOpen)
  PROVE  /\ call' \in [Requests -> CallStates]
         /\ listeners' \subseteq Requests /\ IsFiniteSet(listeners')
         /\ timers' \subseteq Requests \X {"request", "auth"}
         /\ sub' \in BOOLEAN /\ open' \in BOOLEAN
         /\ OneTimer'
         /\ \A s \in Requests : call'[s] = call[s] \/ call'[s] \in {"rejected", "publishing"}
         /\ \A s \in Requests : call[s] \in {"rejected", "over"} => call'[s] = call[s]
         /\ ~isOpen => UNCHANGED <<listeners, sub, open>>
<1> USE DEF SignerTypes, CallStates, OneTimer, S!SendOn
<1>1. r \notin listeners /\ \A t \in timers : t[1] # r
  OBVIOUS
<1>2. CASE ~isOpen
  BY <1>2
<1>3. CASE isOpen
  <2>1. listeners' = listeners \cup {r} /\ timers' = timers \cup {<<r, "request">>}
    BY <1>3
  <2>2. IsFiniteSet(listeners') /\ listeners' \subseteq Requests
    BY <2>1, FS_AddElement
  <2>3. call' = [call EXCEPT ![r] = "publishing"] /\ answer' = answer
    BY <1>3
  <2>4. <<r, "request">> \in timers' /\ timers \subseteq timers'
    BY <2>1
  <2>5. \A s \in listeners' : \E t \in timers' : t[1] = s
    <3> TAKE s \in listeners'
    <3>1. CASE s = r
      BY <2>4, <3>1
    <3>2. CASE s \in listeners
      BY <2>4, <3>2
    <3> QED
      BY <2>1, <3>1, <3>2
  <2>6. \A t \in timers' : t[1] \in listeners'
    BY <2>1
  <2>7. \A s, t \in timers' : s[1] = t[1] => s = t
    BY <1>1, <2>1
  <2>8. \A s \in listeners' : answer'[s] = "pending" /\ call'[s] \in {"publishing", "waiting"}
    BY <2>1, <2>3 DEF AnswersFit
  <2>9. OneTimer'
    BY <2>5, <2>6, <2>7, <2>8
  <2> QED
    BY <1>3, <2>1, <2>2, <2>3, <2>9
<1> QED
  BY <1>2, <1>3

LEMMA SignerStep ==
  ASSUME SignerInv, [S!Next]_signerVars
  PROVE  SignerInv'
<1> USE SignerAssumption
<1> USE DEF SignerInv, SignerTypes, CallStates, OneTimer, AnswersFit, HandshakeOpen, NoLateSwitch,
            S!ClosedStaysClosed
<1>1. ASSUME NEW r \in Requests, S!Send(r)
      PROVE  SignerInv'
  <2>1. open \in BOOLEAN /\ S!SendOn(r, open) /\ UNCHANGED <<handshake, outcome>>
    BY <1>1 DEF S!Send
  <2>2. UNCHANGED <<answer, wasClosed, lateSwitch>> /\ call[r] = "idle"
    BY <2>1 DEF S!SendOn
  <2>3. \A s \in Switches : answer[s] = "good" /\ call[s] \in {"rejected", "over"} =>
          call'[s] \in {"rejected", "over"}
    BY <2>1, SendKeeps
  <2> QED
    BY <2>1, <2>2, <2>3, SendKeeps
<1>2. ASSUME NEW r \in Requests, S!Publish(r)
      PROVE  SignerInv'
  BY <1>2, FS_RemoveElement DEF S!Publish, S!Drop, S!ClearTimer, S!Unaccepted, S!Resulted
<1>3. ASSUME NEW r \in Requests, S!Answer(r)
      PROVE  SignerInv'
  BY <1>3, FS_RemoveElement DEF S!Answer, S!Drop, S!ClearTimer, S!Resulted
<1>4. ASSUME NEW r \in Requests, S!AuthUrl(r)
      PROVE  SignerInv'
  <2>1. timers' = {t \in timers : t[1] # r} \cup {<<r, "auth">>} /\ r \in listeners
    BY <1>4 DEF S!AuthUrl, S!ClearTimer
  <2>2. UNCHANGED <<call, answer, listeners, sub, open, wasClosed, lateSwitch, handshake, outcome>>
    BY <1>4 DEF S!AuthUrl
  <2>3. \A s \in listeners : \E t \in timers' : t[1] = s
    <3> TAKE s \in listeners
    <3>1. CASE s = r
      <4>1. <<r, "auth">> \in timers'
        BY <2>1
      <4> QED
        BY <3>1, <4>1
    <3>2. CASE s # r
      BY <2>1, <3>2
    <3> QED
      BY <3>1, <3>2
  <2>4. /\ \A t \in timers' : t[1] \in listeners
        /\ \A s, t \in timers' : s[1] = t[1] => s = t
        /\ timers' \subseteq Requests \X {"request", "auth"}
    BY <2>1
  <2> QED
    BY <2>2, <2>3, <2>4
<1>5. ASSUME NEW r \in Requests, S!Timeout(r)
      PROVE  SignerInv'
  BY <1>5, FS_RemoveElement DEF S!Timeout, S!Drop, S!ClearTimer, S!Resulted
<1>6. ASSUME NEW r \in Requests, S!Return(r)
      PROVE  SignerInv'
  BY <1>6 DEF S!Return
<1>7. ASSUME NEW r \in Requests, S!Switch(r)
      PROVE  SignerInv'
  <2>1. ~(wasClosed /\ lateSwitch = {})
    BY <1>7 DEF S!Switch
  <2>2. sub' \in BOOLEAN /\ open' \in BOOLEAN
    BY <1>7 DEF S!Switch
  <2>3. \E state \in {"over", "rejected"} : call' = [call EXCEPT ![r] = state]
    BY <1>7 DEF S!Switch
  <2>4. /\ call' \in [Requests -> CallStates]
        /\ \A s \in Requests : call'[s] = call[s] \/ (s = r /\ call'[s] \in {"over", "rejected"})
    BY <2>3
  <2>5. UNCHANGED <<answer, listeners, timers, wasClosed, lateSwitch, handshake, outcome>>
    BY <1>7 DEF S!Switch
  <2>6. r \notin listeners
    BY <1>7 DEF S!Switch
  <2> QED
    BY <2>1, <2>2, <2>4, <2>5, <2>6
<1>8. CASE S!SubEnds
  BY <1>8 DEF S!SubEnds
<1>9. ASSUME S!CloseSigner, handshake' \notin {"listening", "switching", "asking"},
             handshake' \in {"none", "over"}, outcome' \in {"pending", "signer", "failed"}
      PROVE  SignerInv'
  BY <1>9, FS_EmptySet DEF S!CloseSigner
<1>10. CASE S!Close
  BY <1>9, <1>10 DEF S!Close, S!Owned
<1>11. CASE S!Respond
  BY <1>11, SendKeeps DEF S!Respond, S!SendOn
<1>12. CASE S!Ask
  BY <1>12, SendKeeps, ZenonT(60) DEF S!Ask, S!SendOn
<1>13. CASE S!Asked
  BY <1>9, <1>13 DEF S!Asked, S!Finish, S!sigVars
<1>14. CASE S!GiveUp
  BY <1>14 DEF S!GiveUp, S!sigVars
<1>15. CASE UNCHANGED signerVars
  BY <1>15 DEF signerVars
<1> QED
  BY <1>1, <1>2, <1>3, <1>4, <1>5, <1>6, <1>7, <1>8, <1>10, <1>11, <1>12, <1>13, <1>14, <1>15
  DEF S!Next, S!Step

(* nip46.ts, #sendRequest() and close(): at every moment each listener of    *)
(* the remote signer has exactly one timer and each timer its listener, and  *)
(* a signer that was closed neither listens, waits nor subscribes again, but *)
(* for a switchRelays() answered before.                                     *)
THEOREM SignerIsSound == Spec => []SignerSound
<1>1. Init => SignerInv
  BY SignerInit DEF Init
<1>2. SignerInv /\ [Next]_partVars => SignerInv'
  BY SignerStep, PartSteps
<1>3. SignerInv => SignerSound
  BY TimersCounted DEF SignerInv, SignerSound, S!SignerSound
<1> QED
  BY <1>1, <1>2, <1>3, PTL DEF Spec

-----------------------------------------------------------------------------
(* The loader of replaceable events.                                         *)

LoadTypes ==
  /\ keyOf \in [Calls -> Keys \cup {NoKey}]
  /\ loads \in [Calls -> {"idle", "waiting", "done"}]
  /\ promise \in [Calls -> {"none", "queued", "batched", "resolved", "over"}]
  /\ waiting \in Seq(Calls)
  /\ inflight \in [Keys -> Calls \cup {NoCall}]
  /\ fetches \subseteq SUBSET Calls
  /\ record \in [L!Addresses -> {"none", "miss", "hit"}]
  /\ clears \in Nat

\* A promise belongs to a call that loads a key.  It is in the queue, or in one
\* batch, until it resolves.
PromiseTracked ==
  \A c \in Calls : /\ loads[c] = "idle" => promise[c] = "none"
                   /\ promise[c] # "none" => keyOf[c] \in Keys
Queued == \A i \in 1..Len(waiting) : promise[waiting[i]] = "queued"
Batched ==
  /\ \A batch \in fetches : \A c \in batch : promise[c] = "batched"
  /\ \A one, other \in fetches : one \cap other # {} => one = other

\* A promise that is not in #inflight any more cost a clear().
Strays(k) == L!Unsettled(k) \ {inflight[k]}
CountsOf(k) ==
  /\ inflight[k] # NoCall => inflight[k] \in L!Unsettled(k)
  /\ IsFiniteSet(L!Unsettled(k))
  /\ Cardinality(Strays(k)) <= clears
InFlightCounts == \A k \in Keys : CountsOf(k)

\* A record of a miss is of a fetch that found nothing.
MissIsTrue == \A a \in L!Addresses : record[a] = "miss" => a \notin found

LoadInv ==
  LoadTypes /\ PromiseTracked /\ Queued /\ Batched /\ InFlightCounts /\ MissIsTrue /\ L!NoFalseMiss

LEMMA LoadInit == L!Init => LoadInv
<1> SUFFICES ASSUME L!Init PROVE LoadInv
  OBVIOUS
<1>1. LoadTypes /\ PromiseTracked /\ Queued /\ Batched /\ MissIsTrue /\ L!NoFalseMiss
  BY DEF L!Init, LoadTypes, PromiseTracked, Queued, Batched, MissIsTrue, L!NoFalseMiss
<1>2. ASSUME NEW k \in Keys PROVE CountsOf(k)
  <2>1. L!Unsettled(k) = {}
    BY DEF L!Init, L!Unsettled
  <2> QED
    BY <2>1, FS_EmptySet DEF L!Init, CountsOf, Strays
<1> QED
  BY <1>1, <1>2 DEF LoadInv, InFlightCounts

-----------------------------------------------------------------------------
\* Calls whose promise has not gone.
Live(c) == promise[c] \in {"queued", "batched", "resolved"}

\* A key has one promise in flight and its strays.
LEMMA StraysCounted ==
  ASSUME LoadTypes, NEW k \in Keys, CountsOf(k)
  PROVE  /\ Cardinality(Strays(k)) \in Nat /\ Cardinality(L!Unsettled(k)) \in Nat /\ clears \in Nat
         /\ Cardinality(L!Unsettled(k)) <= Cardinality(Strays(k)) + 1
         /\ Cardinality(L!Unsettled(k)) <= 1 + clears
<1> PICK U, x : U = L!Unsettled(k) /\ x = inflight[k]
  OBVIOUS
<1>1. IsFiniteSet(U) /\ Strays(k) = U \ {x} /\ Cardinality(U \ {x}) <= clears /\ clears \in Nat
  BY DEF CountsOf, Strays, LoadTypes
<1>2. IsFiniteSet(U \ {x}) /\ Cardinality(U \ {x}) = IF x \in U THEN Cardinality(U) - 1 ELSE Cardinality(U)
  BY <1>1, FS_RemoveElement
<1>3. Cardinality(U) \in Nat /\ Cardinality(U \ {x}) \in Nat
  BY <1>1, <1>2, FS_CardinalityType
<1> QED
  BY <1>1, <1>2, <1>3

\* The counts depend on the promises that live, and on their keys.
LEMMA CountsKept ==
  ASSUME InFlightCounts, UNCHANGED <<inflight, clears>>,
         \A c \in Calls : Live(c)' <=> Live(c),
         \A c \in Calls : Live(c) => keyOf'[c] = keyOf[c]
  PROVE  InFlightCounts'
<1> SUFFICES ASSUME NEW k \in Keys PROVE CountsOf(k)'
  BY DEF InFlightCounts
<1>1. L!Unsettled(k)' = L!Unsettled(k)
  BY DEF L!Unsettled, Live
<1> QED
  BY <1>1 DEF InFlightCounts, CountsOf, Strays

\* A load that makes a promise: it found none in flight.
LEMMA CountsAdded ==
  ASSUME LoadTypes, InFlightCounts, NEW c \in Calls, NEW k \in Keys, promise[c] = "none",
         inflight[k] = NoCall, UNCHANGED clears,
         keyOf' = [keyOf EXCEPT ![c] = k], inflight' = [inflight EXCEPT ![k] = c],
         \A d \in Calls : Live(d)' <=> Live(d) \/ d = c
  PROVE  InFlightCounts'
<1> SUFFICES ASSUME NEW j \in Keys PROVE CountsOf(j)'
  BY DEF InFlightCounts
<1>1. CountsOf(j)
  BY DEF InFlightCounts
<1>2. CASE j # k
  <2>1. L!Unsettled(j)' = L!Unsettled(j) /\ inflight'[j] = inflight[j]
    BY <1>2 DEF L!Unsettled, Live, LoadTypes
  <2> QED
    BY <1>1, <2>1 DEF CountsOf, Strays
<1>3. CASE j = k
  <2>1. L!Unsettled(j)' = L!Unsettled(j) \cup {c} /\ inflight'[j] = c /\ c \notin L!Unsettled(j)
    BY <1>3 DEF L!Unsettled, Live, LoadTypes
  <2>2. Strays(j) = L!Unsettled(j) /\ Strays(j)' = L!Unsettled(j)
    BY <1>3, <2>1, LoaderAssumption DEF Strays, L!Unsettled
  <2>3. IsFiniteSet(L!Unsettled(j)')
    BY <1>1, <2>1, FS_AddElement DEF CountsOf
  <2> QED
    BY <1>1, <2>1, <2>2, <2>3 DEF CountsOf
<1> QED
  BY <1>2, <1>3

\* The end of a promise takes the key from #inflight, whoever's promise is there.
LEMMA CountsSettled ==
  ASSUME LoadTypes, PromiseTracked, InFlightCounts, NEW c \in Calls, L!Settle(c)
  PROVE  InFlightCounts'
<1> PICK k \in Keys : k = keyOf[c]
  BY DEF L!Settle, PromiseTracked
<1>1. k \in Keys /\ c \in L!Unsettled(k) /\ clears' = clears /\ keyOf' = keyOf
  BY DEF L!Settle, PromiseTracked, L!Unsettled
<1>2. L!Unsettled(k)' = L!Unsettled(k) \ {c} /\ inflight'[k] = NoCall
  BY <1>1 DEF L!Settle, L!Unsettled, LoadTypes
<1>3. CountsOf(k)
  BY <1>1 DEF InFlightCounts
<1>4. CountsOf(k)'
  <2> DEFINE U == L!Unsettled(k)
  <2>1. Strays(k)' = U \ {c}
    BY <1>2, LoaderAssumption DEF Strays, L!Unsettled
  <2>2. Cardinality(U \ {c}) = Cardinality(U) - 1 /\ IsFiniteSet(U \ {c})
    BY <1>1, <1>3, FS_RemoveElement DEF CountsOf
  <2>3. Cardinality(U) - 1 <= clears
    BY <1>3, StraysCounted
  <2> QED
    BY <1>1, <1>2, <2>1, <2>2, <2>3 DEF CountsOf
<1>5. ASSUME NEW j \in Keys, j # k PROVE CountsOf(j)'
  <2>1. L!Unsettled(j)' = L!Unsettled(j) /\ inflight'[j] = inflight[j]
    BY <1>1, <1>5 DEF L!Settle, L!Unsettled, LoadTypes
  <2> QED
    BY <1>1, <2>1, <1>5 DEF CountsOf, Strays, InFlightCounts
<1> QED
  BY <1>4, <1>5 DEF InFlightCounts

\* clear() makes a stray of the promise in flight.
LEMMA CountsCleared ==
  ASSUME LoadTypes, InFlightCounts, NEW k \in Keys, L!Clear(k)
  PROVE  InFlightCounts'
<1> SUFFICES ASSUME NEW j \in Keys PROVE CountsOf(j)'
  BY DEF InFlightCounts
<1>1. CountsOf(j) /\ clears' = clears + 1 /\ clears \in Nat
  BY DEF InFlightCounts, L!Clear, LoadTypes
<1>2. L!Unsettled(j)' = L!Unsettled(j)
  BY DEF L!Clear, L!Unsettled
<1>3. CASE j # k
  <2>1. inflight'[j] = inflight[j]
    BY <1>3 DEF L!Clear, LoadTypes
  <2>2. Cardinality(Strays(j)) <= clears + 1
    BY <1>1, StraysCounted DEF CountsOf
  <2> QED
    BY <1>1, <1>2, <2>1, <2>2 DEF CountsOf, Strays
<1>4. CASE j = k
  <2>1. inflight'[j] = NoCall
    BY <1>4 DEF L!Clear, LoadTypes
  <2>2. Strays(j)' = L!Unsettled(j)
    BY <1>2, <2>1, LoaderAssumption DEF Strays, L!Unsettled
  <2>3. Cardinality(L!Unsettled(j)) <= clears + 1
    BY <1>1, StraysCounted
  <2> QED
    BY <1>1, <1>2, <2>1, <2>2, <2>3 DEF CountsOf
<1> QED
  BY <1>3, <1>4

-----------------------------------------------------------------------------
\* #dispatch() of a queue whose promises are queued or new.
Dispatched(queue) ==
  /\ promise' \in [Calls -> {"none", "queued", "batched", "resolved", "over"}]
  /\ \A c \in Calls : promise'[c] = IF c \in L!ToSet(queue) THEN "batched" ELSE promise[c]
  /\ waiting' \in Seq(Calls) /\ Queued'
  /\ fetches' \subseteq SUBSET Calls /\ Batched'

LEMMA DispatchBatches ==
  ASSUME LoadTypes, Batched, NEW queue \in Seq(Calls), L!Dispatch(queue),
         \A i \in 1..Len(queue) : promise[queue[i]] \in {"none", "queued"}
  PROVE  Dispatched(queue)
<1> PICK T : T = L!ToSet(queue)
  OBVIOUS
<1>1. T \subseteq Calls /\ \A c \in T : promise[c] \in {"none", "queued"}
  BY DEF L!ToSet
<1>2. promise' = [c \in Calls |-> IF c \in T THEN "batched" ELSE promise[c]]
  BY DEF L!Dispatch
<1>3. waiting' = <<>> /\ fetches' \subseteq fetches \cup {T}
  BY DEF L!Dispatch
<1>4. fetches' \subseteq SUBSET Calls
  BY <1>1, <1>3 DEF LoadTypes
<1>5. \A batch \in fetches : batch \cap T = {}
  BY <1>1 DEF Batched
<1>6. Batched'
  BY <1>2, <1>3, <1>4, <1>5, SMTT(30) DEF Batched, LoadTypes
<1>7. waiting' \in Seq(Calls) /\ Queued'
  BY <1>3 DEF Queued
<1>8. promise' \in [Calls -> {"none", "queued", "batched", "resolved", "over"}]
  BY <1>2 DEF LoadTypes
<1> QED
  BY <1>2, <1>4, <1>6, <1>7, <1>8 DEF Dispatched

\* A batch that is over, by its answers or by an error.
Unbatched(batch) ==
  /\ fetches' \subseteq SUBSET Calls /\ Batched' /\ Queued'
  /\ promise' \in [Calls -> {"none", "queued", "batched", "resolved", "over"}]
  /\ \A c \in Calls : /\ Live(c)' <=> Live(c)
                      /\ promise'[c] # "none" <=> promise[c] # "none"

LEMMA BatchEnds ==
  ASSUME LoadTypes, Batched, Queued, NEW batch \in fetches, fetches' = fetches \ {batch},
         promise' = [c \in Calls |-> IF c \in batch THEN "resolved" ELSE promise[c]],
         UNCHANGED waiting
  PROVE  Unbatched(batch)
<1>1. promise' \in [Calls -> {"none", "queued", "batched", "resolved", "over"}]
  BY DEF LoadTypes
<1>2. Batched' /\ fetches' \subseteq SUBSET Calls
  BY DEF Batched, LoadTypes
<1>3. Queued'
  BY DEF Queued, Batched, LoadTypes
<1>4. \A c \in Calls : /\ Live(c)' <=> Live(c)
                       /\ promise'[c] # "none" <=> promise[c] # "none"
  BY DEF Batched, Live
<1> QED
  BY <1>1, <1>2, <1>3, <1>4 DEF Unbatched

\* Append() as the solver needs it.
LEMMA AppendCall ==
  ASSUME NEW queue \in Seq(Calls), NEW c \in Calls
  PROVE  /\ Append(queue, c) \in Seq(Calls)
         /\ Len(Append(queue, c)) = Len(queue) + 1
         /\ \A i \in 1..Len(queue) : Append(queue, c)[i] = queue[i]
         /\ Append(queue, c)[Len(queue) + 1] = c
         /\ L!ToSet(Append(queue, c)) = L!ToSet(queue) \cup {c}
<1>1. /\ Append(queue, c) \in Seq(Calls)
      /\ Len(Append(queue, c)) = Len(queue) + 1
      /\ \A i \in 1..Len(queue) : Append(queue, c)[i] = queue[i]
      /\ Append(queue, c)[Len(queue) + 1] = c
  OBVIOUS
<1>2. \A s \in Seq(Calls) : \A d : d \in L!ToSet(s) <=> \E i \in 1..Len(s) : d = s[i]
  BY DEF L!ToSet
<1> PICK longer \in Seq(Calls) : longer = Append(queue, c)
  BY <1>1
<1>3. \A d : d \in L!ToSet(longer) <=> d \in L!ToSet(queue) \/ d = c
  <2> TAKE d
  <2>1. Len(queue) \in Nat /\ 1..Len(longer) = 1..Len(queue) \cup {Len(queue) + 1}
    BY <1>1
  <2>2. d \in L!ToSet(longer) <=> \E i \in 1..Len(longer) : d = longer[i]
    BY <1>2
  <2>3. d \in L!ToSet(queue) <=> \E i \in 1..Len(queue) : d = queue[i]
    BY <1>2
  <2>4. longer[Len(queue) + 1] = c /\ \A i \in 1..Len(queue) : longer[i] = queue[i]
    BY <1>1
  <2> QED
    BY <2>1, <2>2, <2>3, <2>4
<1> QED
  BY <1>1, <1>3

LEMMA LoadKeeps ==
  ASSUME LoadInv, NEW c \in Calls, NEW k \in Keys, NEW style \in L!Styles, L!Load(c, k, style)
  PROVE  LoadInv'
<1>1. /\ loads[c] = "idle" /\ promise[c] = "none" /\ loads' = [loads EXCEPT ![c] = "waiting"]
      /\ keyOf' = [keyOf EXCEPT ![c] = k]
      /\ UNCHANGED <<onRelays, index, record, found, denied, clears>>
  BY DEF L!Load, LoadInv, PromiseTracked
<1>2. MissIsTrue' /\ L!NoFalseMiss'
  BY <1>1 DEF LoadInv, MissIsTrue, L!NoFalseMiss
<1>3. /\ keyOf' \in [Calls -> Keys \cup {NoKey}] /\ loads' \in [Calls -> {"idle", "waiting", "done"}]
      /\ record' \in [L!Addresses -> {"none", "miss", "hit"}] /\ clears' \in Nat
  BY <1>1 DEF LoadInv, LoadTypes
<1>4. CASE inflight[k] # NoCall /\ UNCHANGED <<promise, waiting, scheduled, ticks, inflight, fetches>>
  <2>1. \A d \in Calls : /\ Live(d)' <=> Live(d)
                         /\ Live(d) => keyOf'[d] = keyOf[d]
    BY <1>1, <1>4 DEF Live, LoadInv, LoadTypes
  <2>2. InFlightCounts'
    BY <1>1, <1>4, <2>1, CountsKept DEF LoadInv
  <2>3. LoadTypes'
    BY <1>3, <1>4 DEF LoadInv, LoadTypes
  <2>4. PromiseTracked'
    BY <1>1, <1>4 DEF LoadInv, LoadTypes, PromiseTracked
  <2>5. Queued' /\ Batched'
    BY <1>4 DEF LoadInv, Queued, Batched
  <2> QED
    BY <1>2, <2>2, <2>3, <2>4, <2>5 DEF LoadInv
<1>5. CASE /\ inflight[k] = NoCall /\ inflight' = [inflight EXCEPT ![k] = c]
           /\ L!Dispatch(Append(waiting, c))
  <2> PICK queue \in Seq(Calls) : queue = Append(waiting, c)
    BY AppendCall DEF LoadInv, LoadTypes
  <2>1. \A i \in 1..Len(queue) : promise[queue[i]] \in {"none", "queued"}
    BY <1>1, AppendCall DEF LoadInv, LoadTypes, Queued
  <2>2. Dispatched(queue)
    BY <1>5, <2>1, DispatchBatches DEF LoadInv
  <2>3. \A d \in L!ToSet(queue) : d = c \/ promise[d] = "queued"
    BY AppendCall DEF LoadInv, LoadTypes, Queued, L!ToSet
  <2>4. c \in L!ToSet(queue)
    BY AppendCall DEF LoadInv, LoadTypes
  <2>5. \A d \in Calls : Live(d)' <=> Live(d) \/ d = c
    BY <2>2, <2>3, <2>4 DEF Live, Dispatched
  <2>6. InFlightCounts'
    BY <1>1, <1>5, <2>5, CountsAdded DEF LoadInv
  <2>7. LoadTypes'
    BY <1>3, <1>5, <2>2 DEF LoadInv, LoadTypes, Dispatched
  <2>8. PromiseTracked'
    BY <1>1, <2>2, <2>3 DEF LoadInv, LoadTypes, PromiseTracked, Dispatched
  <2> QED
    BY <1>2, <2>2, <2>6, <2>7, <2>8 DEF LoadInv, Dispatched
<1>6. CASE /\ inflight[k] = NoCall /\ inflight' = [inflight EXCEPT ![k] = c]
           /\ waiting' = Append(waiting, c) /\ promise' = [promise EXCEPT ![c] = "queued"]
           /\ UNCHANGED fetches
  <2>1. \A d \in Calls : Live(d)' <=> Live(d) \/ d = c
    BY <1>6 DEF Live, LoadInv, LoadTypes
  <2>2. InFlightCounts'
    BY <1>1, <1>6, <2>1, CountsAdded DEF LoadInv
  <2>3. LoadTypes'
    BY <1>3, <1>6, AppendCall DEF LoadInv, LoadTypes
  <2>4. PromiseTracked'
    BY <1>1, <1>6 DEF LoadInv, LoadTypes, PromiseTracked
  <2>5. Queued'
    <3> SUFFICES ASSUME NEW i \in 1..Len(waiting') PROVE promise'[waiting'[i]] = "queued"
      BY DEF Queued
    <3>1. i \in 1..Len(waiting) \/ i = Len(waiting) + 1
      BY <1>6, AppendCall DEF LoadInv, LoadTypes
    <3>2. waiting \in Seq(Calls) /\ \A j \in 1..Len(waiting) : waiting[j] \in Calls
      BY DEF LoadInv, LoadTypes
    <3> QED
      BY <1>6, <3>1, <3>2, AppendCall DEF LoadInv, LoadTypes, Queued
  <2>6. Batched'
    BY <1>1, <1>6 DEF LoadInv, LoadTypes, Batched
  <2> QED
    BY <1>2, <2>2, <2>3, <2>4, <2>5, <2>6 DEF LoadInv
<1> QED
  BY <1>4, <1>5, <1>6 DEF L!Load, L!InFlight

LEMMA LoadStep ==
  ASSUME LoadInv, [L!Next]_loaderVars
  PROVE  LoadInv'
<1>1. ASSUME NEW a, L!Publish(a) \/ L!Evict(a) \/ L!Forget(a)
      PROVE  LoadInv'
  <2>1. /\ UNCHANGED <<keyOf, loads, promise, waiting, inflight, fetches, found, denied, clears>>
        /\ record' \in [L!Addresses -> {"none", "miss", "hit"}]
        /\ \A b \in L!Addresses : record'[b] = "miss" => record[b] = "miss"
    BY <1>1 DEF L!Publish, L!Evict, L!Forget, LoadInv, LoadTypes
  <2>2. InFlightCounts'
    BY <2>1, CountsKept DEF LoadInv, Live
  <2> QED
    BY <2>1, <2>2 DEF LoadInv, LoadTypes, PromiseTracked, Queued, Batched, MissIsTrue, L!NoFalseMiss
<1>2. ASSUME NEW c \in Calls, NEW k \in Keys, NEW style \in L!Styles, L!Answered(c, k, style)
      PROVE  LoadInv'
  <2>1. /\ UNCHANGED <<promise, waiting, inflight, fetches, record, found, clears>>
        /\ promise[c] = "none" /\ keyOf' = [keyOf EXCEPT ![c] = k]
        /\ loads' = [loads EXCEPT ![c] = "done"]
    BY <1>2 DEF L!Answered, LoadInv, PromiseTracked
  <2>2. AddressOf[k] \in L!Addresses
    BY DEF L!Addresses
  <2>3. denied' = denied
    BY <1>2, <2>2 DEF L!Answered, L!Spares, LoadInv, MissIsTrue
  <2>4. InFlightCounts'
    BY <2>1, CountsKept DEF LoadInv, LoadTypes, Live
  <2> QED
    BY <2>1, <2>3, <2>4
    DEF LoadInv, LoadTypes, PromiseTracked, Queued, Batched, MissIsTrue, L!NoFalseMiss
<1>3. CASE L!Tick
  <2>1. /\ UNCHANGED <<keyOf, loads, inflight, record, found, denied, clears>>
        /\ waiting \in Seq(Calls) /\ L!Dispatch(waiting)
    BY <1>3 DEF L!Tick, LoadInv, LoadTypes
  <2>2. \A i \in 1..Len(waiting) : promise[waiting[i]] \in {"none", "queued"}
    BY DEF LoadInv, Queued
  <2>3. Dispatched(waiting)
    BY <2>1, <2>2, DispatchBatches DEF LoadInv
  <2>4. \A c \in L!ToSet(waiting) : promise[c] = "queued"
    BY <2>1 DEF LoadInv, Queued, L!ToSet
  <2>5. InFlightCounts'
    BY <2>1, <2>3, <2>4, CountsKept DEF LoadInv, Live, Dispatched
  <2> QED
    BY <2>1, <2>3, <2>4, <2>5
    DEF LoadInv, LoadTypes, PromiseTracked, MissIsTrue, L!NoFalseMiss, Dispatched
<1>4. ASSUME NEW batch \in fetches, L!Fetched(batch)
      PROVE  LoadInv'
  <2>1. /\ UNCHANGED <<keyOf, loads, waiting, inflight, denied, clears>>
        /\ fetches' = fetches \ {batch}
        /\ promise' = [c \in Calls |-> IF c \in batch THEN "resolved" ELSE promise[c]]
    BY <1>4 DEF L!Fetched
  <2>2. Unbatched(batch)
    BY <2>1, BatchEnds DEF LoadInv
  <2>3. InFlightCounts'
    BY <2>1, <2>2, CountsKept DEF LoadInv, Unbatched
  <2>4. MissIsTrue' /\ record' \in [L!Addresses -> {"none", "miss", "hit"}]
    BY <1>4 DEF L!Fetched, LoadInv, LoadTypes, MissIsTrue
  <2> QED
    BY <2>1, <2>2, <2>3, <2>4 DEF LoadInv, LoadTypes, PromiseTracked, L!NoFalseMiss, Unbatched
<1>5. ASSUME NEW batch \in fetches, L!FetchFails(batch)
      PROVE  LoadInv'
  <2>1. /\ UNCHANGED <<keyOf, loads, waiting, inflight, denied, clears, record, found>>
        /\ fetches' = fetches \ {batch}
        /\ promise' = [c \in Calls |-> IF c \in batch THEN "resolved" ELSE promise[c]]
    BY <1>5 DEF L!FetchFails
  <2>2. Unbatched(batch)
    BY <2>1, BatchEnds DEF LoadInv
  <2>3. InFlightCounts'
    BY <2>1, <2>2, CountsKept DEF LoadInv, Unbatched
  <2> QED
    BY <2>1, <2>2, <2>3 DEF LoadInv, LoadTypes, PromiseTracked, MissIsTrue, L!NoFalseMiss, Unbatched
<1>6. ASSUME NEW c \in Calls, L!Settle(c)
      PROVE  LoadInv'
  <2>1. /\ UNCHANGED <<keyOf, waiting, fetches, record, found, denied, clears>>
        /\ promise[c] = "resolved" /\ promise' = [promise EXCEPT ![c] = "over"]
        /\ inflight' = [inflight EXCEPT ![keyOf[c]] = NoCall]
        /\ loads' = [d \in Calls |-> IF awaits[d] = c THEN "done" ELSE loads[d]]
    BY <1>6 DEF L!Settle
  <2>2. InFlightCounts'
    BY <1>6, CountsSettled DEF LoadInv
  <2>3. LoadTypes' /\ PromiseTracked'
    BY <2>1 DEF LoadInv, LoadTypes, PromiseTracked
  <2>4. Queued' /\ Batched'
    BY <2>1 DEF LoadInv, LoadTypes, Queued, Batched
  <2> QED
    BY <2>1, <2>2, <2>3, <2>4 DEF LoadInv, MissIsTrue, L!NoFalseMiss
<1>7. ASSUME NEW k \in Keys, L!Clear(k)
      PROVE  LoadInv'
  <2>1. /\ UNCHANGED <<keyOf, loads, promise, waiting, fetches, record, found, denied>>
        /\ inflight' = [inflight EXCEPT ![k] = NoCall] /\ clears' = clears + 1
    BY <1>7 DEF L!Clear
  <2>2. InFlightCounts'
    BY <1>7, CountsCleared DEF LoadInv
  <2> QED
    BY <2>1, <2>2 DEF LoadInv, LoadTypes, PromiseTracked, Queued, Batched, MissIsTrue, L!NoFalseMiss
<1>8. CASE UNCHANGED loaderVars
  <2>1. InFlightCounts'
    BY <1>8, CountsKept DEF LoadInv, loaderVars, Live
  <2> QED
    BY <1>8, <2>1
    DEF LoadInv, LoadTypes, PromiseTracked, Queued, Batched, MissIsTrue, L!NoFalseMiss, loaderVars
<1> QED
  BY LoadKeeps, <1>1, <1>2, <1>3, <1>4, <1>5, <1>6, <1>7, <1>8 DEF L!Next

(* dataloader.ts and replaceable.ts: at most one request for a key is under  *)
(* way, and one more for each clear(), although the end of any of them takes *)
(* the key from #inflight; and no author is denied from memory an event that *)
(* the last fetch found.                                                     *)
THEOREM LoadsAreShared == Spec => []LoadsShared
<1>1. Init => LoadInv
  BY LoadInit DEF Init
<1>2. LoadInv /\ [Next]_partVars => LoadInv'
  BY LoadStep, PartSteps
<1>3. LoadInv => LoadsShared
  BY StraysCounted, Counting
  DEF LoadInv, InFlightCounts, LoadsShared, L!LoadsShared, L!Coalesced
<1> QED
  BY <1>1, <1>2, <1>3, PTL DEF Spec

-----------------------------------------------------------------------------
(* The fan-in.                                                               *)

EntryStates == {"absent", "connecting", "live", "ended", "failed", "leaked", "twice"}
Finished == {"ended", "failed", "leaked", "twice"}
Deliverers == F!In("live") \cup F!In("connecting")

FanInTypes ==
  /\ entry \in [Entries -> EntryStates]
  /\ closed \in BOOLEAN /\ eoseFired \in BOOLEAN /\ sawEose \in BOOLEAN /\ eoseTimer \in BOOLEAN
  /\ byTimer \in BOOLEAN /\ endedItself \in BOOLEAN
  /\ pending \in Int /\ pendingEose \in Int
  /\ eoseDone \subseteq F!Wanted

\* The EOSE still to come are counted as long as the call lives, the entries as
\* long as it is open and none was counted twice.
EoseCounted == pendingEose = Cardinality(F!Wanted \ eoseDone)
OpenCounted == ~closed /\ F!In("twice") = {} => pending = Cardinality(Deliverers)
OverSettled == ~closed => \A e \in Entries : entry[e] \in Finished => e \in eoseDone

\* The EOSE timer is stopped by whatever it would be too late for.
TimerOpen == eoseTimer => ~closed /\ ~eoseFired /\ F!Wanted # {}
EndedCloses == endedItself => closed

FanInInv == /\ FanInTypes /\ EoseCounted /\ OpenCounted /\ OverSettled /\ TimerOpen /\ EndedCloses
            /\ F!ClosedWhenQuiet /\ F!EoseOnce

LEMMA FanInInit == F!Init => FanInInv
<1> SUFFICES ASSUME F!Init PROVE FanInInv
  OBVIOUS
<1>1. IsFiniteSet(F!Wanted) /\ Cardinality(F!Wanted) \in Nat
  BY FanInAssumption, FS_Subset, FS_CardinalityType DEF F!Wanted
<1>2. Deliverers = F!Wanted /\ F!Wanted \ eoseDone = F!Wanted
  BY DEF F!Init, Deliverers, F!In, F!Wanted
<1>3. FanInTypes
  <2>1. entry \in [Entries -> EntryStates]
    BY DEF F!Init, EntryStates
  <2>2. eoseTimer \in BOOLEAN
    BY Zenon DEF F!Init
  <2>3. pending \in Int /\ pendingEose \in Int
    BY <1>1, Counting DEF F!Init
  <2> QED
    BY <2>1, <2>2, <2>3 DEF F!Init, FanInTypes
<1>4. EoseCounted /\ OpenCounted
  BY <1>2, Counting DEF F!Init, EoseCounted, OpenCounted
<1>5. OverSettled /\ TimerOpen /\ EndedCloses
  BY DEF F!Init, OverSettled, TimerOpen, EndedCloses, Finished
<1>6. F!ClosedWhenQuiet
  BY <1>2 DEF F!Init, F!ClosedWhenQuiet, Deliverers
<1>7. F!EoseOnce
  BY DEF F!Init, F!EoseOnce
<1> QED
  BY <1>3, <1>4, <1>5, <1>6, <1>7 DEF FanInInv

\* What counting one settled entry does.
CountedBy(e, eosed, over, caller) ==
  /\ FanInTypes' /\ EoseCounted' /\ TimerOpen'
  /\ eoseDone' = eoseDone \cup {e}
  /\ pending' = IF over THEN pending - 1 ELSE pending
  /\ sawEose => sawEose'
  /\ sawEose' => sawEose \/ (eosed /\ e \notin eoseDone)
  /\ eoseFired => eoseFired'
  /\ eoseFired' => eoseFired \/ (sawEose' /\ eoseDone' = F!Wanted)
  /\ sawEose' /\ eoseDone' = F!Wanted /\ e \notin eoseDone => eoseFired' \/ closed
  /\ closed \/ caller => closed'
  /\ closed' => closed \/ caller \/ (over /\ pending <= 1)
  /\ over /\ ~closed' => pending > 1
  /\ endedItself' => endedItself \/ (over /\ pending <= 1 /\ ~closed /\ ~caller)
  /\ endedItself' => closed'

LEMMA CountCounts ==
  ASSUME FanInTypes, EoseCounted, TimerOpen, EndedCloses, NEW e \in F!Wanted,
         NEW eosed \in BOOLEAN, NEW over \in BOOLEAN, NEW caller \in BOOLEAN,
         F!Count(e, eosed, over, caller),
         F!Wanted' = F!Wanted, entry' \in [Entries -> EntryStates], UNCHANGED byTimer
  PROVE  CountedBy(e, eosed, over, caller)
<1> DEFINE first == e \notin eoseDone
           left  == IF first THEN pendingEose - 1 ELSE pendingEose
           fires == first /\ left = 0 /\ (sawEose \/ eosed) /\ ~closed /\ ~eoseFired
           shut  == closed \/ (fires /\ caller)
           ends  == over /\ pending <= 1 /\ ~shut
<1>1. /\ eoseDone' = IF first THEN eoseDone \cup {e} ELSE eoseDone
      /\ sawEose' = (sawEose \/ (first /\ eosed))
      /\ pendingEose' = left
      /\ eoseFired' = (eoseFired \/ fires)
      /\ pending' = IF over THEN pending - 1 ELSE pending
      /\ closed' = (shut \/ ends)
      /\ endedItself' = (endedItself \/ ends)
      /\ eoseTimer' = (eoseTimer /\ ~fires /\ ~closed')
      /\ caller => fires
  BY DEF F!Count
<1>2. IsFiniteSet(F!Wanted \ eoseDone)
  BY FanInAssumption, FS_Subset DEF F!Wanted
<1>3. eoseDone' = eoseDone \cup {e} /\ F!Wanted \ eoseDone' = (F!Wanted \ eoseDone) \ {e}
  BY <1>1
<1>4. pendingEose' = Cardinality(F!Wanted \ eoseDone') /\ Cardinality(F!Wanted \ eoseDone') \in Nat
      /\ IsFiniteSet(F!Wanted \ eoseDone')
  BY <1>1, <1>2, <1>3, FS_RemoveElement, FS_CardinalityType, ZenonT(60) DEF EoseCounted
<1>5. first /\ left = 0 <=> first /\ eoseDone' = F!Wanted
  <2>1. eoseDone' \subseteq F!Wanted
    BY <1>3 DEF FanInTypes
  <2>2. pendingEose' = 0 <=> F!Wanted \ eoseDone' = {}
    BY <1>4, FS_EmptySet
  <2> QED
    BY <1>1, <2>1, <2>2
<1> HIDE DEF left
<1>6. FanInTypes' /\ EoseCounted' /\ TimerOpen'
  BY <1>1, <1>3, <1>4 DEF FanInTypes, EoseCounted, TimerOpen
<1> QED
  BY <1>1, <1>3, <1>5, <1>6 DEF CountedBy, EndedCloses, FanInTypes

\* An entry settles to a state, perhaps with the caller's close() inside.
Settles(e, state, caller) ==
  \A d \in Entries :
    entry'[d] = IF caller /\ (IF d = e THEN state ELSE entry[d]) = "live" THEN "ended"
                ELSE IF d = e THEN state ELSE entry[d]

\* What is true of every settled entry: only those that can deliver, or were
\* left registered, settle, and "live" is that of an EOSE.
Settling(e, state, eosed, over) ==
  /\ entry[e] \in {"connecting", "live", "leaked"} /\ state \in {"live"} \cup Finished
  /\ eosed => entry[e] = "live"
  /\ over <=> state # "live"
  /\ state = "live" => entry[e] = "live"
  /\ entry[e] = "leaked" <=> state = "twice"

LEMMA SettleKeeps ==
  ASSUME FanInInv, NEW e \in Entries, NEW state, NEW eosed \in BOOLEAN, NEW over \in BOOLEAN,
         NEW caller \in BOOLEAN, Settling(e, state, eosed, over),
         F!Settle(e, state, caller), F!Count(e, eosed, over, caller), UNCHANGED byTimer
  PROVE  FanInInv'
<1>1. /\ entry' \in [Entries -> EntryStates]
      /\ Settles(e, state, caller)
  BY DEF F!Settle, F!Closers, Settles, Settling, FanInInv, FanInTypes, EntryStates, Finished
<1>2. F!Wanted' = F!Wanted /\ e \in F!Wanted
  BY <1>1 DEF F!Wanted, Settling, Settles, Finished
<1>3. CountedBy(e, eosed, over, caller)
  BY <1>1, <1>2, CountCounts DEF FanInInv
<1>4. F!In("twice")' = {} => F!In("twice") = {} /\ entry[e] \in {"connecting", "live"} /\ e \in Deliverers
  BY <1>1 DEF F!In, Settling, Settles, Deliverers, Finished
<1>5. ~caller => Deliverers' = IF over THEN Deliverers \ {e} ELSE Deliverers
  BY <1>1 DEF F!In, Settling, Settles, Deliverers, Finished
<1>6. IsFiniteSet(Deliverers) /\ Cardinality(Deliverers) \in Nat
  BY FanInAssumption, FS_Subset, FS_CardinalityType DEF Deliverers, F!In
<1>7. ASSUME F!In("twice")' = {}, ~closed
      PROVE  /\ pending = Cardinality(Deliverers)
             /\ pending <= 1 => Deliverers = {e}
             /\ pending > 1 => Deliverers \ {e} # {}
  <2>1. pending = Cardinality(Deliverers)
    BY <1>4, <1>7 DEF FanInInv, OpenCounted
  <2>2. /\ IsFiniteSet(Deliverers \ {e})
        /\ Cardinality(Deliverers \ {e}) = Cardinality(Deliverers) - 1
    BY <1>4, <1>6, <1>7, FS_RemoveElement
  <2>3. Cardinality(Deliverers \ {e}) = 0 <=> Deliverers \ {e} = {}
    BY <2>2, FS_EmptySet
  <2>4. Cardinality(Deliverers \ {e}) \in Nat
    BY <2>2, FS_CardinalityType
  <2> QED
    BY <1>4, <1>6, <1>7, <2>1, <2>2, <2>3, <2>4
<1>8. OpenCounted'
  <2> SUFFICES ASSUME ~closed', F!In("twice")' = {} PROVE pending' = Cardinality(Deliverers')
    BY DEF OpenCounted
  <2>1. ~closed /\ ~caller
    BY <1>3 DEF CountedBy
  <2>2. pending = Cardinality(Deliverers)
    BY <1>7, <2>1
  <2>3. Cardinality(Deliverers \ {e}) = Cardinality(Deliverers) - 1
    BY <1>4, <1>6, FS_RemoveElement
  <2> QED
    BY <1>3, <1>5, <2>1, <2>2, <2>3 DEF CountedBy
<1>9. OverSettled'
  BY <1>1, <1>3 DEF CountedBy, OverSettled, Settles, FanInInv, Finished
<1>10. F!ClosedWhenQuiet'
  <2> SUFFICES ASSUME F!In("twice")' = {}
               PROVE  /\ closed' => F!In("live")' = {}
                      /\ ~closed' => F!In("live")' \cup F!In("connecting")' # {}
    BY <1>3 DEF F!ClosedWhenQuiet, CountedBy, FanInTypes
  <2>1. CASE closed
    <3>1. F!In("live") = {} /\ closed'
      BY <1>3, <1>4, <2>1 DEF FanInInv, F!ClosedWhenQuiet, CountedBy
    <3> QED
      BY <1>1, <3>1 DEF F!In, Settles, Settling
  <2>2. CASE caller
    BY <1>1, <1>3, <2>2 DEF F!In, Settles, CountedBy
  <2>3. CASE ~closed /\ ~caller /\ closed'
    <3>1. over /\ Deliverers' = {}
      BY <1>3, <1>5, <1>7, <2>3 DEF CountedBy
    <3> QED
      BY <2>3, <3>1 DEF Deliverers
  <2>4. CASE ~closed /\ ~caller /\ ~closed'
    <3>1. Deliverers' # {}
      BY <1>3, <1>4, <1>5, <1>7, <2>4 DEF CountedBy
    <3> QED
      BY <2>4, <3>1 DEF Deliverers
  <2> QED
    BY <1>3, <2>1, <2>2, <2>3, <2>4 DEF CountedBy, FanInTypes
<1>11. F!EoseOnce'
  <2>1. eoseFired' => byTimer' \/ (sawEose' /\ eoseDone' = F!Wanted')
    BY <1>2, <1>3 DEF CountedBy, FanInInv, FanInTypes, F!EoseOnce
  <2>2. sawEose' /\ eoseDone' = F!Wanted' => eoseFired' \/ closed
    BY <1>2, <1>3 DEF CountedBy, FanInInv, F!EoseOnce
  <2>3. ASSUME sawEose', endedItself', F!In("twice")' = {}
        PROVE  eoseFired'
    <3>1. CASE endedItself
      <4>1. closed /\ F!In("live") = {}
        BY <1>4, <2>3, <3>1 DEF FanInInv, EndedCloses, F!ClosedWhenQuiet
      <4>2. sawEose
        BY <1>3, <2>3, <4>1 DEF CountedBy, Settling, F!In
      <4> QED
        BY <1>3, <1>4, <2>3, <3>1, <4>2 DEF CountedBy, FanInInv, F!EoseOnce
    <3>2. CASE ~endedItself
      <4>1. over /\ pending <= 1 /\ ~closed /\ ~caller
        BY <1>3, <2>3, <3>2 DEF CountedBy
      <4>2. Deliverers = {e}
        BY <1>7, <2>3, <4>1
      <4>3. \A d \in F!Wanted : d = e \/ entry[d] \in Finished
        BY <4>2 DEF Deliverers, F!In, F!Wanted, FanInInv, FanInTypes, EntryStates, Finished
      <4>4. eoseDone' = F!Wanted'
        BY <1>2, <1>3, <4>1, <4>3 DEF CountedBy, FanInInv, FanInTypes, OverSettled, F!Wanted
      <4> QED
        BY <2>2, <2>3, <4>1, <4>4
    <3> QED
      BY <3>1, <3>2
  <2> QED
    BY <1>3, <2>1, <2>2, <2>3 DEF F!EoseOnce, CountedBy
<1> QED
  BY <1>3, <1>8, <1>9, <1>10, <1>11 DEF FanInInv, CountedBy, EndedCloses

\* close() by the caller or the signal counts the live entries together.
LEMMA CloseKeeps ==
  ASSUME FanInInv, F!Close
  PROVE  FanInInv'
<1> PICK live : live = F!In("live")
  OBVIOUS
<1>1. /\ ~closed /\ closed' = TRUE /\ eoseTimer' = FALSE
      /\ entry' = [d \in Entries |-> IF entry[d] = "live" THEN "ended" ELSE entry[d]]
      /\ pending' = pending - Cardinality(live) /\ eoseDone' = eoseDone \cup live
      /\ pendingEose' = pendingEose - Cardinality(live \ eoseDone)
      /\ UNCHANGED <<eoseFired, sawEose, byTimer, endedItself>>
  BY Counting DEF F!Close, F!Closers
<1>2. F!Wanted' = F!Wanted /\ live \subseteq F!Wanted /\ F!In("twice")' = F!In("twice")
      /\ F!In("live")' = {}
  BY <1>1 DEF F!Wanted, F!In, FanInInv, FanInTypes
<1>3. IsFiniteSet(F!Wanted \ eoseDone) /\ IsFiniteSet(live)
  BY FanInAssumption, FS_Subset DEF F!Wanted, F!In
<1>4. Cardinality(live) \in Nat
  BY <1>3, FS_CardinalityType
<1>5. Cardinality((F!Wanted \ eoseDone) \ live) =
        Cardinality(F!Wanted \ eoseDone) - Cardinality((F!Wanted \ eoseDone) \cap live)
  BY <1>3, FS_Difference
<1>6. (F!Wanted \ eoseDone) \cap live = live \ eoseDone /\ (F!Wanted \ eoseDone) \ live = F!Wanted' \ eoseDone'
  BY <1>1, <1>2
<1>7. EoseCounted'
  BY <1>1, <1>5, <1>6 DEF FanInInv, EoseCounted
<1>8. Cardinality(F!Wanted' \ eoseDone') \in Nat
  BY <1>3, <1>6, FS_Subset, FS_CardinalityType
<1>9. FanInTypes'
  <2>1. entry' \in [Entries -> EntryStates]
    BY <1>1 DEF FanInInv, FanInTypes, EntryStates
  <2>2. pending' \in Int /\ pendingEose' \in Int
    BY <1>1, <1>4, <1>7, <1>8 DEF FanInInv, FanInTypes, EoseCounted
  <2>3. eoseDone' \subseteq F!Wanted'
    BY <1>1, <1>2 DEF FanInInv, FanInTypes
  <2> QED
    BY <1>1, <2>1, <2>2, <2>3 DEF FanInInv, FanInTypes
<1>10. F!EoseOnce'
  BY <1>1, <1>2 DEF FanInInv, F!EoseOnce, FanInTypes, EndedCloses
<1> QED
  BY <1>1, <1>2, <1>7, <1>9, <1>10
  DEF FanInInv, OpenCounted, OverSettled, TimerOpen, EndedCloses, F!ClosedWhenQuiet

LEMMA FanInStep ==
  ASSUME FanInInv, [F!Next]_fanInVars
  PROVE  FanInInv'
<1>1. ASSUME NEW e \in Entries, F!Attach(e)
      PROVE  FanInInv'
  <2>1. /\ entry[e] = "connecting"
        /\ entry' = [entry EXCEPT ![e] = IF closed THEN "ended" ELSE "live"]
        /\ UNCHANGED <<closed, eoseFired, sawEose, eoseDone, pendingEose, pending, eoseTimer, byTimer,
                       endedItself>>
    BY <1>1 DEF F!Attach, F!MayAttach, FanInInv, FanInTypes
  <2>2. /\ F!Wanted' = F!Wanted /\ F!In("twice")' = F!In("twice")
        /\ closed => F!In("live")' = F!In("live")
        /\ ~closed => Deliverers' = Deliverers
    BY <2>1 DEF F!Wanted, F!In, Deliverers, FanInInv, FanInTypes
  <2>3. FanInTypes' /\ OverSettled'
    BY <2>1, <2>2 DEF FanInInv, FanInTypes, EntryStates, OverSettled, Finished
  <2> QED
    BY <2>1, <2>2, <2>3
    DEF FanInInv, EoseCounted, OpenCounted, TimerOpen, EndedCloses, F!ClosedWhenQuiet, F!EoseOnce,
        Deliverers
<1>2. ASSUME NEW e \in Entries, NEW caller \in BOOLEAN, F!Fail(e, caller)
      PROVE  FanInInv'
  <2>1. Settling(e, "failed", FALSE, TRUE)
    BY <1>2 DEF F!Fail, Settling, Finished
  <2> QED
    BY <1>2, <2>1, SettleKeeps DEF F!Fail
<1>3. ASSUME NEW e \in Entries, NEW caller \in BOOLEAN, F!FailRegistered(e, caller)
      PROVE  FanInInv'
  <2>1. Settling(e, "leaked", FALSE, TRUE)
    BY <1>3 DEF F!FailRegistered, Settling, Finished
  <2> QED
    BY <1>3, <2>1, SettleKeeps DEF F!FailRegistered
<1>4. ASSUME NEW e \in Entries, NEW caller \in BOOLEAN, F!Eose(e, caller)
      PROVE  FanInInv'
  <2>1. Settling(e, "live", TRUE, FALSE)
    BY <1>4 DEF F!Eose, Settling, Finished
  <2> QED
    BY <1>4, <2>1, SettleKeeps DEF F!Eose
<1>5. ASSUME NEW e \in Entries, NEW caller \in BOOLEAN, F!Ends(e, caller)
      PROVE  FanInInv'
  <2>1. CASE entry[e] = "live"
    <3>1. Settling(e, "ended", FALSE, TRUE) /\ F!Settle(e, "ended", caller)
      BY <1>5, <2>1 DEF F!Ends, Settling, Finished
    <3> QED
      BY <1>5, <3>1, SettleKeeps DEF F!Ends
  <2>2. CASE entry[e] = "leaked"
    <3>1. Settling(e, "twice", FALSE, TRUE) /\ F!Settle(e, "twice", caller)
      BY <1>5, <2>2 DEF F!Ends, Settling, Finished
    <3> QED
      BY <1>5, <3>1, SettleKeeps DEF F!Ends
  <2> QED
    BY <1>5, <2>1, <2>2 DEF F!Ends
<1>6. ASSUME NEW e \in Entries, F!EoseAndClose(e)
      PROVE  FanInInv'
  <2>1. Settling(e, "ended", TRUE, TRUE)
    BY <1>6 DEF F!EoseAndClose, Settling, Finished
  <2>2. F!Settle(e, "ended", FALSE)
    BY <1>6 DEF F!EoseAndClose, F!Settle, F!Closers, FanInInv, FanInTypes
  <2> QED
    BY <1>6, <2>1, <2>2, SettleKeeps DEF F!EoseAndClose
<1>7. ASSUME NEW caller \in BOOLEAN, F!EoseTimeout(caller)
      PROVE  FanInInv'
  <2>1. /\ ~closed /\ eoseTimer' = FALSE /\ eoseFired' = TRUE /\ byTimer' = TRUE /\ closed' = caller
        /\ entry' = [d \in Entries |-> IF caller /\ entry[d] = "live" THEN "ended" ELSE entry[d]]
        /\ UNCHANGED <<sawEose, eoseDone, pendingEose, pending, endedItself>>
    BY <1>7 DEF F!EoseTimeout, F!Closers, FanInInv, TimerOpen
  <2>2. /\ F!Wanted' = F!Wanted /\ F!In("twice")' = F!In("twice")
        /\ caller => F!In("live")' = {}
        /\ ~caller => entry' = entry
    BY <2>1 DEF F!Wanted, F!In, FanInInv, FanInTypes
  <2>3. FanInTypes' /\ OverSettled'
    BY <2>1, <2>2 DEF FanInInv, FanInTypes, EntryStates, OverSettled
  <2>4. OpenCounted' /\ F!ClosedWhenQuiet'
    BY <2>1, <2>2 DEF FanInInv, OpenCounted, Deliverers, F!In, F!ClosedWhenQuiet
  <2> QED
    BY <2>1, <2>2, <2>3, <2>4 DEF FanInInv, EoseCounted, TimerOpen, EndedCloses, F!EoseOnce
<1>8. CASE F!NoRelays
  <2>1. /\ F!Wanted = {} /\ ~closed /\ closed' = TRUE /\ endedItself' = TRUE
        /\ UNCHANGED <<entry, eoseFired, sawEose, eoseDone, pendingEose, pending, eoseTimer, byTimer>>
    BY <1>8 DEF F!NoRelays
  <2>2. F!Wanted' = {} /\ eoseDone = {} /\ F!In("live")' = {}
    BY <2>1 DEF F!Wanted, F!In, FanInInv, FanInTypes
  <2>3. ~eoseTimer
    BY <2>1, <2>2 DEF FanInInv, TimerOpen
  <2> QED
    BY <2>1, <2>2, <2>3
    DEF FanInInv, FanInTypes, EoseCounted, OpenCounted, OverSettled, TimerOpen, EndedCloses,
        F!ClosedWhenQuiet, F!EoseOnce
<1>9. CASE UNCHANGED fanInVars
  BY <1>9
  DEF fanInVars, FanInInv, FanInTypes, EoseCounted, OpenCounted, OverSettled, TimerOpen, EndedCloses,
      F!ClosedWhenQuiet, F!EoseOnce, Deliverers, F!In, F!Wanted
<1> QED
  BY CloseKeeps, <1>1, <1>2, <1>3, <1>4, <1>5, <1>6, <1>7, <1>8, <1>9 DEF F!Next

(* fan-in.ts:116: for every set of URLs, the fan-in is open exactly as long  *)
(* as one of its entries may deliver, and calls oneose once all of them have *)
(* settled and one of them has sent EOSE, or when its timer fires.           *)
THEOREM FanInCountsRight == Spec => []FanInCounts
<1>1. Init => FanInInv
  BY FanInInit DEF Init
<1>2. FanInInv /\ [Next]_partVars => FanInInv'
  BY FanInStep, PartSteps
<1>3. FanInInv => FanInCounts
  BY DEF FanInInv, FanInCounts, F!FanInCounts
<1> QED
  BY <1>1, <1>2, <1>3, PTL DEF Spec

-----------------------------------------------------------------------------
(* The routing table.                                                        *)

\* The part filters and counts with the same operators as the lemmas.
LEMMA GossipNames ==
  /\ \A s : G!ToSet(s) = ToSet(s)
  /\ \A s, keep : G!Only(s, keep) = Only(s, keep)
  /\ \A X : G!Cardinality(X) = Cardinality(X)
<1>1. \A s, keep : G!Only(s, keep) = Only(s, keep)
  BY DEF G!Only, Only, G!FoldLeft, FoldLeft, G!MapThenFoldSet, MapThenFoldSet, G!Max, Max
<1>2. \A s : G!ToSet(s) = ToSet(s)
  BY DEF G!ToSet, ToSet
<1>3. \A X : G!Cardinality(X) = Cardinality(X)
  BY DEF G!Cardinality, Cardinality
<1> QED
  BY <1>1, <1>2, <1>3

IsSeq(s) == s \in Seq(ToSet(s))

\* What is made of sequences is a sequence.
LEMMA OnlySeq ==
  ASSUME NEW s, IsSeq(s), NEW keep
  PROVE  IsSeq(Only(s, keep)) /\ ToSet(Only(s, keep)) = ToSet(s) \cap keep
<1>1. PICK T, u : T = ToSet(s) /\ u = Only(s, keep)
  OBVIOUS
<1>2. s \in Seq(T)
  BY <1>1 DEF IsSeq
<1>3. u \in Seq(T) /\ ToSet(u) = ToSet(s) \cap keep
  BY <1>1, <1>2, OnlyIs
<1>4. u \in Seq(ToSet(u))
  BY <1>3 DEF ToSet
<1> QED
  BY <1>1, <1>3, <1>4 DEF IsSeq

LEMMA MapSeq ==
  ASSUME NEW s, IsSeq(s), NEW f, DOMAIN f = DOMAIN s, f = [i \in DOMAIN s |-> f[i]]
  PROVE  IsSeq(f)
  BY DEF IsSeq, ToSet

LEMMA FirstSeq ==
  ASSUME NEW s, IsSeq(s), NEW n \in Nat
  PROVE  /\ IsSeq(G!First(s, n))
         /\ ToSet(G!First(s, n)) \subseteq ToSet(s)
         /\ s # <<>> /\ n # 0 => ToSet(G!First(s, n)) # {}
         /\ IsFiniteSet(ToSet(G!First(s, n))) /\ Cardinality(ToSet(G!First(s, n))) <= n
<1>a. PICK T : T = ToSet(s) /\ s \in Seq(T)
  BY DEF IsSeq
<1>b. PICK k : k = Len(s)
  OBVIOUS
<1>0. k \in Nat /\ DOMAIN s = 1..k /\ (s # <<>> => k # 0)
  BY <1>a, <1>b
<1>1. PICK m \in Nat : m = (IF k < n THEN k ELSE n) /\ m <= n /\ m <= k
  BY <1>0
<1>2. PICK u : u = SubSeq(s, 1, m) /\ u = G!First(s, n)
  BY <1>b, <1>1 DEF G!First
<1>3. u \in Seq(T) /\ DOMAIN u = 1..m /\ \A i \in 1..m : u[i] = s[i] /\ i \in 1..k
  <2>1. \A i \in 1..m : i \in 1..k /\ s[i] \in T
    BY <1>a, <1>0, <1>1
  <2>2. u = [i \in 1..m |-> s[i]]
    BY <1>a, <1>0, <1>1, <1>2
  <2> QED
    BY <1>1, <2>1, <2>2
<1>5. ToSet(u) \subseteq ToSet(s) /\ u \in Seq(ToSet(u))
  <2>1. ToSet(u) \subseteq T
    BY <1>3 DEF ToSet
  <2>2. u \in Seq(ToSet(u))
    BY <1>3 DEF ToSet
  <2> QED
    BY <1>a, <2>1, <2>2
<1>6. ASSUME s # <<>>, n # 0 PROVE ToSet(u) # {}
  <2>1. 1 \in 1..m
    BY <1>0, <1>1, <1>6
  <2> QED
    BY <1>3, <2>1 DEF ToSet
<1>7. IsFiniteSet(1..m) /\ Cardinality(1..m) = m
  BY <1>1, FS_Interval
<1>9. u \in Surjection(1..m, ToSet(u))
  BY <1>3 DEF Surjection, ToSet
<1>10. IsFiniteSet(ToSet(u)) /\ Cardinality(ToSet(u)) <= m
  BY <1>7, <1>9, FS_Surjection
<1>11. Cardinality(ToSet(u)) <= n
  BY <1>1, <1>10, FS_CardinalityType
<1> QED
  BY <1>2, <1>5, <1>6, <1>10, <1>11 DEF IsSeq

LEMMA ConcatSeq ==
  ASSUME NEW s, NEW t, IsSeq(s), IsSeq(t)
  PROVE  /\ IsSeq(s \o t) /\ ToSet(s \o t) = ToSet(s) \cup ToSet(t)
         /\ s \o t = <<>> <=> s = <<>> /\ t = <<>>
<1>1. s \in Seq(ToSet(s) \cup ToSet(t)) /\ t \in Seq(ToSet(s) \cup ToSet(t))
  BY DEF IsSeq
<1>2. PICK c, a, b : c = s \o t /\ a = Len(s) /\ b = Len(t)
  OBVIOUS
<1>3. /\ c \in Seq(ToSet(s) \cup ToSet(t)) /\ a \in Nat /\ b \in Nat
      /\ DOMAIN c = 1..(a + b) /\ DOMAIN s = 1..a /\ DOMAIN t = 1..b
      /\ \A i \in 1..a : c[i] = s[i] /\ i \in 1..(a + b)
      /\ \A j \in 1..b : c[a + j] = t[j] /\ a + j \in 1..(a + b)
  BY <1>1, <1>2
<1>4. ToSet(s) \subseteq ToSet(c)
  BY <1>3 DEF ToSet
<1>5. ToSet(t) \subseteq ToSet(c)
  BY <1>3 DEF ToSet
<1>6. c \in Seq(ToSet(c))
  BY <1>3, SMTT(30) DEF ToSet
<1>7. ToSet(c) \subseteq ToSet(s) \cup ToSet(t)
  BY <1>3, SMTT(30) DEF ToSet
<1>8. c = <<>> <=> s = <<>> /\ t = <<>>
  BY <1>1, <1>2, <1>3
<1> QED
  BY <1>2, <1>4, <1>5, <1>6, <1>7, <1>8 DEF IsSeq

-----------------------------------------------------------------------------
(* What a list is made into.                                                 *)

Sided(l, other) == G!Only(G!Items(l.tags), {tag \in G!ToSet(G!Items(l.tags)) : tag.marker # other})
WriteOf(l) == G!First(G!Urls(Sided(l, "read")), MaxRelays)
ReadOf(l) == G!First(G!Urls(Sided(l, "write")), MaxRelays)
DmOf(l) == G!First(G!Urls(G!Items(l.tags)), MaxRelays)
StampOf(l) == [at |-> l.at, id |-> l.id]
RoutesOf(w, d) == [write |-> WriteOf(w), read |-> ReadOf(w), dm |-> DmOf(d),
                   relayList |-> StampOf(w), dmList |-> StampOf(d)]
NoneOf(kind) == [kind |-> kind, at |-> 0, id |-> 0, tags |-> <<>>]

LEMMA RelaysPut ==
  ASSUME NEW l, l.kind = "relays", NEW w, NEW d
  PROVE  G!RoutesFrom(l, RoutesOf(w, d)) = RoutesOf(l, d)
<1>1. l.kind # "dm"
  OBVIOUS
<1> QED
  BY <1>1 DEF G!RoutesFrom, RoutesOf, WriteOf, ReadOf, Sided, StampOf

LEMMA DmsPut ==
  ASSUME NEW l, l.kind = "dm", NEW w, NEW d
  PROVE  G!RoutesFrom(l, RoutesOf(w, d)) = RoutesOf(w, l)
  BY DEF G!RoutesFrom, RoutesOf, DmOf, StampOf

LEMMA ItemsSeq ==
  ASSUME NEW tags, IsSeq(tags)
  PROVE  IsSeq(G!Items(tags)) /\ (tags = <<>> => G!Items(tags) = <<>>)
<1>1. PICK all : all = [i \in DOMAIN tags |-> i]
  OBVIOUS
<1>2. PICK keep : keep = {i \in DOMAIN tags : \A j \in 1..(i - 1) : tags[j].url # tags[i].url}
  OBVIOUS
<1>3. IsSeq(all) /\ (tags = <<>> => ToSet(all) = {})
  BY <1>1, MapSeq DEF ToSet
<1>4. PICK firsts : firsts = Only(all, keep)
  OBVIOUS
<1>5. IsSeq(firsts) /\ ToSet(firsts) = ToSet(all) \cap keep
  BY <1>3, <1>4, OnlySeq
<1>6. G!Items(tags) = [n \in DOMAIN firsts |-> tags[firsts[n]]]
  BY <1>1, <1>2, <1>4, GossipNames DEF G!Items
<1>7. IsSeq(G!Items(tags))
  BY <1>5, <1>6, MapSeq
<1>8. ASSUME tags = <<>> PROVE G!Items(tags) = <<>>
  <2>1. DOMAIN firsts = {} /\ firsts = <<>>
    BY <1>3, <1>5, <1>8 DEF ToSet, IsSeq
  <2> QED
    BY <1>6, <2>1
<1> QED
  BY <1>7, <1>8

LEMMA UrlsSeq ==
  ASSUME NEW s, IsSeq(s)
  PROVE  IsSeq(G!Urls(s)) /\ (s = <<>> => G!Urls(s) = <<>>)
  BY MapSeq DEF G!Urls, IsSeq

LEMMA SidedSeq ==
  ASSUME NEW l, IsSeq(l.tags), NEW other
  PROVE  IsSeq(Sided(l, other)) /\ (l.tags = <<>> => Sided(l, other) = <<>>)
<1>1. PICK items, keep : items = G!Items(l.tags) /\ keep = {tag \in G!ToSet(items) : tag.marker # other}
  OBVIOUS
<1>2. IsSeq(items) /\ (l.tags = <<>> => items = <<>>)
  BY <1>1, ItemsSeq
<1>3. PICK u : u = Only(items, keep)
  OBVIOUS
<1>4. IsSeq(u) /\ ToSet(u) = ToSet(items) \cap keep
  BY <1>2, <1>3, OnlySeq
<1>5. items = <<>> => u = <<>>
  BY <1>4 DEF ToSet, IsSeq
<1> QED
  BY <1>1, <1>2, <1>3, <1>4, <1>5, GossipNames DEF Sided

LEMMA SidesSeq ==
  ASSUME NEW l, IsSeq(l.tags)
  PROVE  /\ IsSeq(WriteOf(l)) /\ IsSeq(ReadOf(l))
         /\ l.tags = <<>> => WriteOf(l) = <<>> /\ ReadOf(l) = <<>> /\ DmOf(l) = <<>>
<1>1. MaxRelays \in Nat
  BY GossipAssumption
<1>2. /\ IsSeq(Sided(l, "read")) /\ IsSeq(Sided(l, "write")) /\ IsSeq(G!Items(l.tags))
      /\ l.tags = <<>> => Sided(l, "read") = <<>> /\ Sided(l, "write") = <<>> /\ G!Items(l.tags) = <<>>
  BY SidedSeq, ItemsSeq
<1>3. \A s : IsSeq(s) => IsSeq(G!First(G!Urls(s), MaxRelays))
  BY <1>1, UrlsSeq, FirstSeq
<1>4. G!First(G!Urls(<<>>), MaxRelays) = <<>>
  <2>1. G!Urls(<<>>) = <<>>
    BY DEF G!Urls
  <2>2. G!First(<<>>, MaxRelays) = <<>>
    BY <1>1 DEF G!First
  <2> QED
    BY <2>1, <2>2
<1> QED
  BY <1>2, <1>3, <1>4 DEF WriteOf, ReadOf, DmOf

LEMMA NoRoutes == RoutesOf(NoneOf("relays"), NoneOf("dm")) = G!EmptyRoutes
<1>1. \A kind : IsSeq(NoneOf(kind).tags) /\ NoneOf(kind).tags = <<>>
  BY DEF NoneOf, IsSeq
<1>2. WriteOf(NoneOf("relays")) = <<>> /\ ReadOf(NoneOf("relays")) = <<>> /\ DmOf(NoneOf("dm")) = <<>>
  BY <1>1, SidesSeq
<1> QED
  BY <1>2 DEF RoutesOf, G!EmptyRoutes, G!NoList, StampOf, NoneOf

\* Which is what the invariant says of a winner.
LEMMA RoutesMade ==
  ASSUME NEW w, NEW d, w.kind = "relays", d.kind = "dm"
  PROVE  G!RoutesFrom(w, G!RoutesFrom(d, G!EmptyRoutes)) = RoutesOf(w, d)
  BY NoRoutes, DmsPut, RelaysPut

-----------------------------------------------------------------------------
(* The winner of the lists heard.                                            *)

ListsOf(p, kind, ls) == {l \in ls : l.author = p /\ l.kind = kind}
Beats(l, o) == o.at < l.at \/ (o.at = l.at /\ l.id <= o.id)
Leads(l, p, kind, ls) ==
  /\ l.kind = kind
  /\ ListsOf(p, kind, ls) = {} => l = NoneOf(kind)
  /\ ListsOf(p, kind, ls) # {} => l \in ListsOf(p, kind, ls)
  /\ \A o \in ListsOf(p, kind, ls) : Beats(l, o)

\* Routes that are those of the winners among the lists of p.
Follows(r, p, ls) ==
  \E w, d : Leads(w, p, "relays", ls) /\ Leads(d, p, "dm", ls) /\ r = RoutesOf(w, d)

GossipTypes ==
  /\ recency \in Seq(Pubkeys) /\ DOMAIN routes = ToSet(recency)
  /\ heard \subseteq Lists /\ \A l \in heard : l.author \in DOMAIN routes
GossipInv == GossipTypes /\ \A p \in DOMAIN routes : Follows(routes[p], p, heard)

\* A list that is accepted leads; one that is not leaves the leader in place.
LEMMA NewLeader ==
  ASSUME NEW ls, ls \subseteq Lists, NEW list, list \in Lists, NEW l, NEW p, NEW kind,
         p = list.author, kind = list.kind, Leads(l, p, kind, ls),
         NEW more, more = ls \cup {list}
  PROVE  /\ G!Accepts(list, StampOf(l)) => Leads(list, p, kind, more)
         /\ ~G!Accepts(list, StampOf(l)) => Leads(l, p, kind, more)
<1> DEFINE old == ListsOf(p, kind, ls)
<1>1. ListsOf(p, kind, more) = old \cup {list}
  BY DEF ListsOf
<1>2. \A o \in Lists : o.at \in Nat /\ o.id \in Nat \ {0}
  BY GossipAssumption
<1>3. old \subseteq Lists
  BY DEF ListsOf
<1>4. CASE old = {}
  <2>1. l = NoneOf(kind)
    BY <1>4 DEF Leads
  <2>2. StampOf(l) = G!NoList /\ StampOf(l).at = 0
    BY <2>1 DEF StampOf, NoneOf, G!NoList
  <2>3. G!Accepts(list, StampOf(l))
    BY <1>2, <2>2 DEF G!Accepts
  <2>4. Beats(list, list)
    BY <1>2 DEF Beats
  <2>5. Leads(list, p, kind, more)
    BY <1>1, <1>4, <2>4 DEF Leads
  <2> QED
    BY <2>3, <2>5
<1>5. CASE old # {}
  <2>1. l \in old /\ l \in Lists /\ \A o \in old : Beats(l, o)
    BY <1>3, <1>5 DEF Leads
  <2>2. StampOf(l) # G!NoList /\ StampOf(l).at = l.at /\ StampOf(l).id = l.id
    BY <1>2, <2>1 DEF StampOf, G!NoList
  <2>3. ASSUME G!Accepts(list, StampOf(l)) PROVE Leads(list, p, kind, more)
    <3>1. list.at > l.at \/ (list.at = l.at /\ list.id < l.id)
      BY <2>2, <2>3 DEF G!Accepts
    <3>2. \A o \in old \cup {list} : Beats(list, o)
      BY <1>2, <1>3, <2>1, <3>1 DEF Beats
    <3> QED
      BY <1>1, <3>2 DEF Leads
  <2>4. ASSUME ~G!Accepts(list, StampOf(l)) PROVE Leads(l, p, kind, more)
    <3>1. Beats(l, list)
      BY <1>2, <2>1, <2>2, <2>4 DEF G!Accepts, Beats
    <3>2. l.kind = kind
      BY DEF Leads
    <3> QED
      BY <1>1, <2>1, <3>1, <3>2 DEF Leads
  <2> QED
    BY <2>3, <2>4
<1> QED
  BY <1>4, <1>5

\* The lists of others, and of another kind, have no part in it.
LEMMA SameLeader ==
  ASSUME NEW ls, NEW more, NEW p, NEW kind, ListsOf(p, kind, ls) = ListsOf(p, kind, more), NEW l
  PROVE  Leads(l, p, kind, ls) <=> Leads(l, p, kind, more)
  BY DEF Leads

LEMMA SameFollows ==
  ASSUME NEW ls, NEW more, NEW p, NEW r, Follows(r, p, ls),
         \A kind : ListsOf(p, kind, ls) = ListsOf(p, kind, more)
  PROVE  Follows(r, p, more)
  BY SameLeader DEF Follows

\* ingest(), of the routes of the author.
LEMMA IngestFollows ==
  ASSUME NEW ls, ls \subseteq Lists, NEW list, list \in Lists, NEW p, p = list.author,
         NEW r, Follows(r, p, ls), NEW more, more = ls \cup {list},
         NEW last, last = IF list.kind = "dm" THEN r.dmList ELSE r.relayList
  PROVE  /\ G!Accepts(list, last) => Follows(G!RoutesFrom(list, r), p, more)
         /\ ~G!Accepts(list, last) => Follows(r, p, more)
<1>1. PICK w, d : Leads(w, p, "relays", ls) /\ Leads(d, p, "dm", ls) /\ r = RoutesOf(w, d)
  BY DEF Follows
<1>2. list.kind \in {"relays", "dm"}
  BY GossipAssumption
<1>3. \A kind : kind # list.kind => ListsOf(p, kind, ls) = ListsOf(p, kind, more)
  BY DEF ListsOf
<1>4. CASE list.kind = "dm"
  <2>1. last = StampOf(d)
    BY <1>1, <1>4 DEF RoutesOf
  <2>2. /\ G!Accepts(list, last) => Leads(list, p, "dm", more)
        /\ ~G!Accepts(list, last) => Leads(d, p, "dm", more)
    BY <1>1, <1>4, <2>1, NewLeader
  <2>3. Leads(w, p, "relays", more)
    BY <1>1, <1>3, <1>4, SameLeader
  <2>4. G!RoutesFrom(list, r) = RoutesOf(w, list)
    BY <1>1, <1>4, DmsPut
  <2> QED
    BY <1>1, <2>2, <2>3, <2>4 DEF Follows
<1>5. CASE list.kind = "relays"
  <2>1. last = StampOf(w)
    BY <1>1, <1>5 DEF RoutesOf
  <2>2. /\ G!Accepts(list, last) => Leads(list, p, "relays", more)
        /\ ~G!Accepts(list, last) => Leads(w, p, "relays", more)
    BY <1>1, <1>5, <2>1, NewLeader
  <2>3. Leads(d, p, "dm", more)
    BY <1>1, <1>3, <1>5, SameLeader
  <2>4. G!RoutesFrom(list, r) = RoutesOf(list, d)
    BY <1>1, <1>5, RelaysPut
  <2> QED
    BY <1>1, <2>2, <2>3, <2>4 DEF Follows
<1> QED
  BY <1>2, <1>4, <1>5

\* Of who is not tracked nothing was heard.
LEMMA LookupFollows ==
  ASSUME GossipInv, NEW p
  PROVE  Follows(G!Lookup(p), p, heard)
<1>1. CASE p \in DOMAIN routes
  BY <1>1 DEF GossipInv, G!Lookup, G!Tracked
<1>2. CASE p \notin DOMAIN routes
  <2>1. \A kind : ListsOf(p, kind, heard) = {}
    BY <1>2 DEF GossipInv, GossipTypes, ListsOf
  <2>2. \A kind : Leads(NoneOf(kind), p, kind, heard)
    BY <2>1 DEF Leads, NoneOf
  <2>3. G!Lookup(p) = RoutesOf(NoneOf("relays"), NoneOf("dm"))
    BY <1>2, NoRoutes DEF G!Lookup, G!Tracked
  <2> QED
    BY <2>2, <2>3 DEF Follows
<1> QED
  BY <1>1, <1>2

LEMMA GossipInit == G!Init => GossipInv
  BY DEF G!Init, GossipInv, GossipTypes, ToSet

\* The order without some of the pubkeys, or with one of them last.
LEMMA OrderKept ==
  ASSUME recency \in Seq(Pubkeys), NEW keep
  PROVE  /\ G!Others(keep) \in Seq(Pubkeys) /\ ToSet(G!Others(keep)) = ToSet(recency) \ keep
<1>1. PICK r, u, left : u = Only(r, left) /\ left = ToSet(r) \ keep /\ r = recency
  OBVIOUS
<1>2. r \in Seq(Pubkeys)
  BY <1>1
<1>a. u = Only(r, left)
  BY <1>1
<1>3. u \in Seq(Pubkeys) /\ u \in Seq(left) /\ ToSet(u) = ToSet(r) \cap left
  BY <1>a, <1>2, OnlyIs
<1> QED
  BY <1>1, <1>3, GossipNames DEF G!Others

LEMMA OrderAppended ==
  ASSUME NEW s, s \in Seq(Pubkeys), NEW p, p \in Pubkeys
  PROVE  /\ Append(s, p) \in Seq(Pubkeys) /\ ToSet(Append(s, p)) = ToSet(s) \cup {p}
         /\ s \o <<p>> = Append(s, p) /\ Len(Append(s, p)) > 0
<1>1. PICK u, n : u = Append(s, p) /\ n = Len(s)
  OBVIOUS
<1>2. /\ u \in Seq(Pubkeys) /\ n \in Nat /\ DOMAIN s = 1..n /\ DOMAIN u = 1..(n + 1) /\ Len(u) = n + 1
      /\ u[n + 1] = p /\ \A i \in 1..n : u[i] = s[i]
  BY <1>1
<1>3. ToSet(u) = ToSet(s) \cup {p}
  BY <1>2 DEF ToSet
<1>4. s \o <<p>> = u
  BY <1>1
<1> QED
  BY <1>1, <1>2, <1>3, <1>4

LEMMA TouchedSame ==
  ASSUME GossipTypes, NEW p, p \in Pubkeys, p \in DOMAIN routes
  PROVE  G!Touched(p) \in Seq(Pubkeys) /\ ToSet(G!Touched(p)) = ToSet(recency)
<1>1. PICK o, keep : o = G!Others(keep) /\ keep = {p}
  OBVIOUS
<1>2. o \in Seq(Pubkeys) /\ ToSet(o) = ToSet(recency) \ {p}
  BY <1>1, OrderKept DEF GossipTypes
<1>3. G!Touched(p) = o \o <<p>>
  BY <1>1 DEF G!Touched, G!Tracked
<1>4. G!Touched(p) = Append(o, p) /\ Append(o, p) \in Seq(Pubkeys) /\ ToSet(Append(o, p)) = ToSet(o) \cup {p}
  BY <1>2, <1>3, OrderAppended
<1> QED
  BY <1>2, <1>4 DEF GossipTypes

LEMMA GossipStep ==
  ASSUME GossipInv, [G!Next]_gossipVars
  PROVE  GossipInv'
<1> USE DEF GossipInv
<1>1. ASSUME NEW list, list \in Lists, G!Ingest(list)
      PROVE  GossipInv'
  <2> DEFINE p == list.author
             prev == G!Lookup(p)
             last == IF list.kind = "dm" THEN prev.dmList ELSE prev.relayList
             more == heard \cup {list}
  <2>1. p \in Pubkeys /\ more \subseteq Lists
    BY <1>1, GossipAssumption DEF GossipTypes
  <2>2. /\ G!Accepts(list, last) => Follows(G!RoutesFrom(list, prev), p, more)
        /\ ~G!Accepts(list, last) => Follows(prev, p, more)
    BY <1>1, LookupFollows, IngestFollows DEF GossipTypes
  <2>3. ASSUME NEW q, q # p, q \in DOMAIN routes PROVE Follows(routes[q], q, more)
    <3>1. \A kind : ListsOf(q, kind, heard) = ListsOf(q, kind, more)
      BY <2>3 DEF ListsOf
    <3> QED
      BY <2>3, <3>1, SameFollows
  <2>4. CASE G!Accepts(list, last)
    <3>1. PICK o, keep, order, kept, top :
            /\ keep = {p} /\ o = G!Others(keep) /\ order = Append(o, p)
            /\ kept = (IF Len(order) > MaxPubkeys THEN Tail(order) ELSE order)
            /\ top = ToSet(kept)
      OBVIOUS
    <3>2. /\ recency' = kept
          /\ routes' = [q \in top |-> IF q = p THEN G!RoutesFrom(list, prev) ELSE routes[q]]
          /\ heard' = {l \in more : l.author \in top}
      BY <1>1, <2>4, <3>1, GossipNames DEF G!Ingest
    <3>3. order \in Seq(Pubkeys) /\ ToSet(order) = (ToSet(recency) \ {p}) \cup {p} /\ Len(order) > 0
      BY <2>1, <3>1, OrderKept, OrderAppended DEF GossipTypes
    <3>4. kept \in Seq(Pubkeys) /\ top \subseteq ToSet(order)
      <4>1. Tail(order) \in Seq(Pubkeys) /\ \A i \in DOMAIN Tail(order) : i + 1 \in DOMAIN order /\ Tail(order)[i] = order[i + 1]
        BY <3>3
      <4>2. ToSet(Tail(order)) \subseteq ToSet(order)
        BY <4>1 DEF ToSet
      <4>3. CASE Len(order) > MaxPubkeys
        BY <3>1, <4>1, <4>2, <4>3
      <4>4. CASE ~(Len(order) > MaxPubkeys)
        BY <3>1, <3>3, <4>4
      <4> QED
        BY <4>3, <4>4
    <3>5. GossipTypes'
      BY <2>1, <3>1, <3>2, <3>4 DEF GossipTypes
    <3>6. ASSUME NEW q, q \in DOMAIN routes' PROVE Follows(routes'[q], q, heard')
      <4>1. q \in top /\ (q = p \/ (q # p /\ q \in DOMAIN routes))
        BY <3>2, <3>3, <3>4, <3>6 DEF GossipTypes
      <4>2. Follows(routes'[q], q, more)
        BY <2>2, <2>3, <2>4, <3>2, <4>1
      <4>3. \A kind : ListsOf(q, kind, more) = ListsOf(q, kind, heard')
        BY <3>2, <4>1 DEF ListsOf
      <4> QED
        BY <4>2, <4>3, SameFollows
    <3> QED
      BY <3>5, <3>6
  <2>5. CASE ~G!Accepts(list, last)
    <3>1. recency' = G!Touched(p) /\ heard' = more /\ routes' = routes
      BY <1>1, <2>5 DEF G!Ingest
    <3>2. p \in DOMAIN routes
      <4>1. ASSUME p \notin DOMAIN routes PROVE last = G!NoList
        BY <4>1 DEF G!Lookup, G!Tracked, G!EmptyRoutes
      <4>2. list.at \in Nat
        BY <1>1, GossipAssumption
      <4>3. ASSUME last = G!NoList PROVE G!Accepts(list, last)
        BY <4>2, <4>3 DEF G!Accepts, G!NoList
      <4> QED
        BY <2>5, <4>1, <4>3
    <3>3. GossipTypes'
      BY <2>1, <3>1, <3>2, TouchedSame DEF GossipTypes
    <3>4. prev = routes[p]
      BY <3>2 DEF G!Lookup, G!Tracked
    <3>5. \A q \in DOMAIN routes' : Follows(routes'[q], q, heard')
      BY <2>2, <2>3, <2>5, <3>1, <3>4
    <3> QED
      BY <3>3, <3>5
  <2> QED
    BY <2>4, <2>5
<1>2. ASSUME NEW p, p \in Pubkeys, G!Read(p)
      PROVE  GossipInv'
  <2>1. p \in DOMAIN routes /\ recency' = G!Touched(p) /\ UNCHANGED <<routes, heard>>
    BY <1>2 DEF G!Read, G!Tracked
  <2>2. GossipTypes'
    BY <1>2, <2>1, TouchedSame DEF GossipTypes
  <2> QED
    BY <2>1, <2>2
<1>3. ASSUME NEW keep, G!Clear(keep)
      PROVE  GossipInv'
  <2>1. /\ recency' = G!Others(keep) /\ routes' = [q \in DOMAIN routes \ keep |-> routes[q]]
        /\ heard' = {l \in heard : l.author \notin keep}
    BY <1>3 DEF G!Clear, G!Tracked
  <2>2. GossipTypes'
    BY <2>1, OrderKept DEF GossipTypes
  <2>3. ASSUME NEW q, q \in DOMAIN routes' PROVE Follows(routes'[q], q, heard')
    <3>1. q \in DOMAIN routes /\ q \notin keep /\ routes'[q] = routes[q]
      BY <2>1, <2>3
    <3>2. \A kind : ListsOf(q, kind, heard) = ListsOf(q, kind, heard')
      BY <2>1, <3>1 DEF ListsOf
    <3> QED
      BY <3>1, <3>2, SameFollows
  <2> QED
    BY <2>2, <2>3
<1>4. CASE UNCHANGED gossipVars
  BY <1>4 DEF gossipVars, GossipTypes
<1> QED
  BY <1>1, <1>2, <1>3, <1>4 DEF G!Next

\* Only one list leads.
LEMMA WinnerIs ==
  ASSUME GossipTypes, NEW p, NEW kind, NEW w, Leads(w, p, kind, heard)
  PROVE  G!Winner(p, kind) = w
<1>1. PICK ls : ls = ListsOf(p, kind, heard)
  OBVIOUS
<1>2. G!Winner(p, kind) =
        IF ls = {} THEN NoneOf(kind) ELSE CHOOSE l \in ls : \A o \in ls : Beats(l, o)
  BY <1>1 DEF G!Winner, ListsOf, NoneOf, Beats
<1>3. CASE ls = {}
  BY <1>1, <1>2, <1>3 DEF Leads
<1>4. CASE ls # {}
  <2>1. w \in ls /\ \A o \in ls : Beats(w, o)
    BY <1>1, <1>4 DEF Leads
  <2>2. PICK c : c = CHOOSE l \in ls : \A o \in ls : Beats(l, o)
    OBVIOUS
  <2>3. c \in ls /\ \A o \in ls : Beats(c, o)
    BY <2>1, <2>2
  <2>4. c \in Lists /\ w \in Lists /\ Beats(c, w) /\ Beats(w, c)
    BY <1>1, <2>1, <2>3 DEF GossipTypes, ListsOf
  <2>5. c.id = w.id
    BY <2>4, GossipAssumption DEF Beats
  <2>6. c = w
    BY <2>4, <2>5, GossipAssumption
  <2> QED
    BY <1>2, <1>4, <2>2, <2>6
<1> QED
  BY <1>3, <1>4

LEMMA WinnersRouted ==
  ASSUME GossipInv
  PROVE  G!RoutesOfWinner
<1> SUFFICES ASSUME NEW p \in DOMAIN routes
             PROVE  routes[p] = G!RoutesFrom(G!Winner(p, "relays"),
                                             G!RoutesFrom(G!Winner(p, "dm"), G!EmptyRoutes))
  BY DEF G!RoutesOfWinner, G!Tracked
<1>1. PICK w, d : /\ Leads(w, p, "relays", heard) /\ Leads(d, p, "dm", heard)
                  /\ routes[p] = RoutesOf(w, d)
  BY DEF GossipInv, Follows
<1>2. G!Winner(p, "relays") = w /\ G!Winner(p, "dm") = d /\ w.kind = "relays" /\ d.kind = "dm"
  BY <1>1, WinnerIs DEF GossipInv, Leads
<1> QED
  BY <1>1, <1>2, RoutesMade

-----------------------------------------------------------------------------
(* What is made of the routes.                                               *)

SidesAreSeqs == \A p : IsSeq(G!Lookup(p).write) /\ IsSeq(G!Lookup(p).read)

LEMMA LookupSeqs ==
  ASSUME GossipInv
  PROVE  SidesAreSeqs
<1> SUFFICES ASSUME NEW p PROVE IsSeq(G!Lookup(p).write) /\ IsSeq(G!Lookup(p).read)
  BY DEF SidesAreSeqs
<1>1. PICK w, d : /\ Leads(w, p, "relays", heard) /\ Leads(d, p, "dm", heard)
                  /\ G!Lookup(p) = RoutesOf(w, d)
  BY LookupFollows DEF Follows
<1>2. IsSeq(w.tags)
  <2>1. w \in Lists \/ w = NoneOf("relays")
    BY <1>1 DEF Leads, ListsOf, GossipInv, GossipTypes
  <2>2. w \in Lists => IsSeq(w.tags)
    BY GossipAssumption DEF IsSeq
  <2>3. w = NoneOf("relays") => IsSeq(w.tags)
    BY DEF NoneOf, IsSeq
  <2> QED
    BY <2>1, <2>2, <2>3
<1> QED
  BY <1>1, <1>2, SidesSeq DEF RoutesOf

LEMMA EmptySet ==
  ASSUME NEW s, IsSeq(s)
  PROVE  s = <<>> <=> ToSet(s) = {}
  BY DEF IsSeq, ToSet

\* A filter broken by the pubkeys in one field, `f`; `g` is the other.
BrokenRight(r, asked, f, g, urls) ==
  /\ \A p \in asked[f] : \A url \in ToSet(urls[p]) :
       url \in DOMAIN r.perRelay /\ p \in r.perRelay[url][f]
  /\ \A p \in asked[f] : urls[p] = <<>> => p \in r.remainder[f]
  /\ \A p \in r.remainder[f] : p \in asked[f] /\ urls[p] = <<>>
  /\ \A url \in DOMAIN r.perRelay : /\ \A p \in r.perRelay[url][f] : p \in asked[f] /\ url \in ToSet(urls[p])
                                    /\ r.perRelay[url][g] = asked[g]

LEMMA BrokenIs ==
  ASSUME NEW asked, asked \in G!RouteFilters, NEW f, NEW g,
         <<f, g>> \in {<<"authors", "tagged">>, <<"tagged", "authors">>}, NEW urls,
         \A p \in Pubkeys : IsSeq(urls[p])
  PROVE  BrokenRight(G!Broken(asked, f, urls), asked, f, g, urls)
<1>1. PICK pubkeys, routed : pubkeys = asked[f] /\ routed = {p \in pubkeys : urls[p] # <<>>}
  OBVIOUS
<1>2. /\ f \in {"authors", "tagged"} /\ g \in {"authors", "tagged"} /\ f # g
      /\ pubkeys \subseteq Pubkeys /\ DOMAIN asked = {"authors", "tagged"}
  BY <1>1 DEF G!RouteFilters
<1>3. \A p \in pubkeys : urls[p] = <<>> <=> ToSet(urls[p]) = {}
  BY <1>2, EmptySet
<1>4. CASE routed = {}
  <2>1. G!Broken(asked, f, urls) = [perRelay |-> <<>>, remainder |-> asked]
    BY <1>1, <1>4 DEF G!Broken
  <2> QED
    BY <1>1, <1>3, <1>4, <2>1 DEF BrokenRight
<1>5. CASE routed # {}
  <2>1. PICK Narrow, here, per, rem :
          /\ Narrow = [ps \in SUBSET pubkeys |-> [asked EXCEPT ![f] = ps]]
          /\ here = UNION {ToSet(urls[p]) : p \in routed}
          /\ per = [url \in here |-> Narrow[{p \in routed : url \in ToSet(urls[p])}]]
          /\ rem = (IF routed = pubkeys THEN G!NoFilter ELSE Narrow[pubkeys \ routed])
    OBVIOUS
  <2>2. G!Broken(asked, f, urls) = [perRelay |-> per, remainder |-> rem]
    BY <1>1, <1>5, <2>1, GossipNames DEF G!Broken
  <2>3. \A ps \in SUBSET pubkeys : Narrow[ps][f] = ps /\ Narrow[ps][g] = asked[g]
    BY <1>2, <2>1
  <2>4. DOMAIN per = here /\ \A url \in here : /\ per[url][f] = {p \in routed : url \in ToSet(urls[p])}
                                                /\ per[url][g] = asked[g]
    <3>1. \A url \in here : {p \in routed : url \in ToSet(urls[p])} \in SUBSET pubkeys
      BY <1>1
    <3> QED
      BY <2>1, <2>3, <3>1
  <2>5. rem[f] = pubkeys \ routed
    <3>1. G!NoFilter[f] = {}
      BY <1>2 DEF G!NoFilter
    <3> QED
      BY <2>1, <2>3, <3>1
  <2>6. \A p \in pubkeys : \A url \in ToSet(urls[p]) : url \in here /\ p \in routed
    BY <1>1, <1>3, <2>1
  <2> QED
    BY <1>1, <2>2, <2>4, <2>5, <2>6 DEF BrokenRight
<1> QED
  BY <1>4, <1>5

\* What RouteCovers says of one filter.
Covered(asked) ==
  LET r == G!Route(asked)
      whole == asked.authors # {} /\ asked.tagged # {}
      Part(url) == IF url \in DOMAIN r.perRelay THEN r.perRelay[url] ELSE G!NoFilter
  IN /\ \A p \in asked.authors : \A url \in ToSet(G!Lookup(p).write) : p \in Part(url).authors
     /\ \A p \in asked.tagged : \A url \in ToSet(G!Lookup(p).read) : p \in Part(url).tagged
     /\ \A p \in asked.authors : G!Lookup(p).write = <<>> =>
          p \in r.remainder.authors \/ (whole /\ G!Lookup(p).read # <<>>)
     /\ \A p \in asked.tagged : G!Lookup(p).read = <<>> =>
          p \in r.remainder.tagged \/ (whole /\ G!Lookup(p).write # <<>>)
     /\ \A url \in DOMAIN r.perRelay :
          \/ whole /\ r.perRelay[url] = asked
          \/ \A p \in r.perRelay[url].authors : url \in ToSet(G!Lookup(p).write)

Outbox == [p \in Pubkeys |-> G!Lookup(p).write]
Inbox == [p \in Pubkeys |-> G!Lookup(p).read]
RelaysOf(pubkeys) == UNION {ToSet(Outbox[p] \o Inbox[p]) : p \in pubkeys}
Whole(asked, pubkeys) ==
  [perRelay |-> [url \in RelaysOf(pubkeys) |-> asked],
   remainder |-> IF \E p \in pubkeys : Outbox[p] \o Inbox[p] = <<>> THEN asked ELSE G!NoFilter]

\* route(), case by case.
LEMMA RouteIs ==
  ASSUME NEW asked, asked \in G!RouteFilters,
         NEW both, both = asked.authors \cup asked.tagged
  PROVE  /\ both = {} => G!Route(asked) = [perRelay |-> <<>>, remainder |-> asked]
         /\ asked.tagged = {} /\ both # {} => G!Route(asked) = G!Broken(asked, "authors", Outbox)
         /\ asked.authors = {} /\ both # {} => G!Route(asked) = G!Broken(asked, "tagged", Inbox)
         /\ asked.authors # {} /\ asked.tagged # {} => G!Route(asked) = Whole(asked, both)
<1>1. PICK none, broken, turned, some :
        /\ none = [perRelay |-> <<>>, remainder |-> asked]
        /\ broken = G!Broken(asked, "authors", Outbox) /\ turned = G!Broken(asked, "tagged", Inbox)
        /\ some = Whole(asked, both)
  OBVIOUS
<1>2. G!Route(asked) = CASE both = {} -> none
                         [] asked.authors # {} /\ asked.tagged = {} -> broken
                         [] asked.authors = {} /\ asked.tagged # {} -> turned
                         [] OTHER -> some
  BY <1>1, GossipNames DEF G!Route, Outbox, Inbox, RelaysOf, Whole
<1>3. both = {} <=> asked.authors = {} /\ asked.tagged = {}
  OBVIOUS
<1>4. /\ both = {} => G!Route(asked) = none
      /\ asked.tagged = {} /\ both # {} => G!Route(asked) = broken
      /\ asked.authors = {} /\ both # {} => G!Route(asked) = turned
      /\ asked.authors # {} /\ asked.tagged # {} => G!Route(asked) = some
  BY ONLY <1>2, <1>3
<1> QED
  BY <1>1, <1>4, Zenon

LEMMA FilterCovered ==
  ASSUME SidesAreSeqs, NEW asked, asked \in G!RouteFilters
  PROVE  Covered(asked)
<1>1. PICK both : both = asked.authors \cup asked.tagged
  OBVIOUS
<1>2. asked.authors \subseteq Pubkeys /\ asked.tagged \subseteq Pubkeys
  BY DEF G!RouteFilters
<1>3. \A p \in Pubkeys : /\ IsSeq(Outbox[p]) /\ IsSeq(Inbox[p])
                         /\ Outbox[p] = G!Lookup(p).write /\ Inbox[p] = G!Lookup(p).read
  BY DEF SidesAreSeqs, Outbox, Inbox
<1>4. CASE both = {}
  <2>1. G!Route(asked) = [perRelay |-> <<>>, remainder |-> asked]
    BY <1>1, <1>4, RouteIs
  <2>2. asked.authors = {} /\ asked.tagged = {}
    BY <1>1, <1>4
  <2> QED
    BY <2>1, <2>2 DEF Covered
<1>5. CASE both # {} /\ asked.tagged = {}
  <2>1. PICK r : r = G!Route(asked)
    OBVIOUS
  <2>2. r = G!Broken(asked, "authors", Outbox)
    BY <1>1, <1>5, <2>1, RouteIs
  <2>3. BrokenRight(r, asked, "authors", "tagged", Outbox)
    BY <1>3, <2>2, BrokenIs
  <2>4. /\ \A p \in asked.authors : \A url \in ToSet(G!Lookup(p).write) :
             url \in DOMAIN r.perRelay /\ p \in r.perRelay[url].authors
        /\ \A p \in asked.authors : G!Lookup(p).write = <<>> => p \in r.remainder.authors
        /\ \A url \in DOMAIN r.perRelay : \A p \in r.perRelay[url].authors :
             url \in ToSet(G!Lookup(p).write)
    BY <1>2, <1>3, <2>3 DEF BrokenRight
  <2> QED
    BY <1>3, <1>5, <2>1, <2>4 DEF Covered
<1>6. CASE both # {} /\ asked.authors = {}
  <2>1. PICK r : r = G!Route(asked)
    OBVIOUS
  <2>2. r = G!Broken(asked, "tagged", Inbox)
    BY <1>1, <1>6, <2>1, RouteIs
  <2>3. BrokenRight(r, asked, "tagged", "authors", Inbox)
    BY <1>3, <2>2, BrokenIs
  <2> QED
    BY <1>2, <1>3, <1>6, <2>1, <2>3 DEF Covered, BrokenRight
<1>7. CASE asked.authors # {} /\ asked.tagged # {}
  <2>1. PICK r : r = G!Route(asked)
    OBVIOUS
  <2>2. r = Whole(asked, both)
    BY <1>1, <1>7, <2>1, RouteIs
  <2>3. DOMAIN r.perRelay = RelaysOf(both) /\ \A url \in RelaysOf(both) : r.perRelay[url] = asked
    BY <2>2 DEF Whole
  <2>4. \A p \in both : ToSet(Outbox[p]) \subseteq RelaysOf(both) /\ ToSet(Inbox[p]) \subseteq RelaysOf(both)
    <3>1. \A p \in both : ToSet(Outbox[p] \o Inbox[p]) = ToSet(Outbox[p]) \cup ToSet(Inbox[p])
      BY <1>1, <1>2, <1>3, ConcatSeq
    <3>2. \A p \in both : ToSet(Outbox[p] \o Inbox[p]) \subseteq RelaysOf(both)
      BY DEF RelaysOf
    <3> QED
      BY <3>1, <3>2
  <2>5. ASSUME NEW p \in both, Outbox[p] = <<>>, Inbox[p] = <<>> PROVE r.remainder = asked
    <3>1. Outbox[p] \o Inbox[p] = <<>>
      BY <1>1, <1>2, <1>3, <2>5, ConcatSeq
    <3> QED
      BY <2>2, <3>1 DEF Whole
  <2> QED
    BY <1>1, <1>2, <1>3, <1>7, <2>1, <2>3, <2>4, <2>5 DEF Covered
<1> QED
  BY <1>1, <1>4, <1>5, <1>6, <1>7

\* What RouteCovers says of an Outbox feed.
LEMMA FeedCovered ==
  ASSUME SidesAreSeqs, NEW authors, authors \subseteq Pubkeys, NEW p, p \in authors
  PROVE  /\ G!AskedAt(p, authors) # {} /\ Cardinality(G!AskedAt(p, authors)) <= MaxAsked
         /\ G!AskedAt(p, authors) \subseteq
              IF G!Lookup(p).write = <<>> THEN ToSet(Discovery) ELSE ToSet(G!Lookup(p).write)
<1>1. PICK asked, r :
        /\ asked = [authors |-> authors, tagged |-> {}]
        /\ r = G!Route(asked)
  OBVIOUS
<1>2. asked \in G!RouteFilters /\ asked.authors = authors /\ asked.tagged = {}
  BY <1>1 DEF G!RouteFilters
<1>3. r = G!Broken(asked, "authors", Outbox)
  BY <1>1, <1>2, RouteIs
<1>4. \A q \in Pubkeys : IsSeq(Outbox[q]) /\ Outbox[q] = G!Lookup(q).write
  BY DEF SidesAreSeqs, Outbox
<1>5. BrokenRight(r, asked, "authors", "tagged", Outbox)
  BY <1>2, <1>3, <1>4, BrokenIs
<1>6. p \in r.remainder.authors <=> G!Lookup(p).write = <<>>
  BY <1>2, <1>4, <1>5 DEF BrokenRight
<1>7. PICK urls : urls = IF G!Lookup(p).write = <<>> THEN Discovery ELSE G!Lookup(p).write
  OBVIOUS
<1>8. IsSeq(urls) /\ urls # <<>>
  BY <1>7, GossipAssumption DEF SidesAreSeqs, IsSeq
<1>9. PICK a, b, left : /\ a = Only(urls, Preferred) /\ b = Only(urls, left)
                        /\ left = ToSet(urls) \ Preferred
  OBVIOUS
<1>10. /\ IsSeq(a) /\ IsSeq(b) /\ ToSet(a) = ToSet(urls) \cap Preferred
       /\ ToSet(b) = ToSet(urls) \cap left
  BY <1>8, <1>9, OnlySeq
<1>11. PICK c : c = a \o b
  OBVIOUS
<1>12. IsSeq(c) /\ ToSet(c) = ToSet(urls) /\ c # <<>>
  <2>1. IsSeq(c) /\ ToSet(c) = ToSet(a) \cup ToSet(b)
    BY <1>10, <1>11, ConcatSeq
  <2>2. ToSet(c) = ToSet(urls)
    BY <1>9, <1>10, <2>1
  <2>3. ToSet(urls) # {}
    BY <1>8, EmptySet
  <2> QED
    BY <2>1, <2>2, <2>3, EmptySet
<1>13. G!AskedAt(p, authors) = ToSet(G!First(c, MaxAsked))
  BY <1>1, <1>6, <1>7, <1>9, <1>11, GossipNames DEF G!AskedAt
<1>14. MaxAsked \in Nat /\ MaxAsked # 0
  BY GossipAssumption
<1>15. /\ ToSet(G!First(c, MaxAsked)) \subseteq ToSet(c) /\ ToSet(G!First(c, MaxAsked)) # {}
       /\ Cardinality(ToSet(G!First(c, MaxAsked))) <= MaxAsked
  BY <1>12, <1>14, FirstSeq
<1> QED
  BY <1>7, <1>12, <1>13, <1>15

LEMMA RoutesCover ==
  ASSUME SidesAreSeqs
  PROVE  G!RouteCovers
<1>1. \A asked \in G!RouteFilters : Covered(asked)
  BY FilterCovered
<1> QED
  BY <1>1, FeedCovered, GossipNames DEF G!RouteCovers, Covered

(* gossip.ts, outbox.ts: for every set of relay lists and whatever order they *)
(* arrive in, the routes of a tracked pubkey are those of the lists that win   *)
(* among the ones it sent since it is tracked, and neither a routed filter nor *)
(* an outbox feed leaves a pubkey out, or asks a relay the pubkey does not use.*)
THEOREM RoutesAreRight == Spec => []RoutesRight
<1>1. Init => GossipInv
  BY GossipInit DEF Init
<1>2. GossipInv /\ [Next]_partVars => GossipInv'
  BY GossipStep, PartSteps
<1>3. GossipInv => RoutesRight
  BY WinnersRouted, LookupSeqs, RoutesCover DEF RoutesRight, G!RoutesRight
<1> QED
  BY <1>1, <1>2, <1>3, PTL DEF Spec

-----------------------------------------------------------------------------
(* The synchronisation.                                                      *)

\* The part counts and folds with the same operators as the lemmas.
LEMMA SyncNames ==
  /\ \A s : N!ToSet(s) = ToSet(s)
  /\ \A X : N!Cardinality(X) = Cardinality(X) /\ N!Max(X) = Max(X)
  /\ \A X : N!SetToSeq(X) = SetToSeq(X)
<1>1. \A s : N!ToSet(s) = ToSet(s)
  BY DEF N!ToSet, ToSet
<1>2. \A X : N!Cardinality(X) = Cardinality(X)
  BY DEF N!Cardinality, Cardinality
<1>3. \A X : N!Max(X) = Max(X)
  BY DEF N!Max, Max
<1>4. \A X : N!SetToSeq(X) = SetToSeq(X)
  BY <1>2 DEF N!SetToSeq, SetToSeq, N!IsInjective, IsInjective
<1> QED
  BY <1>1, <1>2, <1>3, <1>4

Top == N!Infinity

LEMMA Numbers ==
  /\ LastItem \in Nat /\ Top = LastItem + 1 /\ N!Items = 1..LastItem /\ IsFiniteSet(N!Items)
  /\ Buckets \in Nat \ {0} /\ Threshold \in Nat /\ Threshold >= Buckets
  BY SyncAssumption, FS_Interval DEF Top, N!Infinity, N!Items

Span(X, lo, hi) == {i \in X : lo <= i /\ i < hi}

LEMMA SpanIs == \A X, lo, hi : N!Within(X, lo, hi) = Span(X, lo, hi)
  BY DEF N!Within, Span

\* The rank of an item among a set of them.
RankOf(X, i) == Cardinality({j \in X : j <= i})

LEMMA RankIs ==
  ASSUME NEW X, X \subseteq N!Items
  PROVE  /\ IsFiniteSet(X) /\ Cardinality(X) \in Nat
         /\ \A i \in X : RankOf(X, i) \in 1..Cardinality(X)
         /\ \A i, j \in X : i < j <=> RankOf(X, i) < RankOf(X, j)
         /\ \A m \in 1..Cardinality(X) : \E i \in X : RankOf(X, i) = m
<1> DEFINE Upto(i) == {j \in X : j <= i}
           n == Cardinality(X)
<1>0. IsFiniteSet(X) /\ X \subseteq Int
  <2>1. \A i \in 1..LastItem : i \in Int
    OBVIOUS
  <2> QED
    BY <2>1, Numbers, FS_Subset
<1>1. IsFiniteSet(X) /\ n \in Nat /\ X \subseteq Int
  BY <1>0, FS_CardinalityType
<1>2. ASSUME NEW i \in X PROVE IsFiniteSet(Upto(i)) /\ RankOf(X, i) \in 1..n
  <2>1. Upto(i) \subseteq X /\ i \in Upto(i)
    BY <1>1
  <2>2. IsFiniteSet(Upto(i)) /\ Cardinality(Upto(i)) <= n /\ Cardinality(Upto(i)) \in Nat
    BY <1>1, <2>1, FS_Subset, FS_CardinalityType
  <2>3. Cardinality(Upto(i)) # 0
    BY <2>1, <2>2, FS_EmptySet
  <2> QED
    BY <1>1, <2>2, <2>3 DEF RankOf
<1> HIDE DEF n, Upto
<1>a. \A i \in X : i \in Int /\ RankOf(X, i) \in Int
  <2>1. \A i \in X : RankOf(X, i) \in 1..n
    BY <1>2
  <2>2. \A m \in 1..n : m \in Int
    OBVIOUS
  <2> QED
    BY <1>1, <2>1, <2>2
<1>3. ASSUME NEW i \in X, NEW j \in X, i < j PROVE RankOf(X, i) < RankOf(X, j)
  <2>1. PICK less, more : less = Upto(i) /\ more = Upto(j)
    OBVIOUS
  <2>2. IsFiniteSet(less) /\ IsFiniteSet(more) /\ j \in more /\ less \subseteq more \ {j}
    <3>1. i \in Int /\ j \in Int /\ X \subseteq Int
      BY <1>1
    <3>2. \A q : (q \in less <=> q \in X /\ q <= i) /\ (q \in more <=> q \in X /\ q <= j)
      BY <2>1 DEF Upto
    <3>3. j \in more
      BY <3>1, <3>2
    <3>4. ASSUME NEW q \in less PROVE q \in more /\ q # j
      <4>1. q \in Int /\ q <= i
        BY <3>1, <3>2, <3>4
      <4> QED
        BY <1>3, <3>1, <3>2, <3>4, <4>1
    <3> QED
      BY <1>2, <2>1, <3>3, <3>4
  <2>3. IsFiniteSet(more \ {j}) /\ Cardinality(more \ {j}) = Cardinality(more) - 1
    BY <2>2, FS_RemoveElement
  <2>4. Cardinality(less) <= Cardinality(more \ {j})
    BY <2>2, <2>3, FS_Subset
  <2>5. Cardinality(less) \in Nat /\ Cardinality(more) \in Nat
    BY <2>2, FS_CardinalityType
  <2> QED
    BY <2>1, <2>3, <2>4, <2>5 DEF RankOf, Upto
<1>4. \A i, j \in X : i < j <=> RankOf(X, i) < RankOf(X, j)
  <2> TAKE i, j \in X
  <2>1. i \in Int /\ j \in Int /\ RankOf(X, i) \in Int /\ RankOf(X, j) \in Int
    BY <1>a
  <2>2. i < j \/ i = j \/ j < i
    BY <2>1
  <2> QED
    BY <1>3, <2>1, <2>2
<1>5. \A m \in 1..n : \E i \in X : RankOf(X, i) = m
  <2>1. PICK f : f = [i \in X |-> RankOf(X, i)]
    OBVIOUS
  <2>2. \A i, j \in X : RankOf(X, i) = RankOf(X, j) => i = j
    <3> TAKE i, j \in X
    <3>1. i \in Int /\ j \in Int /\ RankOf(X, i) \in Int /\ RankOf(X, j) \in Int
      BY <1>a
    <3> QED
      BY <1>4, <3>1
  <2>3. f \in Injection(X, 1..n)
    BY <1>2, <2>1, <2>2 DEF Injection, IsInjective
  <2>4. IsFiniteSet(1..n) /\ Cardinality(1..n) = n
    BY <1>1, FS_Interval
  <2>6. Cardinality(X) = n
    BY DEF n
  <2>5. f \in Surjection(X, 1..n)
    BY <2>3, <2>4, <2>6, FS_Injection
  <2> QED
    BY <2>1, <2>5 DEF Surjection
<1> QED
  BY <1>1, <1>2, <1>4, <1>5 DEF n

LEMMA Extremes ==
  ASSUME NEW X, X \subseteq N!Items, X # {}
  PROVE  /\ N!Max(X) \in X /\ \A i \in X : i <= N!Max(X)
         /\ N!Min(X) \in X /\ \A i \in X : N!Min(X) <= i
<1>1. PICK n : n = Cardinality(X)
  OBVIOUS
<1>2. n \in Nat /\ n # 0
  BY <1>1, RankIs, FS_EmptySet
<1>3. X \subseteq Int
  <2>1. \A i \in 1..LastItem : i \in Int
    OBVIOUS
  <2> QED
    BY <2>1, Numbers
<1>4. /\ \A i \in X : RankOf(X, i) \in 1..n
      /\ \A i, j \in X : i < j <=> RankOf(X, i) < RankOf(X, j)
      /\ \A m \in 1..n : \E i \in X : RankOf(X, i) = m
  BY <1>1, RankIs
<1>5. PICK hi \in X, lo \in X : RankOf(X, hi) = n /\ RankOf(X, lo) = 1
  BY <1>2, <1>4
<1>6. \A i \in X : hi >= i /\ i <= hi /\ lo <= i
  <2> TAKE i \in X
  <2>1. i \in Int /\ hi \in Int /\ lo \in Int /\ RankOf(X, i) \in 1..n
    BY <1>3, <1>4
  <2>2. ~(hi < i) /\ ~(i < lo)
    BY <1>2, <1>4, <1>5, <2>1
  <2> QED
    BY <2>1, <2>2
<1>7. N!Max(X) \in X /\ \A i \in X : N!Max(X) >= i
  BY <1>5, <1>6 DEF N!Max
<1>8. N!Min(X) \in X /\ \A i \in X : N!Min(X) <= i
  BY <1>5, <1>6 DEF N!Min
<1>9. \A i \in X : N!Max(X) >= i => i <= N!Max(X)
  BY <1>3, <1>7
<1> QED
  BY <1>7, <1>8, <1>9

\* How many of n items are in the first k buckets.
Dealt(n, k) == (n \div Buckets) * k + (IF k < n % Buckets THEN k ELSE n % Buckets)

LEMMA DealtIs ==
  ASSUME NEW n \in Nat, n >= Buckets
  PROVE  /\ Dealt(n, 0) = 0 /\ Dealt(n, Buckets) = n
         /\ \A k \in 0..Buckets : Dealt(n, k) \in Nat
         /\ \A j, k \in 0..Buckets : j < k => Dealt(n, j) < Dealt(n, k)
<1>1. PICK b, q, r : b = Buckets /\ q = n \div Buckets /\ r = n % Buckets
  OBVIOUS
<1>2. b \in Nat \ {0} /\ q \in Nat /\ r \in Nat /\ r < b /\ n = q * b + r /\ n >= b
  BY <1>1, Numbers
<1>3. q >= 1
  BY <1>2
<1>4. \A k : Dealt(n, k) = q * k + (IF k < r THEN k ELSE r)
  BY <1>1 DEF Dealt
<1>5. \A k \in 0..b : q * k \in Nat
  BY <1>2
<1>6. \A j, k \in 0..b : j < k => q * j < q * k
  BY <1>2, <1>3
<1>7. q * 0 = 0
  BY <1>2
<1>8. Dealt(n, 0) = 0
  BY <1>2, <1>4, <1>7
<1>9. Dealt(n, b) = n
  BY <1>2, <1>4
<1>10. \A k \in 0..b : Dealt(n, k) \in Nat
  <2> TAKE k \in 0..b
  <2>1. PICK m \in Nat : m = q * k
    BY <1>5
  <2> QED
    BY <1>2, <1>4, <2>1
<1>11. \A j, k \in 0..b : j < k => Dealt(n, j) < Dealt(n, k)
  <2> TAKE j, k \in 0..b
  <2> HAVE j < k
  <2>1. PICK m \in Nat, l \in Nat : m = q * j /\ l = q * k
    BY <1>5
  <2>2. m < l
    BY <1>6, <2>1
  <2> QED
    BY <1>2, <1>4, <2>1, <2>2
<1> QED
  BY <1>1, <1>8, <1>9, <1>10, <1>11

\* The items of the k-th bucket.
Dealing(X, k) == {i \in X : Dealt(Cardinality(X), k - 1) < RankOf(X, i)
                            /\ RankOf(X, i) <= Dealt(Cardinality(X), k)}

\* No bucket is empty, and they are in order.
LEMMA DealingIs ==
  ASSUME NEW X, X \subseteq N!Items, Cardinality(X) >= Buckets
  PROVE  /\ \A k \in 1..Buckets : Dealing(X, k) # {} /\ Dealing(X, k) \subseteq X
         /\ \A i \in X : \E k \in 1..Buckets : i \in Dealing(X, k)
         /\ \A j, k \in 1..Buckets : j < k =>
              \A x \in Dealing(X, j) : \A y \in Dealing(X, k) : x < y
<1>1. PICK n, b : n = Cardinality(X) /\ b = Buckets
  OBVIOUS
<1>2. n \in Nat /\ n >= b /\ b \in Nat \ {0}
  BY <1>1, RankIs, Numbers
<1>3. /\ \A i \in X : RankOf(X, i) \in 1..n
      /\ \A i, j \in X : i < j <=> RankOf(X, i) < RankOf(X, j)
      /\ \A m \in 1..n : \E i \in X : RankOf(X, i) = m
  BY <1>1, RankIs
<1>4. /\ Dealt(n, 0) = 0 /\ Dealt(n, b) = n
      /\ \A k \in 0..b : Dealt(n, k) \in Nat
      /\ \A j, k \in 0..b : j < k => Dealt(n, j) < Dealt(n, k)
  BY <1>1, <1>2, DealtIs
<1>5. \A k : \A i : i \in Dealing(X, k) <=>
        i \in X /\ Dealt(n, k - 1) < RankOf(X, i) /\ RankOf(X, i) <= Dealt(n, k)
  BY <1>1 DEF Dealing
<1>6. \A k \in 1..b : k - 1 \in 0..b /\ k \in 0..b /\ b \in 0..b /\ k - 1 < k
  BY <1>2
<1>7. ASSUME NEW k \in 1..b PROVE Dealing(X, k) # {}
  <2>1. PICK p \in Nat, q \in Nat : p = Dealt(n, k - 1) /\ q = Dealt(n, k) /\ p < q
    BY <1>4, <1>6
  <2>2. q <= n
    <3>1. k = b \/ k < b
      BY <1>2
    <3>2. k < b => q < n
      BY <1>4, <1>6, <2>1
    <3> QED
      BY <1>2, <1>4, <2>1, <3>1, <3>2
  <2>3. q \in 1..n
    BY <1>2, <2>1, <2>2
  <2>4. PICK i \in X : RankOf(X, i) = q
    BY <1>3, <2>3
  <2> QED
    BY <1>5, <2>1, <2>4
<1>8. ASSUME NEW i \in X PROVE \E k \in 1..b : i \in Dealing(X, k)
  <2> SUFFICES ASSUME \A k \in 1..b : i \notin Dealing(X, k) PROVE FALSE
    OBVIOUS
  <2>1. PICK m \in Nat : m = RankOf(X, i) /\ m \in 1..n
    BY <1>3
  <2>2. PICK Low : Low = {k \in 0..b : Dealt(n, k) < m}
    OBVIOUS
  <2>3. 0 \in Low
    BY <1>2, <1>4, <2>1, <2>2
  <2>4. ASSUME NEW k \in 1..b, k - 1 \in Low PROVE k \in Low
    <3>1. Dealt(n, k - 1) < m /\ Dealt(n, k) \in Nat
      BY <1>4, <1>6, <2>2, <2>4
    <3>2. ~(m <= Dealt(n, k))
      BY <1>5, <2>1, <3>1
    <3>3. Dealt(n, k) < m
      BY <3>1, <3>2, <2>1
    <3> QED
      BY <1>6, <2>2, <3>3
  <2>5. 0..b \subseteq Low
    BY <1>2, <2>3, <2>4, UpToInduction
  <2>6. b \in Low
    BY <1>2, <2>5
  <2> QED
    BY <1>2, <1>4, <2>1, <2>2, <2>6
<1>9. ASSUME NEW j \in 1..b, NEW k \in 1..b, j < k,
             NEW x, x \in Dealing(X, j), NEW y, y \in Dealing(X, k)
      PROVE  x < y
  <2>1. x \in X /\ y \in X /\ RankOf(X, x) <= Dealt(n, j) /\ Dealt(n, k - 1) < RankOf(X, y)
    BY <1>5, <1>9
  <2>2. /\ RankOf(X, x) \in Nat /\ RankOf(X, y) \in Nat
        /\ Dealt(n, j) \in Nat /\ Dealt(n, k - 1) \in Nat
    BY <1>3, <1>4, <1>6, <2>1
  <2>3. Dealt(n, j) <= Dealt(n, k - 1)
    <3>1. j = k - 1 \/ j < k - 1
      BY <1>2, <1>9
    <3> QED
      BY <1>4, <1>6, <2>2, <3>1
  <2>4. RankOf(X, x) < RankOf(X, y)
    BY <2>1, <2>2, <2>3
  <2> QED
    BY <1>3, <2>1, <2>4
<1>10. \A k : Dealing(X, k) \subseteq X
  BY <1>5
<1> QED
  BY <1>1, <1>7, <1>8, <1>9, <1>10

-----------------------------------------------------------------------------
(* The messages of a session.                                                *)

Rgs == [bound : 1..Top, mode : {"skip", "fingerprint", "ids"}, held : SUBSET N!Items]

\* Where the k-th range begins, and where the last one ends.
From(a, s, k) == IF k = 1 THEN a ELSE s[k - 1].bound
EndOf(a, s) == IF Len(s) = 0 THEN a ELSE s[Len(s)].bound

\* A range of a side that has `ours`, sent to one that has `others`: a list is
\* exact; a fingerprint is, or at least does not match unless the sides agree.
Fine(ours, others, exact, a, r) ==
  /\ a <= r.bound
  /\ r.mode = "ids" => r.held = Span(ours, a, r.bound)
  /\ r.mode = "fingerprint" =>
       /\ exact => r.held = Span(ours, a, r.bound) /\ r.held # {}
       /\ r.held = Span(others, a, r.bound) => Span(ours, a, r.bound) = Span(others, a, r.bound)
Chain(ours, others, exact, a, s) ==
  /\ s \in Seq(Rgs) /\ a \in 1..Top
  /\ \A k \in 1..Len(s) : Fine(ours, others, exact, From(a, s, k), s[k])

\* The items that a message does not pass over.
Asked(a, s) == {i \in N!Items : \E k \in 1..Len(s) :
                    s[k].mode # "skip" /\ From(a, s, k) <= i /\ i < s[k].bound}

\* A message from a to b that passes over nothing.
CoversAll(ours, others, exact, a, b, s) ==
  /\ Chain(ours, others, exact, a, s) /\ EndOf(a, s) = b
  /\ \A i \in N!Items : a <= i /\ i < b => i \in Asked(a, s)

LEMMA ChainNone ==
  ASSUME NEW ours, NEW others, NEW exact, NEW a, a \in 1..Top, NEW s, s = <<>>
  PROVE  Chain(ours, others, exact, a, s) /\ EndOf(a, s) = a /\ Asked(a, s) = {}
  BY DEF Chain, EndOf, Asked

LEMMA ChainOne ==
  ASSUME NEW ours, NEW others, NEW exact, NEW a, a \in 1..Top, NEW r, r \in Rgs,
         Fine(ours, others, exact, a, r), NEW s, s = <<r>>
  PROVE  /\ Chain(ours, others, exact, a, s) /\ EndOf(a, s) = r.bound
         /\ r.mode # "skip" => \A i \in N!Items : a <= i /\ i < r.bound => i \in Asked(a, s)
<1>1. s \in Seq(Rgs) /\ Len(s) = 1 /\ s[1] = r /\ \A k \in 1..Len(s) : k = 1
  OBVIOUS
<1>2. From(a, s, 1) = a
  BY DEF From
<1>3. Chain(ours, others, exact, a, s)
  BY <1>1, <1>2 DEF Chain
<1>4. EndOf(a, s) = r.bound
  BY <1>1 DEF EndOf
<1>5. 1 \in 1..Len(s)
  BY <1>1
<1> QED
  BY <1>1, <1>2, <1>3, <1>4, <1>5 DEF Asked

LEMMA ChainEnds ==
  ASSUME NEW ours, NEW others, NEW exact, NEW a, NEW s, Chain(ours, others, exact, a, s)
  PROVE  EndOf(a, s) \in 1..Top
<1>1. s \in Seq(Rgs) /\ a \in 1..Top /\ \A r \in Rgs : r.bound \in 1..Top
  BY DEF Chain, Rgs
<1>2. Len(s) = 0 \/ s[Len(s)] \in Rgs
  BY <1>1
<1> QED
  BY <1>1, <1>2 DEF EndOf

\* u is the ranges of s and those of t, in this order.
JoinedTo(u, s, t) ==
  /\ u \in Seq(Rgs) /\ Len(u) = Len(s) + Len(t)
  /\ \A k \in 1..Len(s) : u[k] = s[k]
  /\ \A k \in 1..Len(t) : \A l : l = Len(s) + k => u[l] = t[k]

\* They make one message.
Joint(ours, others, exact, a, s, b, t, u) ==
  /\ Chain(ours, others, exact, a, u) /\ EndOf(a, u) = EndOf(b, t)
  /\ \A i : i \in Asked(a, u) <=> i \in Asked(a, s) \/ i \in Asked(b, t)

LEMMA ChainLinks ==
  ASSUME NEW ours, NEW others, NEW exact, NEW a, NEW s, Chain(ours, others, exact, a, s),
         NEW b, b = EndOf(a, s), NEW t, Chain(ours, others, exact, b, t), NEW u, JoinedTo(u, s, t)
  PROVE  Joint(ours, others, exact, a, s, b, t, u)
<1>1. PICK m, n : m = Len(s) /\ n = Len(t)
  OBVIOUS
<1>2. s \in Seq(Rgs) /\ t \in Seq(Rgs) /\ a \in 1..Top
  BY DEF Chain
<1>3. /\ u \in Seq(Rgs) /\ m \in Nat /\ n \in Nat /\ Len(u) = m + n
      /\ \A k \in 1..m : u[k] = s[k]
  BY <1>1, <1>2 DEF JoinedTo
<1>r. \A k \in 1..n : \A l : l = m + k => u[l] = t[k]
  BY <1>1 DEF JoinedTo
<1>4. \A k \in 1..m : From(a, u, k) = From(a, s, k)
  <2> TAKE k \in 1..m
  <2>1. k = 1 \/ k - 1 \in 1..m
    BY <1>3
  <2> QED
    BY <1>3, <2>1 DEF From
<1>5. \A k \in 1..n : \A l : l = m + k => From(a, u, l) = From(b, t, k)
  <2> TAKE k \in 1..n
  <2> TAKE l
  <2> HAVE l = m + k
  <2>1. CASE k = 1 /\ m = 0
    BY <1>1, <2>1 DEF From, EndOf
  <2>2. CASE k = 1 /\ m # 0
    <3>1. m \in 1..m /\ l - 1 = m /\ l # 1
      BY <1>3, <2>2
    <3> QED
      BY <1>1, <1>3, <2>2, <3>1 DEF From, EndOf
  <2>3. CASE k # 1
    <3>1. PICK j \in 1..n : j = k - 1
      BY <1>3, <2>3
    <3>2. l - 1 = m + j /\ l # 1
      BY <1>3, <2>3, <3>1
    <3>3. u[l - 1] = t[j]
      BY <1>r, <3>1, <3>2
    <3> QED
      BY <2>3, <3>1, <3>2, <3>3 DEF From
  <2> QED
    BY <2>1, <2>2, <2>3
<1>6. \A l \in 1..(m + n) : l \in 1..m \/ \E k \in 1..n : l = m + k
  <2> TAKE l \in 1..(m + n)
  <2>1. l <= m => l \in 1..m
    BY <1>3
  <2>2. ~(l <= m) => l - m \in 1..n /\ l = m + (l - m)
    BY <1>3
  <2> QED
    BY <2>1, <2>2
<1>7. Chain(ours, others, exact, a, u)
  <2> SUFFICES ASSUME NEW l \in 1..Len(u) PROVE Fine(ours, others, exact, From(a, u, l), u[l])
    BY <1>2, <1>3 DEF Chain
  <2>1. CASE l \in 1..m
    BY <1>1, <1>3, <1>4, <2>1 DEF Chain
  <2>2. ASSUME NEW k \in 1..n, l = m + k PROVE Fine(ours, others, exact, From(a, u, l), u[l])
    <3>1. u[l] = t[k] /\ From(a, u, l) = From(b, t, k)
      BY <1>r, <1>5, <2>2
    <3> QED
      BY <1>1, <2>2, <3>1 DEF Chain
  <2> QED
    BY <1>3, <1>6, <2>1, <2>2
<1>8. EndOf(a, u) = EndOf(b, t)
  <2>1. CASE n = 0
    <3>1. m # 0 => m \in 1..m
      BY <1>3
    <3> QED
      BY <1>1, <1>3, <2>1, <3>1 DEF EndOf
  <2>2. CASE n # 0
    <3>1. n \in 1..n /\ m + n # 0
      BY <1>3, <2>2
    <3>2. u[m + n] = t[n]
      BY <1>r, <3>1
    <3> QED
      BY <1>1, <1>3, <2>2, <3>1, <3>2 DEF EndOf
  <2> QED
    BY <2>1, <2>2
<1>9. ASSUME NEW i, i \in Asked(a, u) PROVE i \in Asked(a, s) \/ i \in Asked(b, t)
  <2>1. PICK l \in 1..Len(u) : i \in N!Items /\ u[l].mode # "skip" /\ From(a, u, l) <= i /\ i < u[l].bound
    BY <1>9 DEF Asked
  <2>2. CASE l \in 1..m
    BY <1>1, <1>3, <1>4, <2>1, <2>2 DEF Asked
  <2>3. ASSUME NEW k \in 1..n, l = m + k PROVE i \in Asked(b, t)
    <3>1. u[l] = t[k] /\ From(a, u, l) = From(b, t, k)
      BY <1>r, <1>5, <2>3
    <3> QED
      BY <1>1, <2>1, <2>3, <3>1 DEF Asked
  <2> QED
    BY <1>3, <1>6, <2>1, <2>2, <2>3
<1>10. ASSUME NEW i, i \in Asked(a, s) PROVE i \in Asked(a, u)
  <2>1. PICK k \in 1..m : i \in N!Items /\ s[k].mode # "skip" /\ From(a, s, k) <= i /\ i < s[k].bound
    BY <1>1, <1>10 DEF Asked
  <2>2. k \in 1..Len(u)
    BY <1>3
  <2> QED
    BY <1>3, <1>4, <2>1, <2>2 DEF Asked
<1>11. ASSUME NEW i, i \in Asked(b, t) PROVE i \in Asked(a, u)
  <2>1. PICK k \in 1..n : i \in N!Items /\ t[k].mode # "skip" /\ From(b, t, k) <= i /\ i < t[k].bound
    BY <1>1, <1>11 DEF Asked
  <2>2. PICK l : l = m + k
    OBVIOUS
  <2>3. l \in 1..Len(u)
    BY <1>3, <2>1, <2>2
  <2>4. u[l] = t[k] /\ From(a, u, l) = From(b, t, k)
    BY <1>r, <1>5, <2>1, <2>2
  <2> QED
    BY <2>1, <2>3, <2>4 DEF Asked
<1> QED
  BY <1>7, <1>8, <1>9, <1>10, <1>11 DEF Joint

LEMMA ChainJoin ==
  ASSUME NEW ours, NEW others, NEW exact, NEW a, NEW s, Chain(ours, others, exact, a, s),
         NEW b, b = EndOf(a, s), NEW t, Chain(ours, others, exact, b, t), NEW u, u = s \o t
  PROVE  Joint(ours, others, exact, a, s, b, t, u)
<1>1. s \in Seq(Rgs) /\ t \in Seq(Rgs)
  BY DEF Chain
<1>2. JoinedTo(u, s, t)
  BY <1>1 DEF JoinedTo
<1> QED
  BY <1>2, ChainLinks

\* A range that says what its side has is a fine one.
LEMMA FineIs ==
  ASSUME NEW ours, NEW others, NEW exact, NEW a, NEW r, a <= r.bound,
         r.held = Span(ours, a, r.bound), r.mode = "fingerprint" => r.held # {}
  PROVE  Fine(ours, others, exact, a, r)
  BY DEF Fine

\* The bounds of the buckets of X, which is all a side has from lo to hi.
SplitAt(X, lo, hi, low, k) ==
  IF k = 0 THEN lo ELSE IF k = Buckets THEN hi
  ELSE N!Separates(low, N!Max(Dealing(X, k)), N!Min(Dealing(X, k + 1)))

LEMMA SplitAtIs ==
  ASSUME NEW X, X \subseteq N!Items, Cardinality(X) >= Buckets, NEW low,
         NEW lo \in 1..Top, NEW hi \in 1..Top, \A i \in X : lo <= i /\ i < hi
  PROVE  \A k \in 0..Buckets :
           /\ SplitAt(X, lo, hi, low, k) \in 1..Top
           /\ lo <= SplitAt(X, lo, hi, low, k) /\ SplitAt(X, lo, hi, low, k) <= hi
           /\ \A j \in 1..Buckets : \A x \in Dealing(X, j) :
                /\ j <= k => x < SplitAt(X, lo, hi, low, k)
                /\ k < j => SplitAt(X, lo, hi, low, k) <= x
<1>1. PICK b : b = Buckets
  OBVIOUS
<1>2. b \in Nat \ {0} /\ Top \in Nat
  BY <1>1, Numbers
<1>3. /\ \A k \in 1..b : Dealing(X, k) # {} /\ Dealing(X, k) \subseteq X
      /\ \A j, k \in 1..b : j < k => \A x \in Dealing(X, j) : \A y \in Dealing(X, k) : x < y
  BY <1>1, DealingIs
<1>4. X \subseteq Nat
  <2>1. \A i \in 1..LastItem : i \in Nat
    OBVIOUS
  <2> QED
    BY <2>1, Numbers
<1>5. X # {} /\ lo \in Nat /\ hi \in Nat /\ lo < hi
  <2>1. 1 \in 1..b
    BY <1>2
  <2>2. PICK i \in X : TRUE
    BY <1>3, <2>1
  <2> QED
    BY <1>2, <1>4, <2>2
<1>6. ASSUME NEW k \in 0..b PROVE
        /\ SplitAt(X, lo, hi, low, k) \in 1..Top
        /\ lo <= SplitAt(X, lo, hi, low, k) /\ SplitAt(X, lo, hi, low, k) <= hi
        /\ \A j \in 1..b : \A x \in Dealing(X, j) :
             /\ j <= k => x < SplitAt(X, lo, hi, low, k)
             /\ k < j => SplitAt(X, lo, hi, low, k) <= x
  <2>0. \A j \in 1..b : \A x \in Dealing(X, j) : x \in X /\ x \in Nat /\ lo <= x /\ x < hi
    BY <1>3, <1>4
  <2>1. CASE k = 0
    <3>1. SplitAt(X, lo, hi, low, k) = lo
      BY <2>1 DEF SplitAt
    <3> QED
      BY <1>5, <2>0, <2>1, <3>1
  <2>2. CASE k = b
    <3>1. SplitAt(X, lo, hi, low, k) = hi
      BY <1>1, <1>2, <2>2 DEF SplitAt
    <3> QED
      BY <1>5, <2>0, <2>2, <3>1
  <2>3. CASE k # 0 /\ k # b
    <3>1. k \in 1..b /\ k + 1 \in 1..b /\ k \in Nat /\ k < k + 1
      BY <1>2, <2>3
    <3>2. PICK p, c : p = N!Max(Dealing(X, k)) /\ c = N!Min(Dealing(X, k + 1))
      OBVIOUS
    <3>3. /\ p \in Dealing(X, k) /\ \A x \in Dealing(X, k) : x <= p
          /\ c \in Dealing(X, k + 1) /\ \A x \in Dealing(X, k + 1) : c <= x
      <4>1. /\ Dealing(X, k) # {} /\ Dealing(X, k) \subseteq N!Items
            /\ Dealing(X, k + 1) # {} /\ Dealing(X, k + 1) \subseteq N!Items
        BY <1>3, <3>1
      <4> QED
        BY <3>2, <4>1, Extremes
    <3>4. /\ p \in Nat /\ c \in Nat /\ p \in X /\ c \in X /\ p < c
          /\ lo <= p /\ p < hi /\ lo <= c /\ c < hi
      BY <1>3, <2>0, <3>1, <3>3
    <3>5. PICK v : v = SplitAt(X, lo, hi, low, k)
      OBVIOUS
    <3>6. v = p + 1 \/ v = c
      BY <1>1, <2>3, <3>2, <3>5 DEF SplitAt, N!Separates
    <3>7. v \in Nat /\ p < v /\ v <= c /\ lo <= v /\ v <= hi /\ v \in 1..Top
      BY <1>2, <1>5, <3>4, <3>6
    <3>8. ASSUME NEW j \in 1..b, NEW x \in Dealing(X, j), j <= k PROVE x < v
      <4>1. x \in Nat
        BY <2>0
      <4>2. j = k \/ j < k
        BY <3>1, <3>8
      <4>3. x <= p
        BY <1>3, <3>1, <3>3, <3>4, <4>1, <4>2
      <4> QED
        BY <3>4, <3>7, <4>1, <4>3
    <3>9. ASSUME NEW j \in 1..b, NEW x \in Dealing(X, j), k < j PROVE v <= x
      <4>1. x \in Nat
        BY <2>0
      <4>2. j = k + 1 \/ k + 1 < j
        BY <3>1, <3>9
      <4>3. c <= x
        BY <1>3, <3>1, <3>3, <3>4, <4>1, <4>2
      <4> QED
        BY <3>4, <3>7, <4>1, <4>3
    <3> QED
      BY <3>5, <3>7, <3>8, <3>9
  <2> QED
    BY <2>1, <2>2, <2>3
<1> QED
  BY <1>1, <1>6

\* What splitRange() makes.
LEMMA SplitForm ==
  ASSUME NEW ours, ours \subseteq N!Items, NEW lo \in 1..Top, NEW hi \in 1..Top, NEW low,
         NEW X, X = Span(ours, lo, hi)
  PROVE  N!Split(ours, lo, hi, low) =
           IF Cardinality(X) < Threshold THEN <<[bound |-> hi, mode |-> "ids", held |-> X]>>
           ELSE [k \in 1..Buckets |-> [bound |-> SplitAt(X, lo, hi, low, k),
                                       mode |-> "fingerprint", held |-> Dealing(X, k)]]
<1>1. N!Within(ours, lo, hi) = X /\ X \subseteq Int /\ lo \in Int
  <2>1. \A i \in 1..LastItem : i \in Int
    OBVIOUS
  <2>2. X \subseteq Int
    BY <2>1, Numbers DEF Span
  <2>3. lo \in Int
    OBVIOUS
  <2> QED
    BY <2>2, <2>3, SpanIs
<1>2. \A i \in X : N!Cardinality(N!Within(X, lo, i + 1)) = RankOf(X, i)
  <2> TAKE i \in X
  <2>1. \A j \in X : (lo <= j /\ j < i + 1) <=> j <= i
    <3> TAKE j \in X
    <3>1. i \in Int /\ j \in Int /\ lo <= j
      BY <1>1 DEF Span
    <3> QED
      BY <3>1
  <2>2. N!Within(X, lo, i + 1) = {j \in X : j <= i}
    BY <2>1 DEF N!Within
  <2> QED
    BY <2>2, SyncNames DEF RankOf
<1>3. \A k : {i \in X :
                (N!Cardinality(X) \div Buckets) * (k - 1)
                + (IF k - 1 < N!Cardinality(X) % Buckets THEN k - 1 ELSE N!Cardinality(X) % Buckets)
                  < N!Cardinality(N!Within(X, lo, i + 1))
                /\ N!Cardinality(N!Within(X, lo, i + 1))
                   <= (N!Cardinality(X) \div Buckets) * k
                      + (IF k < N!Cardinality(X) % Buckets THEN k ELSE N!Cardinality(X) % Buckets)}
             = Dealing(X, k)
  BY <1>2, SyncNames DEF Dealing, Dealt
<1>4. N!Split(ours, lo, hi, low) =
        IF N!Cardinality(X) < Threshold THEN <<N!Rng(hi, "ids", X)>>
        ELSE [k \in 1..Buckets |->
               N!Rng(IF k = Buckets THEN hi
                     ELSE N!Separates(low, N!Max(Dealing(X, k)), N!Min(Dealing(X, k + 1))),
                     "fingerprint", Dealing(X, k))]
  BY <1>1, <1>3 DEF N!Split
<1>5. \A k \in 1..Buckets : k # 0
  BY Numbers
<1> QED
  BY <1>4, <1>5, SyncNames DEF N!Rng, SplitAt

\* A split says what its side has, range by range, and passes over nothing.
LEMMA SplitIs ==
  ASSUME NEW ours, ours \subseteq N!Items, NEW lo \in 1..Top, NEW hi \in 1..Top, NEW low,
         NEW s, s = N!Split(ours, lo, hi, low), NEW others, NEW exact
  PROVE  /\ s \in Seq(Rgs) /\ s # <<>>
         /\ lo <= hi => CoversAll(ours, others, exact, lo, hi, s)
<1>1. PICK X, n, b : X = Span(ours, lo, hi) /\ n = Cardinality(X) /\ b = Buckets
  OBVIOUS
<1>2. /\ X \subseteq N!Items /\ n \in Nat /\ Top \in Nat /\ b \in Nat \ {0}
      /\ \A i : i \in X <=> i \in ours /\ lo <= i /\ i < hi
  <2>1. X \subseteq N!Items
    BY <1>1 DEF Span
  <2> QED
    BY <1>1, <2>1, Numbers, RankIs DEF Span
<1>3. CASE n < Threshold
  <2>1. PICK r : r = [bound |-> hi, mode |-> "ids", held |-> X]
    OBVIOUS
  <2>2. s = <<r>> /\ r \in Rgs
    BY <1>1, <1>2, <1>3, <2>1, SplitForm DEF Rgs
  <2>3. s \in Seq(Rgs) /\ s # <<>>
    BY <2>2
  <2>4. lo <= hi => Fine(ours, others, exact, lo, r)
    BY <1>1, <2>1, FineIs
  <2>5. r.bound = hi /\ r.mode # "skip"
    BY <2>1
  <2>6. lo <= hi => Chain(ours, others, exact, lo, s) /\ EndOf(lo, s) = hi
                    /\ \A i \in N!Items : lo <= i /\ i < hi => i \in Asked(lo, s)
    BY <2>2, <2>4, <2>5, ChainOne
  <2> QED
    BY <2>3, <2>6 DEF CoversAll
<1>4. CASE ~(n < Threshold)
  <2>1. PICK at : at = [k \in 0..b |-> SplitAt(X, lo, hi, low, k)]
    OBVIOUS
  <2>2. /\ s = [k \in 1..b |-> [bound |-> SplitAt(X, lo, hi, low, k), mode |-> "fingerprint",
                                held |-> Dealing(X, k)]]
        /\ n >= b
    <3>1. n >= b
      BY <1>1, <1>2, <1>4, Numbers
    <3>2. s = IF n < Threshold THEN <<[bound |-> hi, mode |-> "ids", held |-> X]>>
              ELSE [k \in 1..Buckets |-> [bound |-> SplitAt(X, lo, hi, low, k),
                                         mode |-> "fingerprint", held |-> Dealing(X, k)]]
      BY <1>1, SplitForm
    <3> QED
      BY <1>1, <1>4, <3>1, <3>2
  <2>3. \A k \in 0..b : /\ at[k] \in 1..Top /\ lo <= at[k] /\ at[k] <= hi
                        /\ \A j \in 1..b : \A x \in Dealing(X, j) :
                             (j <= k => x < at[k]) /\ (k < j => at[k] <= x)
    <3>1. X \subseteq N!Items /\ Cardinality(X) >= Buckets /\ \A i \in X : lo <= i /\ i < hi
      BY <1>1, <1>2, <2>2
    <3>2. \A k \in 0..Buckets :
            /\ SplitAt(X, lo, hi, low, k) \in 1..Top
            /\ lo <= SplitAt(X, lo, hi, low, k) /\ SplitAt(X, lo, hi, low, k) <= hi
            /\ \A j \in 1..Buckets : \A x \in Dealing(X, j) :
                 /\ j <= k => x < SplitAt(X, lo, hi, low, k)
                 /\ k < j => SplitAt(X, lo, hi, low, k) <= x
      BY <3>1, SplitAtIs
    <3>3. \A k \in 0..b : at[k] = SplitAt(X, lo, hi, low, k)
      BY <2>1
    <3> QED
      BY <1>1, <3>2, <3>3
  <2>4. /\ \A k \in 1..b : Dealing(X, k) # {} /\ Dealing(X, k) \subseteq X
        /\ \A i \in X : \E k \in 1..b : i \in Dealing(X, k)
    BY <1>1, <1>2, <2>2, DealingIs
  <2>5. at[0] = lo /\ at[b] = hi
    BY <1>1, <1>2, <2>1 DEF SplitAt
  <2>6. \A k \in 1..b : k \in 0..b /\ k - 1 \in 0..b /\ k - 1 < k
    BY <1>2
  <2>7. /\ s \in [1..b -> Rgs]
        /\ \A k \in 1..b : s[k].bound = at[k] /\ s[k].mode = "fingerprint" /\ s[k].held = Dealing(X, k)
    <3>1. \A k \in 1..b : SplitAt(X, lo, hi, low, k) = at[k]
      BY <2>1, <2>6
    <3>2. \A k \in 1..b : Dealing(X, k) \in SUBSET N!Items /\ at[k] \in 1..Top
      BY <1>2, <2>3, <2>4, <2>6
    <3> QED
      BY <2>2, <3>1, <3>2 DEF Rgs
  <2>8. s \in Seq(Rgs) /\ Len(s) = b /\ s # <<>>
    BY <1>2, <2>7
  <2>9. \A k \in 1..b : From(lo, s, k) = at[k - 1]
    <3> TAKE k \in 1..b
    <3>1. CASE k = 1
      BY <2>5, <3>1 DEF From
    <3>2. CASE k # 1
      <4>1. k - 1 \in 1..b
        BY <1>2, <3>2
      <4> QED
        BY <2>7, <3>2, <4>1 DEF From
    <3> QED
      BY <3>1, <3>2
  <2>10. ASSUME NEW k \in 1..b
         PROVE  at[k - 1] <= at[k] /\ Dealing(X, k) = Span(ours, at[k - 1], at[k])
    <3>1. PICK p \in Nat, q \in Nat : p = at[k - 1] /\ q = at[k]
      BY <1>2, <2>3, <2>6
    <3>2. \A x \in Dealing(X, k) : p <= x /\ x < q /\ x \in X /\ x \in Nat
      <4>1. \A x \in N!Items : x \in Nat
        BY Numbers
      <4>2. k <= k
        BY <1>2
      <4> QED
        BY <1>2, <2>3, <2>4, <2>6, <3>1, <4>1, <4>2
    <3>3. p <= q
      <4>1. PICK x \in Dealing(X, k) : TRUE
        BY <2>4
      <4> QED
        BY <3>2, <4>1
    <3>4. ASSUME NEW x \in Span(ours, p, q) PROVE x \in Dealing(X, k)
      <4>1. x \in ours /\ p <= x /\ x < q /\ x \in Nat
        <5>1. x \in ours /\ p <= x /\ x < q
          BY DEF Span
        <5>2. \A i \in N!Items : i \in Nat
          BY Numbers
        <5> QED
          BY <5>1, <5>2
      <4>2. lo \in Nat /\ hi \in Nat /\ lo <= p /\ q <= hi
        BY <1>2, <2>3, <2>6, <3>1
      <4>3. x \in X
        BY <1>2, <3>1, <4>1, <4>2
      <4>4. PICK j \in 1..b : x \in Dealing(X, j)
        BY <2>4, <4>3
      <4>5. ~(j <= k - 1) /\ ~(k < j)
        BY <2>3, <2>6, <3>1, <4>1, <4>4
      <4>6. j = k
        BY <1>2, <4>4, <4>5
      <4> QED
        BY <4>4, <4>6
    <3>5. \A x \in Dealing(X, k) : x \in Span(ours, p, q)
      BY <1>2, <3>2 DEF Span
    <3> QED
      BY <3>1, <3>3, <3>4, <3>5
  <2>11. Chain(ours, others, exact, lo, s)
    <3>1. ASSUME NEW k \in 1..b PROVE Fine(ours, others, exact, From(lo, s, k), s[k])
      <4>1. /\ From(lo, s, k) <= s[k].bound
            /\ s[k].held = Span(ours, From(lo, s, k), s[k].bound) /\ s[k].held # {}
        BY <2>4, <2>7, <2>9, <2>10
      <4> QED
        BY <4>1, FineIs
    <3> QED
      BY <2>8, <3>1 DEF Chain
  <2>12. EndOf(lo, s) = hi
    <3>1. b # 0 /\ b \in 1..b
      BY <1>2
    <3> QED
      BY <2>5, <2>7, <2>8, <3>1 DEF EndOf
  <2>13. ASSUME NEW i \in N!Items, lo <= i, i < hi PROVE i \in Asked(lo, s)
    <3> SUFFICES ASSUME i \notin Asked(lo, s) PROVE FALSE
      OBVIOUS
    <3>1. PICK Low : Low = {k \in 0..b : at[k] <= i}
      OBVIOUS
    <3>2. 0 \in Low
      BY <1>2, <2>5, <2>13, <3>1
    <3>3. i \in Nat
      BY Numbers
    <3>4. ASSUME NEW k \in 1..b, k - 1 \in Low PROVE k \in Low
      <4>1. ~(i < at[k])
        <5>1. at[k - 1] <= i
          BY <3>1, <3>4
        <5> QED
          BY <2>7, <2>8, <2>9, <5>1 DEF Asked
      <4>2. at[k] \in Nat
        BY <1>2, <2>3, <2>6
      <4> QED
        BY <2>6, <3>1, <3>3, <4>1, <4>2
    <3>5. 0..b \subseteq Low
      BY <1>2, <3>2, <3>4, UpToInduction
    <3>6. b \in 0..b
      BY <1>2
    <3>7. hi <= i
      BY <2>5, <3>1, <3>5, <3>6
    <3>8. hi \in Nat
      BY <1>2
    <3> QED
      BY <2>13, <3>3, <3>7, <3>8
  <2> QED
    BY <2>8, <2>11, <2>12, <2>13 DEF CoversAll
<1> QED
  BY <1>2, <1>3, <1>4

\* The ranges of a message follow each other.
LEMMA ChainOrder ==
  ASSUME NEW ours, NEW others, NEW exact, NEW a, NEW s, Chain(ours, others, exact, a, s)
  PROVE  /\ \A k \in 1..Len(s) : From(a, s, k) \in 1..Top /\ s[k].bound \in 1..Top
         /\ \A j, k \in 1..Len(s) : j < k => s[j].bound <= From(a, s, k)
<1>1. PICK n : n = Len(s)
  OBVIOUS
<1>2. s \in Seq(Rgs) /\ a \in 1..Top /\ n \in Nat /\ Top \in Nat
  BY <1>1, Numbers DEF Chain
<1>3. \A k \in 1..n : s[k].bound \in 1..Top
  <2>1. \A k \in 1..n : s[k] \in Rgs
    BY <1>1, <1>2
  <2> QED
    BY <2>1 DEF Rgs
<1>4. \A k \in 1..n : From(a, s, k) \in 1..Top /\ From(a, s, k) <= s[k].bound
  <2> TAKE k \in 1..n
  <2>1. k = 1 \/ k - 1 \in 1..n
    BY <1>2
  <2>2. From(a, s, k) \in 1..Top
    BY <1>2, <1>3, <2>1 DEF From
  <2> QED
    BY <1>1, <2>2 DEF Chain, Fine
<1>5. ASSUME NEW j \in 1..n, NEW k \in 1..n, j < k PROVE s[j].bound <= From(a, s, k)
  <2>1. PICK Good : Good = {m \in 0..n : m \in 1..n /\ j < m => s[j].bound <= From(a, s, m)}
    OBVIOUS
  <2>2. 0 \in Good
    BY <1>2, <2>1
  <2>3. ASSUME NEW m \in 1..n, m - 1 \in Good PROVE m \in Good
    <3>1. m \in 0..n
      BY <1>2
    <3>2. CASE ~(j < m)
      BY <2>1, <3>1, <3>2
    <3>3. CASE j < m
      <4>1. m - 1 \in 1..n /\ m # 1 /\ (j = m - 1 \/ j < m - 1)
        BY <1>2, <3>3
      <4>2. From(a, s, m) = s[m - 1].bound
        BY <4>1 DEF From
      <4>3. CASE j = m - 1
        <5>1. s[j].bound \in Nat
          BY <1>2, <1>3
        <5>2. s[j].bound <= From(a, s, m)
          BY <4>2, <4>3, <5>1
        <5> QED
          BY <2>1, <3>1, <5>2
      <4>4. CASE j < m - 1
        <5>1. s[j].bound <= From(a, s, m - 1)
          BY <2>1, <2>3, <4>1, <4>4
        <5>2. From(a, s, m - 1) <= s[m - 1].bound
          BY <1>4, <4>1
        <5>3. s[j].bound \in Nat /\ From(a, s, m - 1) \in Nat /\ s[m - 1].bound \in Nat
          BY <1>2, <1>3, <1>4, <4>1
        <5>4. s[j].bound <= From(a, s, m)
          BY <4>2, <5>1, <5>2, <5>3
        <5> QED
          BY <2>1, <3>1, <5>4
      <4> QED
        BY <4>1, <4>3, <4>4
    <3> QED
      BY <3>2, <3>3
  <2>4. 0..n \subseteq Good
    BY <1>2, <2>2, <2>3, UpToInduction
  <2>5. k \in 0..n
    BY <1>2
  <2> QED
    BY <1>5, <2>1, <2>4, <2>5
<1> QED
  BY <1>1, <1>3, <1>4, <1>5

\* An item that a message does not pass over is in no skipped range.
LEMMA ChainPlace ==
  ASSUME NEW ours, NEW others, NEW exact, NEW a, NEW s, Chain(ours, others, exact, a, s),
         NEW i \in Asked(a, s), NEW k \in 1..Len(s), From(a, s, k) <= i, i < s[k].bound
  PROVE  s[k].mode # "skip"
<1>1. PICK j \in 1..Len(s) : s[j].mode # "skip" /\ From(a, s, j) <= i /\ i < s[j].bound
  BY DEF Asked
<1>2. i \in Nat /\ Top \in Nat
  BY Numbers DEF Asked
<1>3. /\ From(a, s, k) \in Nat /\ s[k].bound \in Nat /\ From(a, s, j) \in Nat /\ s[j].bound \in Nat
      /\ j < k => s[j].bound <= From(a, s, k)
      /\ k < j => s[k].bound <= From(a, s, j)
  BY <1>2, ChainOrder
<1>4. ~(j < k) /\ ~(k < j)
  BY <1>1, <1>2, <1>3
<1>5. j = k
  BY <1>1, <1>4
<1> QED
  BY <1>1, <1>5

\* An empty message exceeds no limit.
LEMMA NothingExceeds ==
  ASSUME NEW limit \in Nat
  PROVE  ~N!Exceeds(limit, <<>>)
<1>1. N!Size(<<>>) = 0
  <2>1. DOMAIN <<>> = {} /\ SUBSET {} = {{}}
    OBVIOUS
  <2> DEFINE iter == CHOOSE f : f = [s \in {{}} |-> IF s = {} THEN 0
                       ELSE f[s \ {N!Max(s)}] + 1
                            + (IF <<>>[N!Max(s)].mode = "ids" THEN N!Cardinality(<<>>[N!Max(s)].held) ELSE 0)]
  <2>2. PICK f : f = [s \in {{}} |-> 0]
    OBVIOUS
  <2>3. f = [s \in {{}} |-> IF s = {} THEN 0
                       ELSE f[s \ {N!Max(s)}] + 1
                            + (IF <<>>[N!Max(s)].mode = "ids" THEN N!Cardinality(<<>>[N!Max(s)].held) ELSE 0)]
    BY <2>2
  <2>4. iter = [s \in {{}} |-> IF s = {} THEN 0
                       ELSE iter[s \ {N!Max(s)}] + 1
                            + (IF <<>>[N!Max(s)].mode = "ids" THEN N!Cardinality(<<>>[N!Max(s)].held) ELSE 0)]
    BY <2>3
  <2>5. N!Size(<<>>) = iter[{}]
    BY <2>1 DEF N!Size, N!FoldLeft, N!MapThenFoldSet
  <2> HIDE DEF iter
  <2>6. iter[{}] = 0
    BY <2>4
  <2> QED
    BY <2>5, <2>6
<1> QED
  BY <1>1 DEF N!Exceeds

-----------------------------------------------------------------------------
(* One turn of reconcile().                                                  *)
Accs == [prev : 1..Top, skip : BOOLEAN, stop : BOOLEAN, out : Seq(Rgs),
         have : SUBSET N!Items, need : SUBSET N!Items]
Diff(X, Y) == (X \ Y) \cup (Y \ X)

\* What the loop has done up to p for the side that has `ours`: its answer goes to
\* p, but for what it passes over, and what of `left` differs there is found or
\* asked for.
Keeps(ours, others, initiator, exact, limit, left, acc, p) ==
  /\ acc \in Accs
  /\ Chain(ours, others, exact, 1, acc.out)
  /\ ~acc.stop => /\ acc.prev = p /\ EndOf(1, acc.out) <= p /\ ~N!Exceeds(limit, acc.out)
                  /\ ~acc.skip => EndOf(1, acc.out) = p
  /\ \A i \in left \cap Diff(ours, others) :
       acc.stop \/ i < p => i \in acc.have \cup acc.need \cup Asked(1, acc.out)
  /\ acc.have \subseteq ours \ others /\ acc.need \subseteq others \ ours
  /\ ~initiator => acc.have = {} /\ acc.need = {}

\* The parts of a turn.
Agreed(ours, initiator, p, r) ==
  \/ r.mode = "skip"
  \/ r.mode = "fingerprint" /\ r.held = N!Within(ours, p, r.bound)
  \/ r.mode = "ids" /\ initiator
Reply(ours, low, p, r) ==
  IF r.mode = "ids" THEN <<[bound |-> r.bound, mode |-> "ids", held |-> N!Within(ours, p, r.bound)]>>
  ELSE N!Split(ours, p, r.bound, low)
Answered(ours, initiator, low, acc, r) ==
  IF Agreed(ours, initiator, acc.prev, r) THEN <<>>
  ELSE N!SkipTo(acc) \o Reply(ours, low, acc.prev, r)
Cut(ours, r) == [bound |-> Top, mode |-> "fingerprint", held |-> N!Within(ours, r.bound, Top)]

LEMMA TurnForm ==
  ASSUME NEW ours, NEW initiator, NEW limit, NEW low, NEW acc, NEW r, NEW t,
         t = N!Turn(ours, initiator, limit, low, acc, r),
         NEW o, o = Answered(ours, initiator, low, acc, r)
  PROVE  /\ DOMAIN t = {"prev", "skip", "stop", "out", "have", "need"}
         /\ t = [x \in DOMAIN t |-> t[x]]
         /\ t.prev = r.bound /\ t.skip = Agreed(ours, initiator, acc.prev, r)
         /\ t.stop = N!Exceeds(limit, acc.out \o o)
         /\ t.out = IF N!Exceeds(limit, acc.out \o o) THEN Append(acc.out, Cut(ours, r))
                    ELSE acc.out \o o
         /\ t.have = acc.have \cup (IF r.mode = "ids" /\ initiator
                                    THEN N!Within(ours, acc.prev, r.bound) \ r.held ELSE {})
         /\ t.need = acc.need \cup (IF r.mode = "ids" /\ initiator
                                    THEN r.held \ N!Within(ours, acc.prev, r.bound) ELSE {})
<1>1. o = IF \/ r.mode = "skip"
             \/ r.mode = "fingerprint" /\ r.held = N!Within(ours, acc.prev, r.bound)
             \/ r.mode = "ids" /\ initiator
          THEN <<>>
          ELSE N!SkipTo(acc)
               \o (IF r.mode = "ids" THEN <<N!Rng(r.bound, "ids", N!Within(ours, acc.prev, r.bound))>>
                   ELSE N!Split(ours, acc.prev, r.bound, low))
  BY DEF Answered, Agreed, Reply, N!Rng
<1>2. PICK agreed, full, put, have1, need1 :
        /\ agreed = \/ r.mode = "skip"
                    \/ r.mode = "fingerprint" /\ r.held = N!Within(ours, acc.prev, r.bound)
                    \/ r.mode = "ids" /\ initiator
        /\ full = N!Exceeds(limit, acc.out \o o)
        /\ put = IF N!Exceeds(limit, acc.out \o o)
                 THEN Append(acc.out, N!Rng(N!Infinity, "fingerprint", N!Within(ours, r.bound, N!Infinity)))
                 ELSE acc.out \o o
        /\ have1 = acc.have \cup (IF r.mode = "ids" /\ initiator
                                  THEN N!Within(ours, acc.prev, r.bound) \ r.held ELSE {})
        /\ need1 = acc.need \cup (IF r.mode = "ids" /\ initiator
                                  THEN r.held \ N!Within(ours, acc.prev, r.bound) ELSE {})
  OBVIOUS
<1>3. t = [prev |-> r.bound, skip |-> agreed, stop |-> full, out |-> put, have |-> have1, need |-> need1]
  BY <1>1, <1>2 DEF N!Turn
<1>4. agreed = Agreed(ours, initiator, acc.prev, r)
  BY <1>2 DEF Agreed
<1>5. N!Rng(N!Infinity, "fingerprint", N!Within(ours, r.bound, N!Infinity)) = Cut(ours, r)
  BY DEF N!Rng, Cut, Top
<1>6. /\ DOMAIN t = {"prev", "skip", "stop", "out", "have", "need"}
      /\ t = [x \in DOMAIN t |-> t[x]]
      /\ t.prev = r.bound /\ t.skip = agreed /\ t.stop = full /\ t.out = put
      /\ t.have = have1 /\ t.need = need1
  BY <1>3
<1> HIDE DEF Agreed, Cut
<1> QED
  BY <1>2, <1>4, <1>5, <1>6

LEMMA TurnType ==
  ASSUME NEW ours, ours \subseteq N!Items, NEW initiator \in BOOLEAN, NEW limit, NEW low,
         NEW acc \in Accs, NEW r \in Rgs, NEW t, t = N!Turn(ours, initiator, limit, low, acc, r)
  PROVE  t \in Accs /\ Answered(ours, initiator, low, acc, r) \in Seq(Rgs)
<1>1. PICK o : o = Answered(ours, initiator, low, acc, r)
  OBVIOUS
<1>2. /\ acc.prev \in 1..Top /\ acc.out \in Seq(Rgs) /\ acc.skip \in BOOLEAN
      /\ acc.have \subseteq N!Items /\ acc.need \subseteq N!Items
  BY DEF Accs
<1>3. r.bound \in 1..Top /\ r.held \subseteq N!Items
  BY DEF Rgs
<1>4. \A lo, hi : N!Within(ours, lo, hi) \subseteq N!Items
  BY DEF N!Within
<1>5. Top \in 1..Top
  BY Numbers
<1>6. Cut(ours, r) \in Rgs
  BY <1>4, <1>5 DEF Cut, Rgs
<1>7. N!SkipTo(acc) \in Seq(Rgs)
  <2>1. N!Rng(acc.prev, "skip", {}) \in Rgs
    BY <1>2 DEF N!Rng, Rgs
  <2> QED
    BY <2>1 DEF N!SkipTo
<1>8. Reply(ours, low, acc.prev, r) \in Seq(Rgs)
  <2>1. [bound |-> r.bound, mode |-> "ids", held |-> N!Within(ours, acc.prev, r.bound)] \in Rgs
    BY <1>3, <1>4 DEF Rgs
  <2>2. PICK lo, hi : lo = acc.prev /\ hi = r.bound
    OBVIOUS
  <2>3. N!Split(ours, lo, hi, low) \in Seq(Rgs)
    BY <1>2, <1>3, <2>2, SplitIs
  <2> QED
    BY <2>1, <2>2, <2>3 DEF Reply
<1>9. o \in Seq(Rgs)
  BY <1>1, <1>7, <1>8 DEF Answered
<1>10. acc.out \o o \in Seq(Rgs) /\ Append(acc.out, Cut(ours, r)) \in Seq(Rgs)
  BY <1>2, <1>6, <1>9
<1>11. /\ Agreed(ours, initiator, acc.prev, r) \in BOOLEAN
       /\ N!Exceeds(limit, acc.out \o o) \in BOOLEAN
  BY DEF Agreed, N!Exceeds
<1>12. /\ DOMAIN t = {"prev", "skip", "stop", "out", "have", "need"}
       /\ t = [x \in DOMAIN t |-> t[x]]
       /\ t.prev = r.bound /\ t.skip = Agreed(ours, initiator, acc.prev, r)
       /\ t.stop = N!Exceeds(limit, acc.out \o o)
       /\ t.out = IF N!Exceeds(limit, acc.out \o o) THEN Append(acc.out, Cut(ours, r))
                  ELSE acc.out \o o
       /\ t.have = acc.have \cup (IF r.mode = "ids" /\ initiator
                                  THEN N!Within(ours, acc.prev, r.bound) \ r.held ELSE {})
       /\ t.need = acc.need \cup (IF r.mode = "ids" /\ initiator
                                  THEN r.held \ N!Within(ours, acc.prev, r.bound) ELSE {})
  BY <1>1, TurnForm
<1>13. t.prev \in 1..Top /\ t.skip \in BOOLEAN /\ t.stop \in BOOLEAN
  BY <1>3, <1>11, <1>12
<1>14. t.out \in Seq(Rgs)
  BY <1>10, <1>12
<1>15. t.have \subseteq N!Items /\ t.need \subseteq N!Items
  BY <1>2, <1>3, <1>4, <1>12
<1>16. t = [prev |-> t.prev, skip |-> t.skip, stop |-> t.stop, out |-> t.out,
            have |-> t.have, need |-> t.need]
  BY <1>12
<1>17. t \in Accs
  BY <1>13, <1>14, <1>15, <1>16 DEF Accs
<1> QED
  BY <1>1, <1>9, <1>17

\* What a side answers to a range on which it does not agree.
LEMMA ReplyIs ==
  ASSUME NEW ours, ours \subseteq N!Items, NEW low, NEW p \in 1..Top, NEW r \in Rgs, p <= r.bound,
         NEW w, w = Reply(ours, low, p, r), NEW others, NEW exact
  PROVE  CoversAll(ours, others, exact, p, r.bound, w)
<1>1. PICK q : q = r.bound /\ q \in 1..Top
  BY DEF Rgs
<1>2. CASE r.mode = "ids"
  <2>1. PICK v : v = [bound |-> q, mode |-> "ids", held |-> N!Within(ours, p, q)]
    OBVIOUS
  <2>2. w = <<v>>
    BY <1>1, <1>2, <2>1 DEF Reply
  <2>3. v \in Rgs /\ v.bound = q /\ v.mode = "ids" /\ v.held = Span(ours, p, q)
    <3>1. N!Within(ours, p, q) = Span(ours, p, q) /\ Span(ours, p, q) \subseteq N!Items
      BY SpanIs DEF Span
    <3> QED
      BY <1>1, <2>1, <3>1 DEF Rgs
  <2>4. Fine(ours, others, exact, p, v)
    BY <1>1, <2>3, FineIs
  <2>5. Chain(ours, others, exact, p, w) /\ EndOf(p, w) = q
        /\ \A i \in N!Items : p <= i /\ i < q => i \in Asked(p, w)
    BY <2>2, <2>3, <2>4, ChainOne
  <2> QED
    BY <1>1, <2>5 DEF CoversAll
<1>3. CASE r.mode # "ids"
  <2>1. PICK s : s = N!Split(ours, p, q, low)
    OBVIOUS
  <2>2. CoversAll(ours, others, exact, p, q, s)
    BY <1>1, <2>1, SplitIs
  <2>3. w = s
    BY <1>1, <1>3, <2>1 DEF Reply
  <2> QED
    BY <1>1, <2>2, <2>3
<1> QED
  BY <1>2, <1>3

\* The range that stands for what was passed over.
LEMMA SkipIs ==
  ASSUME NEW ours, NEW others, NEW exact, NEW acc \in Accs, NEW e \in 1..Top, NEW p, p = acc.prev, e <= p,
         ~acc.skip => e = p, NEW v, v = N!SkipTo(acc)
  PROVE  Chain(ours, others, exact, e, v) /\ EndOf(e, v) = p
<1>1. p \in 1..Top
  BY DEF Accs
<1>2. CASE acc.skip
  <2>1. PICK r : r = [bound |-> p, mode |-> "skip", held |-> {}]
    OBVIOUS
  <2>2. v = <<r>> /\ r \in Rgs /\ r.bound = p
    BY <1>1, <1>2, <2>1 DEF N!SkipTo, N!Rng, Rgs
  <2>3. Fine(ours, others, exact, e, r)
    BY <2>1 DEF Fine
  <2> QED
    BY <2>2, <2>3, ChainOne
<1>3. CASE ~acc.skip
  <2>1. v = <<>> /\ e = p
    BY <1>3 DEF N!SkipTo
  <2> QED
    BY <2>1, ChainNone
<1> QED
  BY <1>2, <1>3

\* A turn goes on from p to the bound of its range.  A frame that is cut short
\* ends in a fingerprint that the other side cannot match: it has, before the
\* bound, what its own fingerprint told of.
LEMMA TurnKeeps ==
  ASSUME NEW ours, ours \subseteq N!Items, NEW others, others \subseteq N!Items,
         NEW initiator \in BOOLEAN, NEW limit \in Nat, NEW low, NEW exact, NEW exactIn,
         exact => limit = 0, limit # 0 => initiator /\ exactIn,
         NEW left, NEW acc, NEW p, Keeps(ours, others, initiator, exact, limit, left, acc, p), ~acc.stop,
         NEW r \in Rgs, Fine(others, ours, exactIn, p, r),
         \A i \in left : p <= i /\ i < r.bound => r.mode # "skip",
         NEW t, t = N!Turn(ours, initiator, limit, low, acc, r)
  PROVE  Keeps(ours, others, initiator, exact, limit, left, t, r.bound)
<1>1. /\ acc \in Accs /\ acc.out \in Seq(Rgs) /\ p = acc.prev
      /\ Chain(ours, others, exact, 1, acc.out) /\ EndOf(1, acc.out) <= p
      /\ ~N!Exceeds(limit, acc.out) /\ (~acc.skip => EndOf(1, acc.out) = p)
      /\ \A i \in left \cap Diff(ours, others) :
           i < p => i \in acc.have \cup acc.need \cup Asked(1, acc.out)
      /\ acc.have \subseteq ours \ others /\ acc.need \subseteq others \ ours
      /\ (~initiator => acc.have = {} /\ acc.need = {})
  BY DEF Keeps, Chain
<1>2. PICK q, e, o, u, agreed : /\ q = r.bound /\ e = EndOf(1, acc.out)
                     /\ o = Answered(ours, initiator, low, acc, r) /\ u = acc.out \o o
                     /\ agreed = Agreed(ours, initiator, p, r)
  OBVIOUS
<1>3. /\ p \in 1..Top /\ q \in 1..Top /\ e \in 1..Top /\ Top \in Nat /\ p <= q /\ e <= p
      /\ \A i \in N!Items : i \in Nat /\ i < Top
  <2>1. p \in 1..Top /\ q \in 1..Top
    BY <1>1, <1>2 DEF Accs, Rgs
  <2>2. e \in 1..Top
    BY <1>1, <1>2, ChainEnds
  <2>3. p <= q
    BY <1>2 DEF Fine
  <2>4. \A i \in N!Items : i \in Nat /\ i < Top
    BY Numbers
  <2> QED
    BY <1>1, <1>2, <2>1, <2>2, <2>3, <2>4, Numbers
<1>4. /\ t \in Accs /\ o \in Seq(Rgs)
  BY <1>1, <1>2, TurnType
<1>5. /\ t.prev = q /\ t.skip = Agreed(ours, initiator, p, r) /\ t.stop = N!Exceeds(limit, u)
      /\ t.out = IF N!Exceeds(limit, u) THEN Append(acc.out, Cut(ours, r)) ELSE u
      /\ t.have = acc.have \cup (IF r.mode = "ids" /\ initiator
                                 THEN N!Within(ours, p, q) \ r.held ELSE {})
      /\ t.need = acc.need \cup (IF r.mode = "ids" /\ initiator
                                 THEN r.held \ N!Within(ours, p, q) ELSE {})
  <2> HIDE DEF Agreed, Answered, Cut
  <2> QED
    BY <1>1, <1>2, TurnForm
<1>6. CASE Agreed(ours, initiator, p, r)
  <2>1. o = <<>>
    BY <1>1, <1>2, <1>6 DEF Answered
  <2>2. u = acc.out
    BY <1>1, <1>2, <2>1
  <2>3. ~t.stop /\ t.out = acc.out /\ t.skip
    BY <1>1, <1>5, <1>6, <2>2
  <2>4. t.have \subseteq ours \ others /\ t.need \subseteq others \ ours
    <3>1. r.mode = "ids" => r.held = Span(others, p, q)
      BY <1>2 DEF Fine
    <3>2. CASE r.mode = "ids" /\ initiator
      <4>1. t.have = acc.have \cup (Span(ours, p, q) \ Span(others, p, q))
            /\ t.need = acc.need \cup (Span(others, p, q) \ Span(ours, p, q))
        BY <1>5, <3>1, <3>2, SpanIs
      <4> QED
        BY <1>1, <4>1 DEF Span
    <3>3. CASE ~(r.mode = "ids" /\ initiator)
      BY <1>1, <1>5, <3>3
    <3> QED
      BY <3>2, <3>3
  <2>5. ASSUME NEW i \in left \cap Diff(ours, others), i < q
        PROVE  i \in t.have \cup t.need \cup Asked(1, t.out)
    <3>1. i \in N!Items /\ i \in Nat
      BY <1>3 DEF Diff
    <3>2. CASE i < p
      BY <1>1, <1>5, <2>3, <3>2
    <3>3. CASE ~(i < p)
      <4>1. p <= i /\ i < q
        BY <1>3, <2>5, <3>1, <3>3
      <4>2. r.mode # "skip"
        BY <1>2, <4>1
      <4>3. (i \in Span(ours, p, q) <=> i \in ours) /\ (i \in Span(others, p, q) <=> i \in others)
        BY <4>1 DEF Span
      <4>4. CASE r.mode = "fingerprint" /\ r.held = N!Within(ours, p, q)
        <5>1. r.held = Span(ours, p, q)
          BY <4>4, SpanIs
        <5>2. Span(ours, p, q) = Span(others, p, q)
          BY <1>2, <4>4, <5>1 DEF Fine
        <5> QED
          BY <4>3, <5>2 DEF Diff
      <4>5. CASE r.mode = "ids" /\ initiator
        <5>1. r.held = Span(others, p, q)
          BY <1>2, <4>5 DEF Fine
        <5>2. t.have = acc.have \cup (Span(ours, p, q) \ Span(others, p, q))
              /\ t.need = acc.need \cup (Span(others, p, q) \ Span(ours, p, q))
          BY <1>5, <4>5, <5>1, SpanIs
        <5> QED
          BY <4>3, <5>2 DEF Diff
      <4> QED
        BY <1>2, <1>6, <4>2, <4>4, <4>5 DEF Agreed
    <3> QED
      BY <3>2, <3>3
  <2>6. EndOf(1, acc.out) <= q /\ t.prev = q /\ (~initiator => t.have = {} /\ t.need = {})
    BY <1>1, <1>2, <1>3, <1>5
  <2> QED
    BY <1>1, <1>2, <1>4, <2>3, <2>4, <2>5, <2>6 DEF Keeps
<1>7. CASE ~Agreed(ours, initiator, p, r)
  <2>1. PICK v, w : v = N!SkipTo(acc) /\ w = Reply(ours, low, p, r)
    OBVIOUS
  <2>2. o = v \o w
    BY <1>1, <1>2, <1>7, <2>1 DEF Answered
  <2>3. Chain(ours, others, exact, e, v) /\ EndOf(e, v) = p
    BY <1>1, <1>2, <1>3, <2>1, SkipIs
  <2>4. /\ Chain(ours, others, exact, p, w) /\ EndOf(p, w) = q
        /\ \A i \in N!Items : p <= i /\ i < q => i \in Asked(p, w)
    <3>1. CoversAll(ours, others, exact, p, r.bound, w)
      BY <1>2, <1>3, <2>1, ReplyIs
    <3> QED
      BY <1>2, <3>1 DEF CoversAll
  <2>5. /\ Chain(ours, others, exact, e, o) /\ EndOf(e, o) = q
        /\ \A i \in N!Items : p <= i /\ i < q => i \in Asked(e, o)
    <3>1. p = EndOf(e, v) /\ Chain(ours, others, exact, e, v) /\ Chain(ours, others, exact, p, w)
      BY <2>3, <2>4
    <3>2. Joint(ours, others, exact, e, v, p, w, o)
      BY <2>2, <3>1, ChainJoin
    <3> QED
      BY <2>4, <3>2 DEF Joint
  <2>6. /\ Chain(ours, others, exact, 1, u) /\ EndOf(1, u) = q
        /\ \A i \in N!Items : p <= i /\ i < q => i \in Asked(1, u)
        /\ \A i : i \in Asked(1, acc.out) => i \in Asked(1, u)
    <3>1. PICK s : s = acc.out
      OBVIOUS
    <3>2. Joint(ours, others, exact, 1, s, e, o, u)
      BY <1>1, <1>2, <2>5, <3>1, ChainJoin
    <3> QED
      BY <2>5, <3>1, <3>2 DEF Joint
  <2>7. t.have = acc.have /\ t.need = acc.need /\ ~(r.mode = "ids" /\ initiator)
    <3>1. ~(r.mode = "ids" /\ initiator)
      BY <1>7 DEF Agreed
    <3> QED
      BY <1>5, <3>1
  <2>8. CASE ~N!Exceeds(limit, u)
    <3>1. t.out = u /\ ~t.stop
      BY <1>5, <2>8
    <3>2. ASSUME NEW i \in left \cap Diff(ours, others), i < q
          PROVE  i \in t.have \cup t.need \cup Asked(1, t.out)
      <4>1. i \in N!Items /\ i \in Nat
        BY <1>3 DEF Diff
      <4>2. i < p \/ p <= i
        BY <1>3, <4>1
      <4> QED
        BY <1>1, <2>6, <2>7, <3>1, <3>2, <4>1, <4>2
    <3>3. EndOf(1, t.out) <= q /\ EndOf(1, t.out) = q
      BY <1>3, <2>6, <3>1
    <3> QED
      BY <1>1, <1>2, <1>4, <1>5, <2>6, <2>7, <2>8, <3>1, <3>2, <3>3 DEF Keeps
  <2>9. CASE N!Exceeds(limit, u)
    <3>1. initiator /\ exactIn /\ ~exact
      BY <2>9 DEF N!Exceeds
    <3>2. r.mode = "fingerprint"
      BY <1>7, <3>1 DEF Agreed, Rgs
    <3>3. PICK x : x \in r.held /\ r.held = Span(others, p, q)
      BY <1>2, <3>1, <3>2 DEF Fine
    <3>4. x \in others /\ p <= x /\ x < q /\ x \in Nat /\ x < Top
      BY <1>3, <3>3 DEF Span
    <3>5. PICK c : c = Cut(ours, r)
      OBVIOUS
    <3>6. /\ c \in Rgs /\ c.bound = Top /\ c.mode = "fingerprint" /\ c.held = Span(ours, q, Top)
      <4>1. N!Within(ours, q, Top) = Span(ours, q, Top) /\ Span(ours, q, Top) \subseteq N!Items
        BY SpanIs DEF Span
      <4>2. c = [bound |-> Top, mode |-> "fingerprint", held |-> Span(ours, q, Top)]
        BY <1>2, <3>5, <4>1 DEF Cut
      <4>3. Top \in 1..Top
        BY Numbers
      <4> QED
        BY <4>1, <4>2, <4>3 DEF Rgs
    <3>7. x \in Span(others, e, Top) /\ x \notin Span(ours, q, Top)
      BY <1>3, <3>4 DEF Span
    <3>8. Fine(ours, others, exact, e, c)
      <4>1. e <= Top
        BY <1>3
      <4> QED
        BY <3>1, <3>6, <3>7, <4>1 DEF Fine
    <3>9. PICK v1 : v1 = <<c>>
      OBVIOUS
    <3>10. /\ Chain(ours, others, exact, e, v1)
           /\ \A i \in N!Items : e <= i /\ i < Top => i \in Asked(e, v1)
      BY <1>3, <3>6, <3>8, <3>9, ChainOne
    <3>11. t.out = acc.out \o v1 /\ t.stop
      BY <1>1, <1>5, <2>9, <3>5, <3>6, <3>9
    <3>12. Chain(ours, others, exact, 1, t.out)
           /\ \A i : i \in Asked(1, t.out) <=> i \in Asked(1, acc.out) \/ i \in Asked(e, v1)
      <4>1. PICK s, u1 : s = acc.out /\ u1 = t.out
        OBVIOUS
      <4>2. Joint(ours, others, exact, 1, s, e, v1, u1)
        BY <1>1, <1>2, <3>10, <3>11, <4>1, ChainJoin
      <4> QED
        BY <4>1, <4>2 DEF Joint
    <3>13. ASSUME NEW i \in left \cap Diff(ours, others)
           PROVE  i \in t.have \cup t.need \cup Asked(1, t.out)
      <4>1. i \in N!Items /\ i \in Nat /\ i < Top
        BY <1>3 DEF Diff
      <4>2. i < p \/ e <= i
        BY <1>3, <4>1
      <4> QED
        BY <1>1, <2>7, <3>10, <3>12, <4>1, <4>2
    <3> QED
      BY <1>1, <1>4, <2>7, <3>11, <3>12, <3>13 DEF Keeps
  <2> QED
    BY <2>8, <2>9
<1> QED
  BY <1>6, <1>7

-----------------------------------------------------------------------------
(* reconcile() as a whole.                                                   *)
NoTurn == [prev |-> 1, skip |-> FALSE, stop |-> FALSE, out |-> <<>>, have |-> {}, need |-> {}]

\* run is the accumulator before the first turn and after each.
Reconciled(run, ours, initiator, limit, low, s) ==
  /\ run[0] = NoTurn
  /\ \A k \in 1..Len(s) :
       run[k] = IF run[k - 1].stop THEN run[k - 1]
                ELSE N!Turn(ours, initiator, limit, low, run[k - 1], s[k])
  /\ N!Reconcile(ours, initiator, limit, low, s) = run[Len(s)]

LEMMA ReconcileRuns ==
  ASSUME NEW ours, ours \subseteq N!Items, NEW initiator \in BOOLEAN, NEW limit, NEW low,
         NEW s \in Seq(Rgs)
  PROVE  \E run : Reconciled(run, ours, initiator, limit, low, s)
<1> DEFINE n == Len(s)
           D == 1..n
           turn(acc, r) == IF acc.stop THEN acc ELSE N!Turn(ours, initiator, limit, low, acc, r)
           step == [p \in Accs \X D |-> turn(p[1], s[p[2]])]
           pick == [w \in SUBSET D |-> Max(w)]
           iter == CHOOSE f : f = [w \in SUBSET D |-> IF w = {} THEN NoTurn
                                                      ELSE turn(f[w \ {Max(w)}], s[Max(w)])]
           run == [k \in 0..n |-> iter[1..k]]
<1>1. n \in Nat /\ IsFiniteSet(D) /\ DOMAIN s = D /\ \A k \in D : s[k] \in Rgs
  BY FS_Interval
<1>2. \A w \in SUBSET D : w # {} => pick[w] \in w /\ Max(w) \in w
  BY <1>1, MaxOfPrefix
<1>3. step \in [Accs \X D -> Accs]
  <2>1. ASSUME NEW acc \in Accs, NEW k \in D PROVE turn(acc, s[k]) \in Accs
    <3>1. PICK r : r = s[k] /\ r \in Rgs
      BY <1>1
    <3>2. N!Turn(ours, initiator, limit, low, acc, r) \in Accs
      BY <3>1, TurnType
    <3> QED
      BY <3>1, <3>2
  <2> HIDE DEF D, turn
  <2> QED
    BY <2>1
<1>4. PICK f \in [SUBSET D -> Accs] : Folds(f, D, NoTurn, step, pick)
  <2>1. NoTurn \in Accs
    <3>1. 1 \in 1..Top
      BY Numbers
    <3> QED
      BY <3>1 DEF NoTurn, Accs
  <2> HIDE DEF D, step, pick
  <2> QED
    BY <1>1, <1>2, <1>3, <2>1, FoldExists
<1>5. f = [w \in SUBSET D |-> IF w = {} THEN NoTurn ELSE turn(f[w \ {Max(w)}], s[Max(w)])]
  <2>1. ASSUME NEW w \in SUBSET D, w # {} PROVE f[w] = turn(f[w \ {Max(w)}], s[Max(w)])
    <3>1. w \ {Max(w)} \in SUBSET D /\ Max(w) \in D /\ pick[w] = Max(w)
      BY <1>2, <2>1
    <3>2. f[w \ {Max(w)}] \in Accs
      BY <1>4, <3>1
    <3>3. f[w] = step[<<f[w \ {Max(w)}], Max(w)>>]
      BY <1>4, <2>1, <3>1 DEF Folds
    <3> HIDE DEF D, turn
    <3> QED
      BY <3>1, <3>2, <3>3
  <2>2. f[{}] = NoTurn
    BY <1>4 DEF Folds
  <2>3. f = [w \in SUBSET D |-> f[w]]
    BY <1>4
  <2> HIDE DEF D, turn
  <2> QED
    BY <2>1, <2>2, <2>3
<1>6. iter = [w \in SUBSET D |-> IF w = {} THEN NoTurn ELSE turn(iter[w \ {Max(w)}], s[Max(w)])]
  <2> HIDE DEF D, turn
  <2> QED
    BY <1>5
<1>7. N!Reconcile(ours, initiator, limit, low, s) = iter[D]
  BY <1>1 DEF N!Reconcile, N!FoldLeft, N!MapThenFoldSet, N!Max, Max, NoTurn
<1> HIDE DEF iter
<1>9. run[0] = NoTurn
  <2>1. 1..0 = {} /\ iter[{}] = NoTurn
    BY <1>6
  <2> QED
    BY <1>1, <2>1
<1>10. ASSUME NEW k \in 1..n PROVE run[k] = turn(run[k - 1], s[k])
  <2>1. 1..k \in SUBSET D /\ 1..k # {} /\ k - 1 \in 0..n /\ k \in 0..n
    BY <1>1
  <2>2. Max(1..k) = k /\ (1..k) \ {k} = 1..(k - 1)
    BY <1>1, MaxOfPrefix
  <2>3. iter[1..k] = turn(iter[(1..k) \ {Max(1..k)}], s[Max(1..k)])
    <3> HIDE DEF turn
    <3> QED
      BY <1>6, <2>1
  <2>4. iter[1..k] = turn(iter[1..(k - 1)], s[k])
    BY <2>2, <2>3
  <2> HIDE DEF turn
  <2> QED
    BY <2>1, <2>4
<1>11. run[n] = iter[D]
  BY <1>1
<1> HIDE DEF run
<1>12. Reconciled(run, ours, initiator, limit, low, s)
  BY <1>7, <1>9, <1>10, <1>11 DEF Reconciled
<1> QED
  BY <1>12

\* What a side that has `ours` makes of a message of the other, which has `others`
\* and passes over nothing of `left`: an answer that passes over nothing of it
\* that differs and is not found.
Outcome(ours, others, initiator, exact, left, res) ==
  /\ Chain(ours, others, exact, 1, res.out)
  /\ left \cap Diff(ours, others) \subseteq res.have \cup res.need \cup Asked(1, res.out)
  /\ res.have \subseteq ours \ others /\ res.need \subseteq others \ ours
  /\ ~initiator => res.have = {} /\ res.need = {}

LEMMA ReconcileIs ==
  ASSUME NEW ours, ours \subseteq N!Items, NEW others, others \subseteq N!Items,
         NEW initiator \in BOOLEAN, NEW limit \in Nat, NEW low, NEW exact, NEW exactIn,
         exact => limit = 0, limit # 0 => initiator /\ exactIn,
         NEW s, Chain(others, ours, exactIn, 1, s),
         NEW left, left \subseteq Asked(1, s),
         NEW res, res = N!Reconcile(ours, initiator, limit, low, s)
  PROVE  Outcome(ours, others, initiator, exact, left, res)
<1>1. PICK n : n = Len(s)
  OBVIOUS
<1>2. s \in Seq(Rgs) /\ n \in Nat /\ \A k \in 1..n : s[k] \in Rgs
  BY <1>1 DEF Chain
<1>3. PICK run : Reconciled(run, ours, initiator, limit, low, s)
  BY <1>2, ReconcileRuns
<1>4. /\ run[0] = NoTurn
      /\ \A k \in 1..n : run[k] = IF run[k - 1].stop THEN run[k - 1]
                                  ELSE N!Turn(ours, initiator, limit, low, run[k - 1], s[k])
      /\ res = run[n]
  BY <1>1, <1>3 DEF Reconciled
<1>5. PICK Place : Place = [k \in 0..n |-> IF k = 0 THEN 1 ELSE s[k].bound]
  OBVIOUS
<1>6. PICK Good : Good = {k \in 0..n : Keeps(ours, others, initiator, exact, limit, left, run[k], Place[k])}
  OBVIOUS
<1>7. 0 \in Good
  <2>1. 0 \in 0..n /\ Place[0] = 1 /\ 1 \in 1..Top /\ Top \in Nat
    BY <1>2, <1>5, Numbers
  <2>2. PICK none : none = <<>>
    OBVIOUS
  <2>3. Chain(ours, others, exact, 1, none) /\ EndOf(1, none) = 1
    BY <2>1, <2>2, ChainNone
  <2>4. ~N!Exceeds(limit, <<>>)
    BY NothingExceeds
  <2>5. NoTurn \in Accs
    BY <2>1 DEF NoTurn, Accs
  <2>6. /\ NoTurn.out = none /\ ~NoTurn.stop /\ ~NoTurn.skip /\ NoTurn.prev = 1
        /\ NoTurn.have = {} /\ NoTurn.need = {}
    BY <2>2 DEF NoTurn
  <2>7. \A i \in left \cap Diff(ours, others) : ~(i < 1)
    <3>1. \A i \in N!Items : ~(i < 1)
      BY Numbers
    <3> QED
      BY <3>1 DEF Diff
  <2>8. Keeps(ours, others, initiator, exact, limit, left, NoTurn, 1)
    BY <2>2, <2>3, <2>4, <2>5, <2>6, <2>7 DEF Keeps
  <2> QED
    BY <1>4, <1>6, <2>1, <2>8
<1>8. ASSUME NEW k \in 1..n, k - 1 \in Good PROVE k \in Good
  <2>1. PICK acc, p, r : acc = run[k - 1] /\ p = Place[k - 1] /\ r = s[k]
    OBVIOUS
  <2>2. Keeps(ours, others, initiator, exact, limit, left, acc, p)
    BY <1>6, <1>8, <2>1
  <2>3. k \in 0..n /\ k # 0 /\ k - 1 \in 0..n /\ Place[k] = r.bound /\ r \in Rgs
    BY <1>2, <1>5, <2>1
  <2>4. p = From(1, s, k)
    BY <1>5, <2>1, <2>3 DEF From
  <2>5. CASE acc.stop
    <3>1. run[k] = acc
      BY <1>4, <2>1, <2>5
    <3>2. Keeps(ours, others, initiator, exact, limit, left, acc, r.bound)
      BY <2>2, <2>5 DEF Keeps
    <3> QED
      BY <1>6, <2>3, <3>1, <3>2
  <2>6. CASE ~acc.stop
    <3>1. PICK t : t = N!Turn(ours, initiator, limit, low, acc, r)
      OBVIOUS
    <3>2. run[k] = t
      BY <1>4, <2>1, <2>6, <3>1
    <3>3. Fine(others, ours, exactIn, p, r)
      BY <1>1, <2>1, <2>4 DEF Chain
    <3>4. \A i \in left : p <= i /\ i < r.bound => r.mode # "skip"
      BY <1>1, <2>1, <2>4, ChainPlace
    <3>5. Keeps(ours, others, initiator, exact, limit, left, t, r.bound)
      BY <2>2, <2>3, <2>6, <3>1, <3>3, <3>4, TurnKeeps
    <3> QED
      BY <1>6, <2>3, <3>2, <3>5
  <2> QED
    BY <2>5, <2>6
<1>9. n \in Good
  <2>1. 0..n \subseteq Good
    BY <1>2, <1>7, <1>8, UpToInduction
  <2> QED
    BY <1>2, <2>1
<1>10. Keeps(ours, others, initiator, exact, limit, left, res, Place[n])
  BY <1>4, <1>6, <1>9
<1>11. ASSUME NEW i \in left \cap Diff(ours, others)
       PROVE  i \in res.have \cup res.need \cup Asked(1, res.out)
  <2>1. CASE res.stop \/ i < Place[n]
    BY <1>10, <2>1 DEF Keeps
  <2>2. CASE ~(i < Place[n])
    <3>1. PICK j \in 1..n : i < s[j].bound
      BY <1>1 DEF Asked
    <3>2. /\ i \in Nat /\ s[j].bound \in Nat /\ n \in 1..n /\ n # 0
          /\ s[n].bound \in Nat /\ (j = n \/ j < n)
      <4>1. i \in Nat
        <5>1. i \in N!Items
          BY DEF Diff
        <5> QED
          BY <5>1, Numbers
      <4>2. n \in 1..n /\ n # 0 /\ (j = n \/ j < n)
        BY <1>2
      <4>3. s[j].bound \in 1..Top /\ s[n].bound \in 1..Top /\ Top \in Nat
        BY <1>1, <4>2, ChainOrder, Numbers
      <4> QED
        BY <4>1, <4>2, <4>3
    <3>3. s[j].bound <= s[n].bound
      <4>1. j < n => s[j].bound <= From(1, s, n) /\ From(1, s, n) \in Nat /\ From(1, s, n) <= s[n].bound
        <5>1. From(1, s, n) <= s[n].bound
          BY <1>1, <3>2 DEF Chain, Fine
        <5>2. From(1, s, n) \in 1..Top /\ (j < n => s[j].bound <= From(1, s, n))
          BY <1>1, <3>2, ChainOrder
        <5> QED
          BY <5>1, <5>2, Numbers
      <4> QED
        BY <3>2, <4>1
    <3>4. Place[n] = s[n].bound
      BY <1>2, <1>5, <3>2
    <3> QED
      BY <2>2, <3>1, <3>2, <3>3, <3>4
  <2> QED
    BY <2>1, <2>2
<1> QED
  BY <1>10, <1>11 DEF Keeps, Outcome

-----------------------------------------------------------------------------
(* The session and the exchange.                                             *)
Converged == {"query", "upload", "download", "done"}

\* What the session has still to find.
Left == Diff(mine, theirs) \ (have \cup need)

SyncTypes ==
  /\ local \subseteq N!Items /\ remote \subseteq N!Items /\ mine \subseteq N!Items
  /\ theirs \subseteq remote /\ todo \in Seq(N!Items)
  /\ have \subseteq mine \ theirs /\ need \subseteq theirs \ mine

\* Nothing is found before the session, and everything after it.
SyncStages ==
  /\ stage = "begin" => wire = N!Quiet /\ theirs = {} /\ have = {} /\ need = {}
  /\ stage \in Converged => wire = N!Quiet /\ Left = {}

\* The message under way passes over nothing that is left to find.
OnWire ==
  /\ wire.to = "open" => /\ theirs = {} /\ have = {} /\ need = {}
                         /\ Chain(mine, remote, FALSE, 1, wire.ranges)
                         /\ N!Items \subseteq Asked(1, wire.ranges)
  /\ wire.to = "relay" => /\ Chain(mine, theirs, FALSE, 1, wire.ranges)
                          /\ Left \subseteq Asked(1, wire.ranges)
  /\ wire.to = "client" => /\ Chain(theirs, mine, TRUE, 1, wire.ranges)
                           /\ Left \subseteq Asked(1, wire.ranges)

\* What was found is moved, still to be moved, or reported.
Moved ==
  /\ stage = "upload" /\ N!Uploads => have \subseteq remote \cup failed \cup ToSet(todo)
  /\ stage \in {"download", "done"} /\ N!Uploads => have \subseteq remote \cup failed
  /\ stage = "download" => ToSet(todo) \subseteq need
  /\ stage = "done" => todo = <<>>
  /\ stage \in {"download", "done"} /\ N!Downloads /\ failed \cap theirs = {} =>
       need \subseteq local \cup Refused \cup missed \cup ToSet(todo)

SyncInv == SyncTypes /\ SyncStages /\ OnWire /\ Moved

LEMMA SyncInit == N!Init => SyncInv
<1>1. ASSUME N!Init PROVE SyncInv
  <2>1. /\ local \subseteq N!Items /\ remote \subseteq N!Items /\ mine = {} /\ theirs = {}
        /\ stage = "begin" /\ wire = N!Quiet /\ have = {} /\ need = {} /\ todo = <<>>
    BY <1>1 DEF N!Init
  <2>2. wire.to = "nobody"
    BY <2>1 DEF N!Quiet
  <2>3. todo \in Seq(N!Items)
    BY <2>1
  <2> QED
    BY <2>1, <2>2, <2>3 DEF SyncInv, SyncTypes, SyncStages, OnWire, Moved, Converged
<1> QED
  BY <1>1

\* NEG-OPEN asks for everything.
LEMMA OpenAsks ==
  ASSUME NEW ours, ours \subseteq N!Items, NEW others, NEW low, NEW s, s = N!Initiate(ours, low)
  PROVE  Chain(ours, others, FALSE, 1, s) /\ N!Items \subseteq Asked(1, s)
<1>1. PICK a, b, exact : a = 1 /\ b = Top /\ exact = FALSE
  OBVIOUS
<1>2. /\ a \in 1..Top /\ b \in 1..Top /\ a <= b /\ \A i \in N!Items : a <= i /\ i < b
  BY <1>1, Numbers
<1>3. s = N!Split(ours, a, b, low)
  BY <1>1 DEF N!Initiate, Top
<1>4. CoversAll(ours, others, exact, a, b, s)
  BY <1>2, <1>3, SplitIs
<1> QED
  BY <1>1, <1>2, <1>4 DEF CoversAll

\* The relay answers without a limit, and what it answers is exact.
LEMMA RelaySays ==
  ASSUME RelayLimit = 0,
         NEW ours, ours \subseteq N!Items, NEW others, others \subseteq N!Items, NEW low,
         NEW s, Chain(others, ours, FALSE, 1, s),
         NEW left, left \subseteq Asked(1, s), left \subseteq Diff(others, ours),
         NEW u, u = N!Reconcile(ours, FALSE, RelayLimit, low, s).out
  PROVE  Chain(ours, others, TRUE, 1, u) /\ left \subseteq Asked(1, u)
<1>1. PICK res, initiator, limit, exact, exactIn :
        /\ res = N!Reconcile(ours, FALSE, RelayLimit, low, s) /\ limit = RelayLimit
        /\ initiator = FALSE /\ exact = TRUE /\ exactIn = FALSE
  OBVIOUS
<1>2. /\ limit \in Nat /\ limit = 0 /\ initiator \in BOOLEAN /\ u = res.out /\ ~initiator
      /\ res = N!Reconcile(ours, initiator, limit, low, s)
      /\ Chain(others, ours, exactIn, 1, s)
  BY <1>1
<1>3. Outcome(ours, others, initiator, exact, left, res)
  BY <1>2, ReconcileIs
<1>4. left \cap Diff(ours, others) = left
  BY DEF Diff
<1> QED
  BY <1>1, <1>2, <1>3, <1>4 DEF Outcome

\* The client finds, or asks further for, all that is left.
Found(ours, others, left, res) ==
  /\ Chain(ours, others, FALSE, 1, res.out)
  /\ left \subseteq res.have \cup res.need \cup Asked(1, res.out)
  /\ res.have \subseteq ours \ others /\ res.need \subseteq others \ ours

LEMMA ClientSays ==
  ASSUME NEW ours, ours \subseteq N!Items, NEW others, others \subseteq N!Items, NEW low,
         NEW s, Chain(others, ours, TRUE, 1, s),
         NEW left, left \subseteq Asked(1, s), left \subseteq Diff(ours, others),
         NEW res, res = N!Reconcile(ours, TRUE, ClientLimit, low, s)
  PROVE  Found(ours, others, left, res)
<1>1. PICK initiator, limit, exact, exactIn :
        limit = ClientLimit /\ initiator = TRUE /\ exact = FALSE /\ exactIn = TRUE
  OBVIOUS
<1>2. /\ limit \in Nat /\ initiator \in BOOLEAN /\ initiator /\ exactIn /\ ~exact
      /\ res = N!Reconcile(ours, initiator, limit, low, s)
      /\ Chain(others, ours, exactIn, 1, s)
  BY <1>1, SyncAssumption
<1>3. Outcome(ours, others, initiator, exact, left, res)
  BY <1>2, ReconcileIs
<1>4. left \cap Diff(ours, others) = left
  OBVIOUS
<1> QED
  BY <1>1, <1>3, <1>4 DEF Outcome, Found

\* The messages.
LEMMA BeginKeeps == ASSUME SyncInv, N!Begin PROVE SyncInv'
<1>1. PICK low \in BOOLEAN : wire' = [to |-> "open", ranges |-> N!Initiate(local, low)]
  BY DEF N!Begin
<1>2. /\ stage = "begin" /\ stage' = "reconcile" /\ mine' = local /\ wire'.to = "open"
      /\ wire'.ranges = N!Initiate(local, low) /\ theirs = {} /\ have = {} /\ need = {}
      /\ local' = local /\ remote' = remote /\ theirs' = theirs /\ have' = have /\ need' = need
      /\ todo' = todo
  BY <1>1 DEF SyncInv, SyncStages, N!Begin
<1>3. SyncTypes'
  BY <1>2 DEF SyncInv, SyncTypes
<1>4. Chain(mine', remote', FALSE, 1, wire'.ranges) /\ N!Items \subseteq Asked(1, wire'.ranges)
  <2>1. local \subseteq N!Items
    BY DEF SyncInv, SyncTypes
  <2> QED
    BY <1>2, <2>1, OpenAsks
<1>5. OnWire'
  BY <1>2, <1>4 DEF OnWire
<1> QED
  BY <1>2, <1>3, <1>5 DEF SyncInv, SyncStages, Moved, Converged

LEMMA RelayKeeps == ASSUME RelayLimit = 0, SyncInv, N!RelayAnswers PROVE SyncInv'
<1>1. PICK low \in BOOLEAN :
        wire' = [to |-> "client",
                 ranges |-> N!Reconcile(theirs', FALSE, RelayLimit, low, wire.ranges).out]
  BY DEF N!RelayAnswers
<1>2. /\ wire.to = "open" \/ wire.to = "relay"
      /\ theirs' = IF wire.to = "open" THEN remote ELSE theirs
      /\ wire'.to = "client"
      /\ wire'.ranges = N!Reconcile(theirs', FALSE, RelayLimit, low, wire.ranges).out
      /\ local' = local /\ remote' = remote /\ mine' = mine /\ stage' = stage /\ have' = have
      /\ need' = need /\ todo' = todo
  BY <1>1 DEF N!RelayAnswers
<1>3. stage # "begin" /\ stage \notin Converged
  <2>1. wire # N!Quiet
    BY <1>2 DEF N!Quiet
  <2> QED
    BY <2>1 DEF SyncInv, SyncStages
<1>4. PICK known, s, left : known = theirs' /\ s = wire.ranges /\ left = Left'
  OBVIOUS
<1>5. /\ known \subseteq N!Items /\ mine \subseteq N!Items /\ known \subseteq remote
      /\ Chain(mine, known, FALSE, 1, s) /\ left \subseteq Asked(1, s)
      /\ have \subseteq mine \ known /\ need \subseteq known \ mine
  <2>0. left = Diff(mine, known) \ (have \cup need)
    BY <1>2, <1>4 DEF Left
  <2>1. CASE wire.to = "open"
    BY <1>2, <1>4, <2>0, <2>1 DEF SyncInv, SyncTypes, OnWire, Diff
  <2>2. CASE wire.to = "relay"
    <3>1. known = theirs
      BY <1>2, <1>4, <2>2
    <3>2. left = Left
      BY <2>0, <3>1 DEF Left
    <3> QED
      BY <1>4, <2>2, <3>1, <3>2 DEF SyncInv, SyncTypes, OnWire
  <2> QED
    BY <1>2, <2>1, <2>2
<1>6. PICK u : u = wire'.ranges
  OBVIOUS
<1>7. Chain(known, mine, TRUE, 1, u) /\ left \subseteq Asked(1, u)
  <2>1. left \subseteq Diff(mine, known)
    BY <1>2, <1>4 DEF Left
  <2>2. u = N!Reconcile(known, FALSE, RelayLimit, low, s).out
    BY <1>2, <1>4, <1>6
  <2> QED
    BY <1>5, <2>1, <2>2, RelaySays
<1>8. OnWire'
  BY <1>2, <1>4, <1>6, <1>7 DEF OnWire
<1>9. SyncTypes'
  BY <1>2, <1>4, <1>5 DEF SyncInv, SyncTypes
<1>10. SyncStages' /\ Moved'
  BY <1>2, <1>3 DEF SyncStages, Moved, Converged
<1> QED
  BY <1>8, <1>9, <1>10 DEF SyncInv

LEMMA ClientKeeps == ASSUME SyncInv, N!ClientAnswers PROVE SyncInv'
<1>1. PICK low, res :
        /\ res = N!Reconcile(mine, TRUE, ClientLimit, low, wire.ranges)
        /\ have' = have \cup res.have /\ need' = need \cup res.need
        /\ \/ res.out = <<>> /\ stage' = "query" /\ wire' = N!Quiet
           \/ /\ wire' = [to |-> "relay", ranges |-> res.out]
              /\ stage' = stage \/ stage' = "error"
  BY DEF N!ClientAnswers
<1>2. /\ stage = "reconcile" /\ wire.to = "client"
      /\ local' = local /\ remote' = remote /\ mine' = mine /\ theirs' = theirs /\ todo' = todo
  BY DEF N!ClientAnswers
<1>3. PICK s, left : s = wire.ranges /\ left = Left
  OBVIOUS
<1>4. /\ mine \subseteq N!Items /\ theirs \subseteq N!Items
      /\ Chain(theirs, mine, TRUE, 1, s) /\ left \subseteq Asked(1, s)
      /\ left \subseteq Diff(mine, theirs)
  BY <1>2, <1>3 DEF SyncInv, SyncTypes, OnWire, Left
<1>5. res = N!Reconcile(mine, TRUE, ClientLimit, low, s)
  BY <1>1, <1>3
<1>6. /\ Chain(mine, theirs, FALSE, 1, res.out)
      /\ left \subseteq res.have \cup res.need \cup Asked(1, res.out)
      /\ res.have \subseteq mine \ theirs /\ res.need \subseteq theirs \ mine
  <2>1. Found(mine, theirs, left, res)
    BY <1>4, <1>5, ClientSays
  <2> QED
    BY <2>1 DEF Found
<1>7. SyncTypes'
  BY <1>1, <1>2, <1>6 DEF SyncInv, SyncTypes
<1>8. Left' \subseteq Asked(1, res.out)
  <2>1. Left' = left \ (res.have \cup res.need)
    BY <1>1, <1>2, <1>3 DEF Left
  <2> QED
    BY <1>6, <2>1
<1>9. CASE res.out = <<>> /\ stage' = "query" /\ wire' = N!Quiet
  <2>1. wire'.to = "nobody"
    BY <1>9 DEF N!Quiet
  <2>2. Left' = {}
    <3>1. PICK none : none = res.out /\ Len(none) = 0
      BY <1>9
    <3>2. Asked(1, none) = {}
      BY <3>1 DEF Asked
    <3> QED
      BY <1>8, <3>1, <3>2
  <2> QED
    BY <1>7, <1>9, <2>1, <2>2 DEF SyncInv, SyncStages, OnWire, Moved, Converged
<1>10. CASE /\ wire' = [to |-> "relay", ranges |-> res.out]
            /\ stage' = stage \/ stage' = "error"
  <2>1. wire'.to = "relay" /\ wire'.ranges = res.out
    BY <1>10
  <2>2. OnWire'
    BY <1>2, <1>6, <1>8, <2>1 DEF OnWire
  <2>3. stage' = "reconcile" \/ stage' = "error"
    BY <1>2, <1>10
  <2> QED
    BY <1>7, <2>2, <2>3 DEF SyncInv, SyncStages, Moved, Converged
<1> QED
  BY <1>1, <1>9, <1>10

\* A set is dealt out as a sequence of its members.
LEMMA ListOf ==
  ASSUME NEW X, X \subseteq N!Items, NEW u, u = N!SetToSeq(X)
  PROVE  u \in Seq(N!Items) /\ ToSet(u) = X
<1>1. u = SetToSeq(X) /\ IsFiniteSet(X)
  <2>1. \A Y : N!SetToSeq(Y) = SetToSeq(Y)
    BY SyncNames
  <2>2. IsFiniteSet(N!Items)
    BY Numbers
  <2> QED
    BY <2>1, <2>2, FS_Subset
<1>2. PICK n \in Nat : n = Cardinality(X)
  BY <1>1, FS_CardinalityType
<1>3. PICK f : f \in Bijection(1..n, X)
  BY <1>1, <1>2, FS_CardinalityType DEF ExistsBijection
<1>4. f \in [1..n -> X] /\ IsInjective(f)
  BY <1>3 DEF Bijection, Injection
<1>5. u \in [1..n -> X] /\ IsInjective(u)
  BY <1>1, <1>2, <1>4 DEF SetToSeq
<1>6. u \in Injection(1..n, X)
  BY <1>5 DEF Injection
<1>7. IsFiniteSet(1..n) /\ Cardinality(1..n) = n
  BY FS_Interval
<1>8. u \in Surjection(1..n, X)
  BY <1>1, <1>2, <1>6, <1>7, FS_Injection
<1>9. ToSet(u) = X
  BY <1>5, <1>8 DEF Surjection, ToSet
<1> QED
  BY <1>5, <1>9

LEMMA SyncStep == ASSUME RelayLimit = 0, SyncInv, [N!Next]_syncVars PROVE SyncInv'
<1>1. CASE N!Begin
  BY <1>1, BeginKeeps
<1>2. CASE N!RelayAnswers
  BY <1>2, RelayKeeps
<1>3. CASE N!ClientAnswers
  BY <1>3, ClientKeeps
<1>4. CASE N!SessionFails
  <2>1. wire'.to = "nobody" /\ stage' = "error"
    BY <1>4 DEF N!SessionFails, N!Quiet
  <2> QED
    BY <1>4, <2>1 DEF SyncInv, SyncTypes, SyncStages, OnWire, Moved, Converged, N!SessionFails
<1>5. CASE N!StartUpload
  <2>1. PICK X : X = have \cap local
    OBVIOUS
  <2>2. X \subseteq N!Items /\ have \subseteq X \cup (have \ local)
    BY <2>1 DEF SyncInv, SyncTypes
  <2>3. /\ todo' = IF N!Uploads THEN N!SetToSeq(X) ELSE <<>>
        /\ failed' = IF N!Uploads THEN have \ local ELSE {}
        /\ stage = "query" /\ stage' = "upload" /\ wire' = wire /\ have' = have /\ need' = need
        /\ local' = local /\ remote' = remote /\ mine' = mine /\ theirs' = theirs
        /\ direction' = direction
    BY <1>5, <2>1 DEF N!StartUpload
  <2>4. todo' \in Seq(N!Items) /\ (N!Uploads => ToSet(todo') = X)
    <3>1. PICK u : u = N!SetToSeq(X)
      OBVIOUS
    <3>2. u \in Seq(N!Items) /\ ToSet(u) = X
      BY <2>2, <3>1, ListOf
    <3>3. <<>> \in Seq(N!Items)
      OBVIOUS
    <3> QED
      BY <2>3, <3>1, <3>2, <3>3
  <2>5. N!Uploads' <=> N!Uploads
    BY <2>3 DEF N!Uploads
  <2>6. Moved'
    BY <2>2, <2>3, <2>4, <2>5 DEF Moved
  <2>7. wire = N!Quiet /\ Left' = {}
    BY <2>3 DEF SyncInv, SyncStages, Converged, Left
  <2>8. wire'.to = "nobody" /\ wire' = N!Quiet
    BY <2>3, <2>7 DEF N!Quiet
  <2> QED
    BY <2>3, <2>4, <2>6, <2>7, <2>8 DEF SyncInv, SyncTypes, SyncStages, OnWire, Converged
<1>6. CASE N!Upload
  <2>1. /\ stage = "upload" /\ todo # <<>> /\ todo' = Tail(todo) /\ stage' = stage
        /\ \/ remote' = remote \cup {Head(todo)} /\ failed' = failed
           \/ failed' = failed \cup {Head(todo)} /\ remote' = remote
        /\ local' = local /\ mine' = mine /\ theirs' = theirs /\ direction' = direction
        /\ wire' = wire /\ have' = have /\ need' = need
    BY <1>6 DEF N!Upload
  <2>2. /\ Head(todo) \in N!Items /\ Tail(todo) \in Seq(N!Items)
        /\ ToSet(todo) \subseteq {Head(todo)} \cup ToSet(Tail(todo))
    <3>1. PICK n : n = Len(todo)
      OBVIOUS
    <3>2. todo \in Seq(N!Items) /\ n \in Nat \ {0} /\ DOMAIN todo = 1..n
      BY <2>1, <3>1 DEF SyncInv, SyncTypes
    <3>3. /\ Head(todo) = todo[1] /\ Head(todo) \in N!Items /\ Tail(todo) \in Seq(N!Items)
          /\ DOMAIN Tail(todo) = 1..(n - 1)
          /\ \A k \in 1..(n - 1) : Tail(todo)[k] = todo[k + 1]
      BY <2>1, <3>1, <3>2
    <3>4. ASSUME NEW k \in 1..n PROVE todo[k] \in {Head(todo)} \cup ToSet(Tail(todo))
      <4>1. CASE k = 1
        BY <3>3, <4>1
      <4>2. CASE k # 1
        <5>1. k - 1 \in 1..(n - 1) /\ (k - 1) + 1 = k
          BY <3>2, <4>2
        <5> QED
          BY <3>3, <5>1 DEF ToSet
      <4> QED
        BY <4>1, <4>2
    <3> QED
      BY <3>2, <3>3, <3>4 DEF ToSet
  <2>3. N!Uploads' <=> N!Uploads
    BY <2>1 DEF N!Uploads
  <2>4. Moved'
    BY <2>1, <2>2, <2>3 DEF SyncInv, Moved
  <2>5. SyncTypes'
    BY <2>1, <2>2 DEF SyncInv, SyncTypes
  <2>6. wire = N!Quiet /\ Left' = {}
    BY <2>1 DEF SyncInv, SyncStages, Converged, Left
  <2>7. wire'.to = "nobody" /\ wire' = N!Quiet
    BY <2>1, <2>6 DEF N!Quiet
  <2> QED
    BY <2>1, <2>4, <2>5, <2>6, <2>7 DEF SyncInv, SyncStages, OnWire, Converged
<1>7. CASE N!StartDownload
  <2>1. /\ stage = "upload" /\ todo = <<>> /\ stage' = "download"
        /\ todo' = IF N!Downloads THEN N!SetToSeq(need) ELSE <<>>
        /\ local' = local /\ remote' = remote /\ mine' = mine /\ theirs' = theirs
        /\ direction' = direction /\ wire' = wire /\ have' = have /\ need' = need
        /\ failed' = failed /\ missed' = missed
    BY <1>7 DEF N!StartDownload
  <2>2. /\ todo' \in Seq(N!Items) /\ ToSet(todo') \subseteq need /\ ToSet(todo) = {}
        /\ N!Downloads => ToSet(todo') = need
    <3>1. PICK u : u = N!SetToSeq(need)
      OBVIOUS
    <3>2. need \subseteq N!Items
      BY DEF SyncInv, SyncTypes
    <3>3. u \in Seq(N!Items) /\ ToSet(u) = need
      BY <3>1, <3>2, ListOf
    <3>4. <<>> \in Seq(N!Items) /\ ToSet(<<>>) = {}
      BY DEF ToSet
    <3> QED
      BY <2>1, <3>1, <3>3, <3>4
  <2>3. (N!Uploads' <=> N!Uploads) /\ (N!Downloads' <=> N!Downloads)
    BY <2>1 DEF N!Uploads, N!Downloads
  <2>4. Moved'
    BY <2>1, <2>2, <2>3 DEF SyncInv, Moved
  <2>5. SyncTypes'
    BY <2>1, <2>2 DEF SyncInv, SyncTypes
  <2>6. wire = N!Quiet /\ Left' = {}
    BY <2>1 DEF SyncInv, SyncStages, Converged, Left
  <2>7. wire'.to = "nobody" /\ wire' = N!Quiet
    BY <2>1, <2>6 DEF N!Quiet
  <2> QED
    BY <2>1, <2>4, <2>5, <2>6, <2>7 DEF SyncInv, SyncStages, OnWire, Converged
<1>8. CASE N!Fetch
  <2>1. PICK n, size, batch, after :
          /\ n = Len(todo) /\ size = BatchSize /\ after = N!Rest(todo)
          /\ batch = {todo[k] : k \in 1..size \cap DOMAIN todo}
    OBVIOUS
  <2>2. PICK got \in SUBSET (batch \cap remote) :
          \/ /\ local' = local \cup (got \ Refused) /\ missed' = missed \cup (batch \ got)
             /\ todo' = after /\ failed' = failed
          \/ /\ got # {} /\ failed' = failed \cup got /\ todo' = <<>> /\ local' = local
             /\ missed' = missed
    BY <1>8, <2>1 DEF N!Fetch
  <2>3. /\ stage = "download" /\ todo # <<>> /\ stage' = stage /\ remote' = remote
        /\ mine' = mine /\ theirs' = theirs /\ direction' = direction /\ wire' = wire
        /\ have' = have /\ need' = need
    BY <1>8 DEF N!Fetch
  <2>4. todo \in Seq(N!Items) /\ n \in Nat /\ DOMAIN todo = 1..n /\ size \in Nat \ {0}
    BY <2>1, SyncAssumption DEF SyncInv, SyncTypes
  <2>5. /\ after \in Seq(N!Items)
        /\ \A k \in 1..Len(after) : after[k] = todo[k + size] /\ k + size \in 1..n
        /\ \A k \in 1..n : k > size => k - size \in 1..Len(after)
    <3>1. after = SubSeq(todo, size + 1, n)
      BY <2>1 DEF N!Rest
    <3> QED
      BY <2>4, <3>1, SMTT(30)
  <2>6. /\ batch \subseteq ToSet(todo) /\ ToSet(after) \subseteq ToSet(todo)
        /\ ToSet(todo) \subseteq batch \cup ToSet(after)
    <3>1. batch \subseteq ToSet(todo)
      BY <2>1, <2>4 DEF ToSet
    <3>2. DOMAIN after = 1..Len(after)
      BY <2>5
    <3>3. ToSet(after) \subseteq ToSet(todo)
      BY <2>4, <2>5, <3>2 DEF ToSet
    <3>4. ASSUME NEW k \in 1..n PROVE todo[k] \in batch \cup ToSet(after)
      <4>1. CASE k <= size
        <5>1. k \in 1..size \cap DOMAIN todo
          BY <2>4, <4>1
        <5> QED
          BY <2>1, <5>1
      <4>2. CASE k > size
        <5>1. k - size \in 1..Len(after) /\ (k - size) + size = k
          BY <2>4, <2>5, <4>2
        <5>2. after[k - size] = todo[k]
          BY <2>5, <5>1
        <5> QED
          BY <3>2, <5>1, <5>2 DEF ToSet
      <4> QED
        BY <2>4, <4>1, <4>2
    <3> QED
      BY <2>4, <3>1, <3>3, <3>4 DEF ToSet
  <2>7. got \subseteq batch /\ got \subseteq remote
    BY <2>2
  <2>8. (N!Uploads' <=> N!Uploads) /\ (N!Downloads' <=> N!Downloads)
    BY <2>3 DEF N!Uploads, N!Downloads
  <2>9. /\ ToSet(todo) \subseteq need /\ need \subseteq theirs /\ remote \subseteq N!Items
        /\ wire = N!Quiet /\ Left = {}
    BY <2>3 DEF SyncInv, SyncTypes, SyncStages, Moved, Converged
  <2>10. Moved' /\ local' \subseteq N!Items /\ todo' \in Seq(N!Items)
    <3>1. CASE /\ local' = local \cup (got \ Refused) /\ missed' = missed \cup (batch \ got)
               /\ todo' = after /\ failed' = failed
      <4>1. /\ N!Uploads' => have' \subseteq remote' \cup failed'
            /\ ToSet(todo') \subseteq need'
        BY <2>3, <2>6, <2>8, <2>9, <3>1 DEF SyncInv, Moved
      <4>2. ASSUME N!Downloads', failed' \cap theirs' = {}
            PROVE  need' \subseteq local' \cup Refused \cup missed' \cup ToSet(todo')
        <5>1. need \subseteq local \cup Refused \cup missed \cup ToSet(todo)
          BY <2>3, <2>8, <3>1, <4>2 DEF SyncInv, Moved
        <5>2. ToSet(todo) \subseteq (got \ Refused) \cup Refused \cup (batch \ got) \cup ToSet(after)
          BY <2>6
        <5> QED
          BY <2>3, <3>1, <5>1, <5>2
      <4>3. stage' = "download"
        BY <2>3
      <4> QED
        BY <2>5, <2>7, <2>9, <3>1, <4>1, <4>2, <4>3 DEF SyncInv, SyncTypes, Moved
    <3>2. CASE /\ got # {} /\ failed' = failed \cup got /\ todo' = <<>> /\ local' = local
               /\ missed' = missed
      <4>1. failed' \cap theirs' # {}
        BY <2>3, <2>6, <2>7, <2>9, <3>2
      <4>2. ToSet(todo') = {} /\ todo' \in Seq(N!Items)
        BY <3>2 DEF ToSet
      <4>3. N!Uploads' => have' \subseteq remote' \cup failed'
        BY <2>3, <2>8, <3>2 DEF SyncInv, Moved
      <4>4. stage' = "download"
        BY <2>3
      <4> QED
        BY <3>2, <4>1, <4>2, <4>3, <4>4 DEF SyncInv, SyncTypes, Moved
    <3> QED
      BY <2>2, <3>1, <3>2
  <2>11. SyncTypes'
    BY <2>3, <2>10 DEF SyncInv, SyncTypes
  <2>12. wire'.to = "nobody" /\ wire' = N!Quiet /\ Left' = {}
    BY <2>3, <2>9 DEF N!Quiet, Left
  <2> QED
    BY <2>3, <2>10, <2>11, <2>12 DEF SyncInv, SyncStages, OnWire, Converged
<1>9. CASE N!Downloaded
  <2>1. /\ stage = "download" /\ todo = <<>> /\ stage' = "done" /\ todo' = todo
        /\ local' = local /\ remote' = remote /\ mine' = mine /\ theirs' = theirs
        /\ direction' = direction /\ wire' = wire /\ have' = have /\ need' = need
        /\ failed' = failed /\ missed' = missed
    BY <1>9 DEF N!Downloaded
  <2>2. (N!Uploads' <=> N!Uploads) /\ (N!Downloads' <=> N!Downloads)
    BY <2>1 DEF N!Uploads, N!Downloads
  <2>3. Moved' /\ SyncTypes'
    BY <2>1, <2>2 DEF SyncInv, SyncTypes, Moved
  <2>4. wire = N!Quiet /\ Left' = {}
    BY <2>1 DEF SyncInv, SyncStages, Converged, Left
  <2>5. wire'.to = "nobody" /\ wire' = N!Quiet
    BY <2>1, <2>4 DEF N!Quiet
  <2> QED
    BY <2>1, <2>3, <2>4, <2>5 DEF SyncInv, SyncStages, OnWire, Converged
<1>10. CASE N!LocalRemove
  <2>1. /\ stage = "reconcile" \/ stage = "query"
        /\ stage' = stage /\ local' \subseteq local /\ remote' = remote /\ mine' = mine
        /\ theirs' = theirs /\ wire' = wire /\ have' = have /\ need' = need /\ todo' = todo
    BY <1>10 DEF N!LocalRemove
  <2>2. Left' = Left
    BY <2>1 DEF Left
  <2> QED
    BY <2>1, <2>2 DEF SyncInv, SyncTypes, SyncStages, OnWire, Moved
<1>11. CASE UNCHANGED syncVars
  <2>1. /\ local' = local /\ remote' = remote /\ mine' = mine /\ theirs' = theirs
        /\ direction' = direction /\ stage' = stage /\ wire' = wire /\ have' = have
        /\ need' = need /\ todo' = todo /\ failed' = failed /\ missed' = missed
    BY <1>11 DEF syncVars
  <2>2. (N!Uploads' <=> N!Uploads) /\ (N!Downloads' <=> N!Downloads) /\ Left' = Left
    BY <2>1 DEF N!Uploads, N!Downloads, Left
  <2> QED
    BY <2>1, <2>2 DEF SyncInv, SyncTypes, SyncStages, OnWire, Moved
<1> QED
  BY <1>1, <1>2, <1>3, <1>4, <1>5, <1>6, <1>7, <1>8, <1>9, <1>10, <1>11 DEF N!Next

\* What is found is what differs, and what is moved is what was found.
LEMMA SyncFollows == SyncInv => N!SyncExact
<1>1. ASSUME SyncInv PROVE N!SyncExact
  <2>1. have \subseteq mine \ theirs /\ need \subseteq theirs \ mine /\ theirs \subseteq remote
    BY <1>1 DEF SyncInv, SyncTypes
  <2>2. stage \in Converged => have = mine \ theirs /\ need = theirs \ mine
    <3>1. stage \in Converged => Diff(mine, theirs) \subseteq have \cup need
      BY <1>1 DEF SyncInv, SyncStages, Left
    <3> QED
      BY <2>1, <3>1 DEF Diff
  <2>3. N!ReconcileExact
    BY <2>2 DEF N!ReconcileExact, Converged
  <2>4. ASSUME stage = "done"
        PROVE  /\ N!Uploads => mine \subseteq remote \cup failed
               /\ N!Downloads /\ failed \cap theirs = {} =>
                    theirs \subseteq local \cup Refused \cup missed \cup (mine \ local)
    <3>1. have = mine \ theirs /\ need = theirs \ mine
      BY <2>2, <2>4 DEF Converged
    <3>2. todo = <<>> /\ ToSet(todo) = {}
      BY <1>1, <2>4 DEF SyncInv, Moved, ToSet
    <3>3. N!Uploads => have \subseteq remote \cup failed
      BY <1>1, <2>4 DEF SyncInv, Moved
    <3>4. N!Downloads /\ failed \cap theirs = {} => need \subseteq local \cup Refused \cup missed
      BY <1>1, <2>4, <3>2 DEF SyncInv, Moved
    <3> QED
      BY <2>1, <3>1, <3>3, <3>4
  <2> QED
    BY <2>3, <2>4 DEF N!SyncExact, N!SyncDelivers
<1> QED
  BY <1>1

(* With a relay whose answers are not cut short, whatever the limit of the   *)
(* client: a session that converges has found the exact difference of the    *)
(* two sides, and the sync moves it or reports what it could not             *)
(* (Negentropy.reconcile(), runNegSession(), syncToRelay()).                 *)
THEOREM SyncIsExact == ASSUME RelayLimit = 0 PROVE Spec => []SyncExact
<1>1. Init => SyncInv
  BY SyncInit DEF Init
<1>2. SyncInv /\ [Next]_partVars => SyncInv'
  BY SyncStep, PartSteps
<1>3. SyncInv => SyncExact
  BY SyncFollows DEF SyncExact
<1> QED
  BY <1>1, <1>2, <1>3, PTL DEF Spec

-----------------------------------------------------------------------------
(* The queries.                                                              *)

LEMMA QueryNames ==
  /\ \A s : Q!ToSet(s) = ToSet(s)
  /\ \A X : Q!Cardinality(X) = Cardinality(X) /\ Q!SetToSeq(X) = SetToSeq(X)
<1>1. \A s : Q!ToSet(s) = ToSet(s)
  BY DEF Q!ToSet, ToSet
<1>2. \A X : Q!Cardinality(X) = Cardinality(X)
  BY DEF Q!Cardinality, Cardinality
<1>3. \A X : Q!SetToSeq(X) = SetToSeq(X)
  BY <1>2 DEF Q!SetToSeq, SetToSeq, Q!IsInjective, IsInjective
<1> QED
  BY <1>1, <1>2, <1>3

\* A strict order of a finite set, as a set of pairs, gives each element a place.
Orders(R, X) ==
  /\ \A x, y \in X : x = y \/ <<x, y>> \in R \/ <<y, x>> \in R
  /\ \A x \in X : <<x, x>> \notin R
  /\ \A x, y, z \in X : <<x, y>> \in R /\ <<y, z>> \in R => <<x, z>> \in R
PlaceIn(R, X, x) == Cardinality({y \in X : <<y, x>> \in R})

LEMMA PlacesAre ==
  ASSUME NEW X, IsFiniteSet(X), NEW R, Orders(R, X), NEW n, n = Cardinality(X)
  PROVE  /\ n \in Nat
         /\ \A x \in X : PlaceIn(R, X, x) \in 0..(n - 1)
         /\ \A x, y \in X : <<x, y>> \in R <=> PlaceIn(R, X, x) < PlaceIn(R, X, y)
         /\ \A m \in 0..(n - 1) : \E x \in X : PlaceIn(R, X, x) = m
<1> DEFINE Below(x) == {y \in X : <<y, x>> \in R}
<1>0. n \in Nat
  BY FS_CardinalityType
<1>1. ASSUME NEW x \in X
      PROVE  IsFiniteSet(Below(x)) /\ PlaceIn(R, X, x) \in 0..(n - 1)
  <2>1. Below(x) \subseteq X \ {x}
    BY DEF Orders
  <2>2. IsFiniteSet(X \ {x}) /\ Cardinality(X \ {x}) = n - 1
    BY FS_RemoveElement
  <2>3. IsFiniteSet(Below(x)) /\ Cardinality(Below(x)) <= n - 1 /\ Cardinality(Below(x)) \in Nat
    <3> HIDE DEF Below
    <3> QED
      BY <2>1, <2>2, FS_Subset, FS_CardinalityType
  <2> QED
    BY <1>0, <2>3 DEF PlaceIn
<1>2. ASSUME NEW x \in X, NEW y \in X, <<x, y>> \in R PROVE PlaceIn(R, X, x) < PlaceIn(R, X, y)
  <2>1. PICK less, more : less = Below(x) /\ more = Below(y)
    OBVIOUS
  <2>2. IsFiniteSet(less) /\ IsFiniteSet(more) /\ x \in more /\ less \subseteq more \ {x}
    <3>1. less \subseteq more \ {x} /\ x \in more
      BY <1>2, <2>1 DEF Orders
    <3> QED
      BY <1>1, <2>1, <3>1
  <2>3. IsFiniteSet(more \ {x}) /\ Cardinality(more \ {x}) = Cardinality(more) - 1
    BY <2>2, FS_RemoveElement
  <2>4. Cardinality(less) <= Cardinality(more \ {x})
    BY <2>2, <2>3, FS_Subset
  <2>5. Cardinality(less) \in Nat /\ Cardinality(more) \in Nat
    BY <2>2, FS_CardinalityType
  <2> QED
    BY <2>1, <2>3, <2>4, <2>5 DEF PlaceIn
<1> HIDE DEF Below
<1>3. \A x \in X : PlaceIn(R, X, x) \in Int
  BY <1>0, <1>1
<1>4. \A x, y \in X : <<x, y>> \in R <=> PlaceIn(R, X, x) < PlaceIn(R, X, y)
  <2> TAKE x, y \in X
  <2>1. x = y \/ <<x, y>> \in R \/ <<y, x>> \in R
    BY DEF Orders
  <2>2. PlaceIn(R, X, x) \in Int /\ PlaceIn(R, X, y) \in Int
    BY <1>3
  <2>3. <<x, y>> \in R => PlaceIn(R, X, x) < PlaceIn(R, X, y)
    BY <1>2
  <2>4. <<y, x>> \in R => PlaceIn(R, X, y) < PlaceIn(R, X, x)
    BY <1>2
  <2> QED
    BY <2>1, <2>2, <2>3, <2>4
<1>5. \A m \in 0..(n - 1) : \E x \in X : PlaceIn(R, X, x) = m
  <2>1. PICK f : f = [x \in X |-> PlaceIn(R, X, x)]
    OBVIOUS
  <2>2. \A x, y \in X : PlaceIn(R, X, x) = PlaceIn(R, X, y) => x = y
    <3> TAKE x, y \in X
    <3>1. PlaceIn(R, X, x) \in Int /\ PlaceIn(R, X, y) \in Int
      BY <1>3
    <3>2. x = y \/ <<x, y>> \in R \/ <<y, x>> \in R
      BY DEF Orders
    <3> QED
      BY <1>4, <3>1, <3>2
  <2>3. f \in Injection(X, 0..(n - 1))
    BY <1>1, <2>1, <2>2 DEF Injection, IsInjective
  <2>4. IsFiniteSet(0..(n - 1)) /\ Cardinality(0..(n - 1)) = n
    <3>1. PICK a, b : a = 0 /\ b = n - 1
      OBVIOUS
    <3>2. a \in Int /\ b \in Int /\ (a > b <=> n = 0) /\ b - a + 1 = n
      BY <1>0, <3>1
    <3>3. IsFiniteSet(a..b) /\ Cardinality(a..b) = (IF a > b THEN 0 ELSE b - a + 1)
      BY <3>2, FS_Interval
    <3> QED
      BY <3>1, <3>2, <3>3
  <2>5. f \in Surjection(X, 0..(n - 1))
    BY <2>3, <2>4, FS_Injection
  <2> QED
    BY <2>1, <2>5 DEF Surjection
<1> QED
  BY <1>0, <1>1, <1>4, <1>5

\* The events of a store have one order, newest first.
Evs(X) == /\ IsFiniteSet(X)
          /\ \A x \in X : x.id \in Nat /\ x.at \in Nat
          /\ \A x, y \in X : x.id = y.id => x = y
Place(X, x) == Cardinality({y \in X : Q!Before(y, x)})

\* v begins X, m events long.
Ranked(X, v, m) == /\ v \in Seq(X) /\ Len(v) = m
                   /\ \A i \in 1..m : Place(X, v[i]) = i - 1

LEMMA PlaceIs ==
  ASSUME NEW X, Evs(X), NEW n, n = Cardinality(X)
  PROVE  /\ n \in Nat
         /\ \A x \in X : Place(X, x) \in 0..(n - 1)
         /\ \A x, y \in X : Q!Before(x, y) <=> Place(X, x) < Place(X, y)
         /\ \A m \in 0..(n - 1) : \E x \in X : Place(X, x) = m
         /\ \A x, y \in X : Place(X, x) = Place(X, y) => x = y
<1>1. PICK R : R = {p \in X \X X : Q!Before(p[1], p[2])}
  OBVIOUS
<1>2. \A x, y \in X : <<x, y>> \in R <=> Q!Before(x, y)
  BY <1>1
<1>3. Orders(R, X)
  <2>1. \A x, y \in X : x = y \/ Q!Before(x, y) \/ Q!Before(y, x)
    BY DEF Evs, Q!Before
  <2>2. \A x \in X : ~Q!Before(x, x)
    BY DEF Evs, Q!Before
  <2>3. \A x, y, z \in X : Q!Before(x, y) /\ Q!Before(y, z) => Q!Before(x, z)
    BY DEF Evs, Q!Before
  <2> QED
    BY <1>2, <2>1, <2>2, <2>3 DEF Orders
<1>4. \A x \in X : PlaceIn(R, X, x) = Place(X, x)
  <2> TAKE x \in X
  <2>1. {y \in X : <<y, x>> \in R} = {y \in X : Q!Before(y, x)}
    BY <1>2
  <2> QED
    BY <2>1 DEF PlaceIn, Place
<1>5. /\ n \in Nat
      /\ \A x \in X : PlaceIn(R, X, x) \in 0..(n - 1)
      /\ \A x, y \in X : <<x, y>> \in R <=> PlaceIn(R, X, x) < PlaceIn(R, X, y)
      /\ \A m \in 0..(n - 1) : \E x \in X : PlaceIn(R, X, x) = m
  BY <1>3, PlacesAre DEF Evs
<1>6. /\ \A x \in X : Place(X, x) \in 0..(n - 1)
      /\ \A x, y \in X : Q!Before(x, y) <=> Place(X, x) < Place(X, y)
      /\ \A m \in 0..(n - 1) : \E x \in X : Place(X, x) = m
  BY <1>2, <1>4, <1>5
<1>7. ASSUME NEW x \in X, NEW y \in X, Place(X, x) = Place(X, y) PROVE x = y
  <2>1. x = y \/ <<x, y>> \in R \/ <<y, x>> \in R
    BY <1>3 DEF Orders
  <2>2. Place(X, x) \in Int /\ Place(X, y) \in Int
    BY <1>5, <1>6
  <2> QED
    BY <1>2, <1>6, <1>7, <2>1, <2>2
<1> QED
  BY <1>5, <1>6, <1>7

\* Sorting gives every event its place.
LEMMA SortedIs ==
  ASSUME NEW X, Evs(X), NEW n, n = Cardinality(X), NEW u, u = Q!Sorted(X)
  PROVE  Ranked(X, u, n)
<1>1. /\ n \in Nat
      /\ \A m \in 0..(n - 1) : \E x \in X : Place(X, x) = m
  BY PlaceIs
<1>2. u = [k \in 1..n |-> CHOOSE x \in X : Place(X, x) = k - 1]
  <2>1. Q!Cardinality(X) = n /\ \A Y : Q!Cardinality(Y) = Cardinality(Y)
    BY QueryNames
  <2>2. u = [k \in 1..Q!Cardinality(X) |->
               CHOOSE x \in X : Q!Cardinality({y \in X : Q!Before(y, x)}) = k - 1]
    BY DEF Q!Sorted, Q!InOrder
  <2> QED
    BY <2>1, <2>2 DEF Place
<1>3. ASSUME NEW k \in 1..n PROVE u[k] \in X /\ Place(X, u[k]) = k - 1
  <2>1. k - 1 \in 0..(n - 1)
    BY <1>1
  <2>2. PICK x \in X : Place(X, x) = k - 1
    BY <1>1, <2>1
  <2>3. u[k] = CHOOSE y \in X : Place(X, y) = k - 1
    BY <1>2
  <2> QED
    BY <2>2, <2>3
<1>4. u \in [1..n -> X]
  BY <1>2, <1>3
<1>5. u \in Seq(X) /\ Len(u) = n
  BY <1>1, <1>4
<1> QED
  BY <1>3, <1>5 DEF Ranked

LEMMA RankedOne ==
  ASSUME NEW X, Evs(X), NEW m, NEW v, Ranked(X, v, m), NEW w, Ranked(X, w, m)
  PROVE  v = w
<1>1. v \in Seq(X) /\ w \in Seq(X) /\ m \in Nat /\ Len(v) = m /\ Len(w) = m
  BY DEF Ranked
<1>2. ASSUME NEW i \in 1..m PROVE v[i] = w[i]
  <2>1. Place(X, v[i]) = Place(X, w[i]) /\ v[i] \in X /\ w[i] \in X
    BY <1>1 DEF Ranked
  <2> QED
    BY <2>1, PlaceIs
<1> QED
  BY <1>1, <1>2

LEMMA RankedAll ==
  ASSUME NEW X, Evs(X), NEW m, NEW v, Ranked(X, v, m)
  PROVE  /\ m \in Nat /\ m <= Cardinality(X)
         /\ \A x \in X : x \in ToSet(v) <=> Place(X, x) < m
         /\ ToSet(v) \subseteq X
<1>1. PICK n : n = Cardinality(X)
  OBVIOUS
<1>2. /\ n \in Nat /\ \A x \in X : Place(X, x) \in 0..(n - 1)
      /\ \A x, y \in X : Place(X, x) = Place(X, y) => x = y
  BY <1>1, PlaceIs
<1>3. /\ v \in Seq(X) /\ m \in Nat /\ DOMAIN v = 1..m /\ \A i \in 1..m : v[i] \in X /\ Place(X, v[i]) = i - 1
  BY DEF Ranked
<1>4. m <= n
  <2>1. CASE m = 0
    BY <1>2, <2>1
  <2>2. CASE m # 0
    <3>1. m \in 1..m
      BY <1>3, <2>2
    <3> QED
      BY <1>2, <1>3, <3>1
  <2> QED
    BY <2>1, <2>2
<1>5. ASSUME NEW x \in X, Place(X, x) < m PROVE x \in ToSet(v)
  <2>1. PICK i : i = Place(X, x) + 1
    OBVIOUS
  <2>2. i \in 1..m /\ i - 1 = Place(X, x)
    BY <1>2, <1>3, <1>5, <2>1
  <2>3. v[i] = x
    BY <1>2, <1>3, <2>2
  <2> QED
    BY <1>3, <2>2, <2>3 DEF ToSet
<1>6. ASSUME NEW x \in X, x \in ToSet(v) PROVE Place(X, x) < m
  <2>1. PICK i \in 1..m : x = v[i]
    BY <1>3, <1>6 DEF ToSet
  <2> QED
    BY <1>3, <2>1
<1>7. ToSet(v) \subseteq X
  BY <1>3 DEF ToSet
<1> QED
  BY <1>1, <1>3, <1>4, <1>5, <1>6, <1>7

\* How many events a limit leaves.
Much(X, limit) == IF limit = Absent \/ limit >= Cardinality(X) THEN Cardinality(X) ELSE limit

\* The first events, as a query cuts them.
LEMMA FirstIs ==
  ASSUME NEW X, Evs(X), NEW u, Ranked(X, u, Cardinality(X)), NEW limit, limit \in Nat \cup {Absent},
         NEW v, v = Q!First(u, limit)
  PROVE  Ranked(X, v, Much(X, limit))
<1>1. PICK n : n = Cardinality(X)
  OBVIOUS
<1>2. /\ u \in Seq(X) /\ n \in Nat /\ Len(u) = n /\ \A i \in 1..n : Place(X, u[i]) = i - 1
  BY <1>1 DEF Ranked
<1>3. CASE limit = Absent \/ limit >= n
  <2>1. v = u /\ Much(X, limit) = n
    BY <1>1, <1>2, <1>3 DEF Q!First, Much
  <2> QED
    BY <1>1, <2>1
<1>4. CASE ~(limit = Absent \/ limit >= n)
  <2>1. v = SubSeq(u, 1, limit) /\ Much(X, limit) = limit /\ limit \in Nat /\ limit < n
    BY <1>1, <1>2, <1>4 DEF Q!First, Much
  <2>2. v \in Seq(X) /\ Len(v) = limit /\ \A i \in 1..limit : v[i] = u[i] /\ i \in 1..n
    BY <1>2, <2>1
  <2> QED
    BY <1>2, <2>1, <2>2 DEF Ranked
<1> QED
  BY <1>3, <1>4

LEMMA EvsIn == ASSUME NEW X, Evs(X), NEW Y, Y \subseteq X PROVE Evs(Y)
  BY FS_Subset DEF Evs

\* Taking events away moves the others up.
LEMMA PlaceUp ==
  ASSUME NEW X, Evs(X), NEW Y, Y \subseteq X, NEW x \in Y
  PROVE  /\ Place(Y, x) <= Place(X, x)
         /\ (\A y \in X : Q!Before(y, x) => y \in Y) => Place(Y, x) = Place(X, x)
<1>1. PICK less, more : less = {y \in Y : Q!Before(y, x)} /\ more = {y \in X : Q!Before(y, x)}
  OBVIOUS
<1>2. less \subseteq more /\ more \subseteq X /\ IsFiniteSet(X)
  BY <1>1 DEF Evs
<1>3. IsFiniteSet(more) /\ Cardinality(less) <= Cardinality(more)
  BY <1>2, FS_Subset
<1>4. (\A y \in X : Q!Before(y, x) => y \in Y) => less = more
  BY <1>1
<1> QED
  BY <1>1, <1>3, <1>4 DEF Place

\* What begins the whole begins a part that has it.
LEMMA RankedIn ==
  ASSUME NEW X, Evs(X), NEW m, NEW v, Ranked(X, v, m), NEW Y, Y \subseteq X, ToSet(v) \subseteq Y
  PROVE  Ranked(Y, v, m)
<1>1. v \in Seq(X) /\ m \in Nat /\ Len(v) = m /\ \A i \in 1..m : Place(X, v[i]) = i - 1
  BY DEF Ranked
<1>2. \A x \in X : x \in ToSet(v) <=> Place(X, x) < m
  BY RankedAll
<1>3. ASSUME NEW i \in 1..m PROVE v[i] \in Y /\ Place(Y, v[i]) = i - 1
  <2>1. PICK x : x = v[i]
    OBVIOUS
  <2>2. x \in ToSet(v) /\ x \in Y /\ x \in X
    BY <1>1, <2>1 DEF ToSet
  <2>3. ASSUME NEW y \in X, Q!Before(y, x) PROVE y \in Y
    <3>1. PICK n : n = Cardinality(X)
      OBVIOUS
    <3>2. Place(X, y) < Place(X, x) /\ Place(X, x) < m /\ Place(X, x) \in 0..(n - 1) /\ Place(X, y) \in 0..(n - 1)
      BY <1>2, <2>2, <2>3, <3>1, PlaceIs
    <3>3. Place(X, y) < m
      BY <1>1, <3>2
    <3> QED
      BY <1>2, <3>3
  <2>4. Place(Y, x) = Place(X, x)
    BY <2>2, <2>3, PlaceUp
  <2> QED
    BY <1>1, <2>1, <2>2, <2>4
<1>4. v \in Seq(Y)
  BY <1>1, <1>3
<1> QED
  BY <1>1, <1>3, <1>4 DEF Ranked

\* What begins a part that comes first begins the whole.
LEMMA RankedOut ==
  ASSUME NEW X, Evs(X), NEW Y, Y \subseteq X, \A x \in Y, y \in X : Q!Before(y, x) => y \in Y,
         NEW m, NEW v, Ranked(Y, v, m)
  PROVE  Ranked(X, v, m)
<1>1. v \in Seq(Y) /\ m \in Nat /\ Len(v) = m /\ \A i \in 1..m : Place(Y, v[i]) = i - 1
  BY DEF Ranked
<1>2. \A x \in Y : Place(Y, x) = Place(X, x)
  BY PlaceUp
<1>3. v \in Seq(X) /\ \A i \in 1..m : v[i] \in Y
  BY <1>1
<1> QED
  BY <1>1, <1>2, <1>3 DEF Ranked

\* The earlier events, then the others.
LEMMA RankedJoin ==
  ASSUME NEW X, Evs(X), NEW Y, NEW Z, X = Y \cup Z, \A y \in Y, z \in Z : Q!Before(y, z),
         NEW v, Ranked(Y, v, Cardinality(Y)), NEW w, Ranked(Z, w, Cardinality(Z)),
         NEW u, u = v \o w
  PROVE  Ranked(X, u, Cardinality(X))
<1>1. PICK m, n : m = Cardinality(Y) /\ n = Cardinality(Z)
  OBVIOUS
<1>2. /\ v \in Seq(Y) /\ m \in Nat /\ Len(v) = m /\ \A i \in 1..m : Place(Y, v[i]) = i - 1
      /\ w \in Seq(Z) /\ n \in Nat /\ Len(w) = n /\ \A i \in 1..n : Place(Z, w[i]) = i - 1
  BY <1>1 DEF Ranked
<1>3. \A x, y \in X : ~(Q!Before(x, y) /\ Q!Before(y, x))
  BY DEF Evs, Q!Before
<1>4. Y \cap Z = {} /\ IsFiniteSet(Y) /\ IsFiniteSet(Z) /\ IsFiniteSet({})
  BY <1>3, FS_Subset, FS_EmptySet DEF Evs
<1>5. Cardinality(X) = m + n
  <2>1. Cardinality(Y \cup Z) = Cardinality(Y) + Cardinality(Z) - Cardinality(Y \cap Z)
    BY <1>4, FS_Union
  <2>2. Cardinality(Y \cap Z) = 0
    BY <1>4, FS_EmptySet
  <2> QED
    BY <1>1, <1>2, <2>1, <2>2
<1>6. \A y \in Y : Place(X, y) = Place(Y, y)
  <2>1. ASSUME NEW y \in Y, NEW x \in X, Q!Before(x, y) PROVE x \in Y
    BY <1>3, <2>1
  <2> QED
    BY <2>1, PlaceUp
<1>7. ASSUME NEW z \in Z PROVE Place(X, z) = m + Place(Z, z)
  <2>1. PICK less, more : less = {y \in Z : Q!Before(y, z)} /\ more = {y \in X : Q!Before(y, z)}
    OBVIOUS
  <2>2. more = Y \cup less /\ Y \cap less = {} /\ IsFiniteSet(less)
    <3>1. less \subseteq Z
      BY <2>1
    <3> QED
      BY <1>4, <2>1, <3>1, FS_Subset
  <2>3. Cardinality(Y \cup less) = Cardinality(Y) + Cardinality(less) - Cardinality(Y \cap less)
    BY <1>4, <2>2, FS_Union
  <2>4. Cardinality(Y \cap less) = 0 /\ Cardinality(less) \in Nat
    BY <2>2, FS_EmptySet, FS_CardinalityType
  <2>5. Place(X, z) = Cardinality(more) /\ Place(Z, z) = Cardinality(less)
    BY <2>1 DEF Place
  <2> HIDE DEF Place
  <2> QED
    BY <1>1, <1>2, <2>2, <2>3, <2>4, <2>5
<1>8. u \in Seq(X) /\ Len(u) = m + n
  <2>1. v \in Seq(X) /\ w \in Seq(X)
    BY <1>2
  <2>2. v \o w \in Seq(X) /\ Len(v \o w) = Len(v) + Len(w)
    BY <2>1
  <2> QED
    BY <1>2, <2>2
<1>9. ASSUME NEW i \in 1..(m + n) PROVE Place(X, u[i]) = i - 1
  <2>1. CASE i <= m
    <3>1. i \in 1..m /\ u[i] = v[i] /\ v[i] \in Y
      BY <1>2, <2>1
    <3> QED
      BY <1>2, <1>6, <3>1
  <2>2. CASE i > m
    <3>1. PICK j : j = i - m
      OBVIOUS
    <3>2. j \in 1..n /\ u[i] = w[j] /\ w[j] \in Z
      BY <1>2, <2>2, <3>1
    <3>3. Place(Z, w[j]) = j - 1 /\ Place(X, w[j]) = m + Place(Z, w[j])
      BY <1>2, <1>7, <3>2
    <3> QED
      BY <1>2, <3>1, <3>2, <3>3
  <2> QED
    BY <1>2, <2>1, <2>2
<1> QED
  BY <1>5, <1>8, <1>9 DEF Ranked

-----------------------------------------------------------------------------
(* Filters and stores.                                                       *)
Fit(f, evs) == {ev \in evs : Q!Match(f, ev)}
Listed(some) == some # Absent => IsFiniteSet(some) /\ \A part \in SUBSET some : part # Absent
Proper(f) == /\ {f.limit, f.since, f.until} \subseteq Nat \cup {Absent}
             /\ Listed(f.ids) /\ Listed(f.by) /\ Listed(f.kinds)
             /\ \A n \in DOMAIN f.tags : IsFiniteSet(f.tags[n])

\* v is what a query for the first events of X gives.
Firsts(X, limit, v) == Ranked(X, v, Much(X, limit))

LEMMA AnswerIs ==
  ASSUME NEW f, f.limit \in Nat \cup {Absent}, NEW evs, Evs(evs), NEW X, X = Fit(f, evs)
  PROVE  Firsts(X, f.limit, Q!Answer(f, evs))
<1>1. Evs(X)
  <2>1. X \subseteq evs
    BY DEF Fit
  <2> QED
    BY <2>1, EvsIn
<1>2. PICK u, v : u = Q!Sorted(X) /\ v = Q!First(u, f.limit)
  OBVIOUS
<1>3. Ranked(X, u, Cardinality(X))
  BY <1>1, <1>2, SortedIs
<1>4. Ranked(X, v, Much(X, f.limit))
  BY <1>1, <1>2, <1>3, FirstIs
<1>5. Q!Answer(f, evs) = v
  BY <1>2 DEF Q!Answer, Fit
<1> QED
  BY <1>4, <1>5 DEF Firsts

LEMMA FirstsOne ==
  ASSUME NEW X, Evs(X), NEW limit, NEW v, Firsts(X, limit, v), NEW w, Firsts(X, limit, w)
  PROVE  v = w
  BY RankedOne DEF Firsts

LEMMA SortedFirst ==
  ASSUME NEW X, Evs(X), NEW limit, limit \in Nat \cup {Absent}
  PROVE  Firsts(X, limit, Q!First(Q!Sorted(X), limit))
<1>1. PICK u, v : u = Q!Sorted(X) /\ v = Q!First(u, limit)
  OBVIOUS
<1>2. Ranked(X, u, Cardinality(X))
  BY <1>1, SortedIs
<1>3. Ranked(X, v, Much(X, limit))
  BY <1>1, <1>2, FirstIs
<1> QED
  BY <1>1, <1>3 DEF Firsts

LEMMA NoneIs ==
  ASSUME NEW X, Evs(X), NEW limit, limit \in Nat \cup {Absent}, NEW v, Firsts(X, limit, v),
         limit = 0 \/ X = {}
  PROVE  v = <<>>
<1>1. PICK n : n = Cardinality(X)
  OBVIOUS
<1>2. n \in Nat /\ (X = {} => n = 0)
  <2>1. IsFiniteSet(X)
    BY DEF Evs
  <2> QED
    BY <1>1, <2>1, FS_EmptySet, FS_CardinalityType
<1>3. Much(X, limit) = 0
  BY <1>1, <1>2, QueriesAssumption DEF Much
<1> QED
  BY <1>3 DEF Firsts, Ranked

\* The memory index looks at all that can match.
LEMMA MemoryIs ==
  ASSUME NEW f, Proper(f), NEW evs, Evs(evs)
  PROVE  Q!MemoryQuery(f, evs) = Q!Answer(f, evs)
<1>1. CASE f.limit = 0
  <2>1. PICK X, v : X = Fit(f, evs) /\ v = Q!Answer(f, evs)
    OBVIOUS
  <2>2. Evs(X) /\ Firsts(X, f.limit, v)
    <3>1. X \subseteq evs /\ f.limit \in Nat \cup {Absent}
      BY <2>1 DEF Fit, Proper
    <3> QED
      BY <2>1, <3>1, EvsIn, AnswerIs
  <2>3. v = <<>>
    BY <1>1, <2>2, NoneIs
  <2> QED
    BY <1>1, <2>1, <2>3 DEF Q!MemoryQuery
<1>2. CASE f.limit # 0
  <2>1. ASSUME NEW ev \in evs, Q!Match(f, ev) PROVE ev \in Q!Candidates(f, evs)
    <3>1. Q!HasEp(f) => ev.tags \cap Q!EpTags(f) # {}
      <4>1. ASSUME Q!HasEp(f) PROVE ev.tags \cap Q!EpTags(f) # {}
        <5>1. PICK n \in DOMAIN f.tags \cap {"e", "p"} : TRUE
          BY <4>1 DEF Q!HasEp
        <5>2. PICK x \in f.tags[n] : <<n, x>> \in ev.tags
          BY <2>1, <5>1 DEF Q!Match
        <5>3. <<n, x>> \in Q!EpTags(f)
          BY <5>1, <5>2 DEF Q!EpTags
        <5> QED
          BY <5>2, <5>3
      <4> QED
        BY <4>1
    <3>2. /\ f.ids # Absent => ev.id \in f.ids
          /\ f.by # Absent => ev.by \in f.by
          /\ f.kinds # Absent => ev.kind \in f.kinds
      BY <2>1 DEF Q!Match, Q!Allows
    <3> QED
      BY <3>1, <3>2 DEF Q!Candidates
  <2>2. Q!Candidates(f, evs) \subseteq evs
    BY DEF Q!Candidates
  <2>3. {ev \in Q!Candidates(f, evs) : Q!Match(f, ev)} = {ev \in evs : Q!Match(f, ev)}
    BY <2>1, <2>2
  <2> QED
    BY <1>2, <2>3 DEF Q!MemoryQuery, Q!Answer
<1> QED
  BY <1>1, <1>2

\* What queries for the first events of parts of X find together.
Gathers(X, limit, P, part, got) ==
  /\ \A p \in P : part[p] \subseteq X /\ Firsts(part[p], limit, got[p])
  /\ \A x \in X : \E p \in P : x \in part[p]
Together(P, got) == UNION {ToSet(got[p]) : p \in P}

\* The first events of the whole are among the first of the parts.
LEMMA RowsFirst ==
  ASSUME NEW X, Evs(X), NEW limit, limit \in Nat \cup {Absent}, NEW P, NEW part, NEW got,
         Gathers(X, limit, P, part, got), NEW v, Firsts(X, limit, v)
  PROVE  /\ Together(P, got) \subseteq X /\ ToSet(v) \subseteq Together(P, got)
         /\ Firsts(Together(P, got), limit, v)
<1> DEFINE rows == Together(P, got)
<1>0. /\ rows = UNION {ToSet(got[p]) : p \in P}
      /\ \A p \in P : part[p] \subseteq X /\ Firsts(part[p], limit, got[p])
      /\ \A x \in X : \E p \in P : x \in part[p]
  BY DEF Together, Gathers
<1> HIDE DEF rows
<1>1. PICK m, n : m = Much(X, limit) /\ n = Cardinality(X)
  OBVIOUS
<1>2. n \in Nat /\ m \in Nat /\ m <= n /\ (limit = Absent \/ m <= limit)
      /\ \A x \in X : x \in ToSet(v) <=> Place(X, x) < m
  <2>1. n \in Nat
    BY <1>1, PlaceIs
  <2>2. m \in Nat /\ m <= n /\ (limit = Absent \/ m <= limit)
    BY <1>1, <2>1 DEF Much
  <2> QED
    BY <1>1, <2>1, <2>2, RankedAll DEF Firsts
<1>3. \A p \in P : Evs(part[p])
  BY <1>0, EvsIn
<1>4. rows \subseteq X
  <2>1. ASSUME NEW p \in P PROVE ToSet(got[p]) \subseteq X
    BY <1>0, <1>3, RankedAll DEF Firsts
  <2> QED
    BY <1>0, <2>1
<1>5. ASSUME NEW x \in ToSet(v) PROVE x \in rows
  <2>1. x \in X /\ Place(X, x) < m /\ Place(X, x) \in Nat
    <3>1. x \in X
      BY RankedAll DEF Firsts
    <3>2. Place(X, x) \in 0..(n - 1)
      BY <1>1, <3>1, PlaceIs
    <3> QED
      BY <1>2, <1>5, <3>1, <3>2
  <2>2. PICK p \in P : x \in part[p]
    BY <1>0, <2>1
  <2>3. PICK Y, w, k : Y = part[p] /\ w = got[p] /\ k = Cardinality(Y)
    OBVIOUS
  <2>4. Evs(Y) /\ Y \subseteq X /\ x \in Y /\ Ranked(Y, w, Much(Y, limit))
    BY <1>0, <1>3, <2>2, <2>3 DEF Firsts
  <2>5. Place(Y, x) <= Place(X, x)
    BY <2>4, PlaceUp
  <2>6. k \in Nat /\ Place(Y, x) \in 0..(k - 1)
    BY <2>3, <2>4, PlaceIs
  <2>7. Place(Y, x) < Much(Y, limit)
    BY <1>2, <2>1, <2>3, <2>5, <2>6 DEF Much
  <2>8. x \in ToSet(w)
    BY <2>4, <2>7, RankedAll
  <2> QED
    BY <1>0, <2>2, <2>3, <2>8
<1>6. Ranked(rows, v, m)
  <2>1. ToSet(v) \subseteq rows
    BY <1>5
  <2> HIDE DEF Ranked
  <2> QED
    BY <1>1, <1>4, <2>1, RankedIn DEF Firsts
<1>7. m = Much(rows, limit)
  <2>1. PICK k : k = Cardinality(rows)
    OBVIOUS
  <2>2. k \in Nat /\ k <= n /\ m <= k
    <3>1. Evs(rows)
      BY <1>4, EvsIn
    <3>2. k <= n
      BY <1>1, <1>4, <2>1, FS_Subset DEF Evs
    <3>3. k \in Nat
      BY <2>1, <3>1, PlaceIs
    <3>4. m <= k
      BY <1>6, <2>1, <3>1, RankedAll
    <3> QED
      BY <3>2, <3>3, <3>4
  <2> QED
    BY <1>1, <1>2, <2>1, <2>2 DEF Much
<1> QED
  BY <1>4, <1>5, <1>6, <1>7 DEF Firsts, rows

\* The chunks of a list are parts of it, and leave nothing of it out.
LEMMA ChunksAre ==
  ASSUME NEW some, IsFiniteSet(some)
  PROVE  /\ \A part \in Q!Chunks(some) : part \subseteq some
         /\ \A x \in some : \E part \in Q!Chunks(some) : x \in part
<1>1. PICK s, n, c : s = SetToSeq(some) /\ n = Len(s) /\ c = Chunk
  OBVIOUS
<1>2. s \in Seq(some) /\ n \in Nat /\ DOMAIN s = 1..n /\ \A x \in some : \E k \in 1..n : s[k] = x
  <2>1. PICK m \in Nat : m = Cardinality(some)
    BY FS_CardinalityType
  <2>2. PICK f : f \in Bijection(1..m, some)
    BY <2>1, FS_CardinalityType DEF ExistsBijection
  <2>3. f \in [1..m -> some] /\ IsInjective(f)
    BY <2>2 DEF Bijection, Injection
  <2>4. s \in [1..m -> some] /\ IsInjective(s)
    BY <1>1, <2>1, <2>3 DEF SetToSeq
  <2>5. s \in Injection(1..m, some)
    BY <2>4 DEF Injection
  <2>6. IsFiniteSet(1..m) /\ Cardinality(1..m) = m
    BY FS_Interval
  <2>7. s \in Surjection(1..m, some)
    BY <2>1, <2>5, <2>6, FS_Injection
  <2>8. s \in Seq(some) /\ n = m
    BY <1>1, <2>4
  <2> QED
    BY <2>4, <2>7, <2>8 DEF Surjection
<1>3. c \in Nat \ {0}
  BY <1>1, QueriesAssumption
<1>4. Q!Chunks(some) = {{s[k] : k \in DOMAIN s \cap j * c + 1..(j + 1) * c} :
                          j \in {i \in 0..n : i * c < n}}
  <2>1. Q!SetToSeq(some) = s
    BY <1>1, QueryNames
  <2> QED
    BY <1>1, <2>1 DEF Q!Chunks
<1>5. \A part \in Q!Chunks(some) : part \subseteq some
  BY <1>2, <1>4
<1>6. PICK Good : Good = {k \in 0..n : k # 0 => \E j \in 0..(k - 1) : j * c < k /\ k <= (j + 1) * c}
  OBVIOUS
<1>7. 0 \in Good
  BY <1>2, <1>6
<1>8. ASSUME NEW k \in 1..n, k - 1 \in Good PROVE k \in Good
  <2>1. CASE k = 1
    <3>1. 0 \in 0..(k - 1) /\ 0 * c = 0 /\ (0 + 1) * c = c
      BY <1>3, <2>1
    <3>2. 0 * c < k /\ k <= (0 + 1) * c
      BY <1>3, <2>1, <3>1
    <3> QED
      BY <1>2, <1>6, <3>1, <3>2
  <2>2. CASE k # 1
    <3>1. PICK j \in 0..((k - 1) - 1) : j * c < k - 1 /\ k - 1 <= (j + 1) * c
      BY <1>6, <1>8, <2>2
    <3>2. PICK a, b, d : a = j * c /\ b = (j + 1) * c /\ d = (j + 1 + 1) * c
      OBVIOUS
    <3>3. a \in Int /\ b \in Int /\ d \in Int /\ b = a + c /\ d = b + c /\ k \in Nat
      BY <1>3, <3>2
    <3>4. CASE k <= b
      <4>1. j \in 0..(k - 1) /\ j * c < k /\ k <= (j + 1) * c
        BY <3>1, <3>2, <3>3, <3>4
      <4> QED
        BY <1>2, <1>6, <4>1
    <3>5. CASE k > b
      <4>1. j + 1 \in 0..(k - 1) /\ b < k /\ k <= d
        BY <1>3, <3>1, <3>2, <3>3, <3>5
      <4>2. \E i \in 0..(k - 1) : i * c < k /\ k <= (i + 1) * c
        BY <3>2, <4>1
      <4> QED
        BY <1>2, <1>6, <4>2
    <3> QED
      BY <3>3, <3>4, <3>5
  <2> QED
    BY <2>1, <2>2
<1>9. 0..n \subseteq Good
  BY <1>2, <1>7, <1>8, UpToInduction
<1>10. ASSUME NEW x \in some PROVE \E part \in Q!Chunks(some) : x \in part
  <2>1. PICK k \in 1..n : s[k] = x
    BY <1>2
  <2>2. k \in 0..n /\ k # 0
    BY <1>2
  <2>3. PICK j \in 0..(k - 1) : j * c < k /\ k <= (j + 1) * c
    BY <1>6, <1>9, <2>2
  <2>4. PICK a, b : a = j * c /\ b = (j + 1) * c
    OBVIOUS
  <2>5. a \in Int /\ b \in Int
    BY <1>3, <2>4
  <2>6. k \in DOMAIN s \cap a + 1..b /\ j \in 0..n /\ a < n
    BY <1>2, <2>3, <2>4, <2>5
  <2>7. j \in {i \in 0..n : i * c < n} /\ x \in {s[i] : i \in DOMAIN s \cap j * c + 1..(j + 1) * c}
    BY <2>1, <2>4, <2>6
  <2> QED
    BY <1>4, <2>7
<1> QED
  BY <1>5, <1>10

LEMMA AllowsChunks ==
  ASSUME NEW some, Listed(some)
  PROVE  \A x : Q!Allows(some, x) <=> \E part \in Q!ChunksOf(some) : Q!Allows(part, x)
<1>1. CASE some = Absent
  BY <1>1 DEF Q!Allows, Q!ChunksOf
<1>2. CASE some # Absent
  <2>1. Q!ChunksOf(some) = Q!Chunks(some) /\ IsFiniteSet(some) /\ \A part \in SUBSET some : part # Absent
    BY <1>2 DEF Q!ChunksOf, Listed
  <2>2. \A part \in Q!Chunks(some) : part \subseteq some /\ part # Absent
    BY <2>1, ChunksAre
  <2>3. \A x \in some : \E part \in Q!Chunks(some) : x \in part
    BY <2>1, ChunksAre
  <2> QED
    BY <1>2, <2>1, <2>2, <2>3 DEF Q!Allows
<1> QED
  BY <1>1, <1>2

\* What the statements of SQLite find together: tag names that are not indexed
\* are not looked at.
Wide(f, ev) ==
  /\ Q!Allows(f.ids, ev.id) /\ Q!Allows(f.kinds, ev.kind) /\ Q!Allows(f.by, ev.by)
  /\ \A n \in Q!Indexed(f) : \E v \in f.tags[n] : <<n, v>> \in ev.tags
  /\ Q!InTime(f, ev)

LEMMA StatementIs ==
  ASSUME NEW f, NEW p \in Q!Plans(f)
  PROVE  /\ p.ids \in Q!ChunksOf(f.ids) /\ p.by \in Q!ChunksOf(f.by)
         /\ p.kinds \in Q!ChunksOf(f.kinds)
         /\ DOMAIN p.tags = Q!Indexed(f)
         /\ \A n \in Q!Indexed(f) : p.tags[n] \in Q!Chunks(f.tags[n])
         /\ \A ev : Q!InTime(p, ev) <=> Q!InTime(f, ev)
         /\ DOMAIN p = {"ids", "by", "kinds", "tags", "since", "until", "limit"}
         /\ p = [x \in DOMAIN p |-> p[x]]
<1>1. /\ p.ids \in Q!ChunksOf(f.ids) /\ p.by \in Q!ChunksOf(f.by)
      /\ p.kinds \in Q!ChunksOf(f.kinds)
      /\ p.tags \in {c \in [Q!Indexed(f) -> UNION {Q!Chunks(f.tags[n]) : n \in Q!Indexed(f)}] :
                       \A n \in Q!Indexed(f) : c[n] \in Q!Chunks(f.tags[n])}
      /\ p.since = f.since /\ p.until = f.until
      /\ DOMAIN p = {"ids", "by", "kinds", "tags", "since", "until", "limit"}
      /\ p = [x \in DOMAIN p |-> p[x]]
  BY DEF Q!Plans
<1>2. DOMAIN p.tags = Q!Indexed(f) /\ \A n \in Q!Indexed(f) : p.tags[n] \in Q!Chunks(f.tags[n])
  BY <1>1
<1>3. \A ev : Q!InTime(p, ev) <=> Q!InTime(f, ev)
  BY <1>1 DEF Q!InTime
<1> QED
  BY <1>1, <1>2, <1>3

LEMMA PlanFits ==
  ASSUME NEW f, Proper(f), NEW ev
  PROVE  /\ \A p \in Q!Plans(f) : Q!Match(p, ev) => Wide(f, ev)
         /\ Wide(f, ev) => \E p \in Q!Plans(f) : Q!Match(p, ev)
<1>1. \A n \in Q!Indexed(f) : IsFiniteSet(f.tags[n])
  BY DEF Proper, Q!Indexed
<1>2. /\ \A x : Q!Allows(f.ids, x) <=> \E part \in Q!ChunksOf(f.ids) : Q!Allows(part, x)
      /\ \A x : Q!Allows(f.by, x) <=> \E part \in Q!ChunksOf(f.by) : Q!Allows(part, x)
      /\ \A x : Q!Allows(f.kinds, x) <=> \E part \in Q!ChunksOf(f.kinds) : Q!Allows(part, x)
  BY AllowsChunks DEF Proper
<1>3. ASSUME NEW p \in Q!Plans(f), Q!Match(p, ev) PROVE Wide(f, ev)
  <2>1. Q!Allows(f.ids, ev.id) /\ Q!Allows(f.kinds, ev.kind) /\ Q!Allows(f.by, ev.by)
    BY <1>2, <1>3, StatementIs DEF Q!Match
  <2>2. Q!InTime(f, ev)
    BY <1>3, StatementIs DEF Q!Match
  <2>3. ASSUME NEW n \in Q!Indexed(f) PROVE \E v \in f.tags[n] : <<n, v>> \in ev.tags
    <3>1. n \in DOMAIN p.tags /\ p.tags[n] \in Q!Chunks(f.tags[n])
      BY StatementIs
    <3>2. PICK v \in p.tags[n] : <<n, v>> \in ev.tags
      BY <1>3, <3>1 DEF Q!Match
    <3>3. v \in f.tags[n]
      BY <1>1, <3>1, <3>2, ChunksAre
    <3> QED
      BY <3>2, <3>3
  <2> QED
    BY <2>1, <2>2, <2>3 DEF Wide
<1>4. ASSUME Wide(f, ev) PROVE \E p \in Q!Plans(f) : Q!Match(p, ev)
  <2>1. PICK i \in Q!ChunksOf(f.ids), b \in Q!ChunksOf(f.by), k \in Q!ChunksOf(f.kinds) :
          Q!Allows(i, ev.id) /\ Q!Allows(b, ev.by) /\ Q!Allows(k, ev.kind)
    BY <1>2, <1>4 DEF Wide
  <2>2. PICK c : c = [n \in Q!Indexed(f) |->
                        CHOOSE part \in Q!Chunks(f.tags[n]) : \E v \in part : <<n, v>> \in ev.tags]
    OBVIOUS
  <2>3. ASSUME NEW n \in Q!Indexed(f)
        PROVE  c[n] \in Q!Chunks(f.tags[n]) /\ \E v \in c[n] : <<n, v>> \in ev.tags
    <3>1. PICK v \in f.tags[n] : <<n, v>> \in ev.tags
      BY <1>4 DEF Wide
    <3>2. PICK part \in Q!Chunks(f.tags[n]) : v \in part
      BY <1>1, ChunksAre
    <3> QED
      BY <2>2, <3>1, <3>2
  <2>4. PICK p : p = [ids |-> i, by |-> b, kinds |-> k, tags |-> c, since |-> f.since,
                      until |-> f.until, limit |-> f.limit]
    OBVIOUS
  <2>5. c \in {d \in [Q!Indexed(f) -> UNION {Q!Chunks(f.tags[n]) : n \in Q!Indexed(f)}] :
                 \A n \in Q!Indexed(f) : d[n] \in Q!Chunks(f.tags[n])}
    <3>1. c \in [Q!Indexed(f) -> UNION {Q!Chunks(f.tags[n]) : n \in Q!Indexed(f)}]
      <4>1. \A n \in Q!Indexed(f) : c[n] \in UNION {Q!Chunks(f.tags[j]) : j \in Q!Indexed(f)}
        BY <2>3
      <4> QED
        BY <2>2, <4>1
    <3> QED
      BY <2>3, <3>1
  <2>6. p \in Q!Plans(f)
    BY <2>4, <2>5 DEF Q!Plans
  <2>7. Q!InTime(p, ev)
    BY <1>4, <2>4 DEF Wide, Q!InTime
  <2>8. DOMAIN c = Q!Indexed(f)
    BY <2>2
  <2>9. Q!Match(p, ev)
    BY <2>1, <2>3, <2>4, <2>7, <2>8 DEF Q!Match
  <2> QED
    BY <2>6, <2>9
<1> QED
  BY <1>3, <1>4

LEMMA SqlIs ==
  ASSUME NEW f, Proper(f), NEW evs, Evs(evs)
  PROVE  Q!SqlQuery(f, evs) = Q!Answer(f, evs)
<1>1. PICK X, limit, part, got, rows, P :
        /\ P = Q!Plans(f) /\ X = {ev \in evs : Wide(f, ev)} /\ limit = Q!PushedLimit(f)
        /\ part = [p \in Q!Plans(f) |-> Fit(p, evs)]
        /\ got = [p \in Q!Plans(f) |-> Q!Answer([p EXCEPT !.limit = Q!PushedLimit(f)], evs)]
        /\ rows = Together(P, got)
  OBVIOUS
<1>2. f.limit \in Nat \cup {Absent} /\ limit \in Nat \cup {Absent}
  BY <1>1 DEF Proper, Q!PushedLimit
<1>3. Evs(X)
  <2>1. X \subseteq evs
    BY <1>1
  <2> QED
    BY <2>1, EvsIn
<1>4. ASSUME NEW p \in Q!Plans(f) PROVE part[p] \subseteq X /\ Firsts(part[p], limit, got[p])
  <2>1. PICK q, Y : q = [p EXCEPT !.limit = limit] /\ Y = Fit(p, evs)
    OBVIOUS
  <2>2. /\ q.limit = limit /\ q.ids = p.ids /\ q.by = p.by /\ q.kinds = p.kinds /\ q.tags = p.tags
        /\ q.since = p.since /\ q.until = p.until
    <3>1. "limit" \in DOMAIN p /\ p = [x \in DOMAIN p |-> p[x]]
      BY StatementIs
    <3> QED
      BY <2>1, <3>1
  <2>3. \A ev : Q!Match(q, ev) <=> Q!Match(p, ev)
    BY <2>2 DEF Q!Match, Q!InTime
  <2>4. Y = Fit(q, evs) /\ part[p] = Y /\ got[p] = Q!Answer(q, evs)
    BY <1>1, <2>1, <2>3 DEF Fit
  <2>5. Firsts(Y, q.limit, Q!Answer(q, evs))
    BY <1>2, <2>2, <2>4, AnswerIs
  <2>6. Y \subseteq X
    BY <1>1, <2>1, PlanFits DEF Fit
  <2> QED
    BY <2>2, <2>4, <2>5, <2>6
<1>5. ASSUME NEW x \in X PROVE \E p \in Q!Plans(f) : x \in part[p]
  BY <1>1, PlanFits DEF Fit
<1>6. ASSUME NEW v, Firsts(X, limit, v)
      PROVE  rows \subseteq X /\ ToSet(v) \subseteq rows /\ Firsts(rows, limit, v)
  <2>1. Gathers(X, limit, P, part, got)
    BY <1>1, <1>4, <1>5 DEF Gathers
  <2> QED
    BY <1>1, <1>2, <1>3, <1>6, <2>1, RowsFirst
<1>7. PICK w : w = Q!Answer(f, evs) /\ Firsts(Fit(f, evs), f.limit, w)
  BY <1>2, AnswerIs
<1>8. Fit(f, evs) \subseteq evs /\ Evs(Fit(f, evs))
  <2>1. Fit(f, evs) \subseteq evs
    BY DEF Fit
  <2> QED
    BY <2>1, EvsIn
<1>9. rows = UNION {ToSet(Q!Answer([p EXCEPT !.limit = Q!PushedLimit(f)], evs)) : p \in Q!Plans(f)}
  BY <1>1 DEF Together
<1>10. Q!SqlQuery(f, evs) =
         IF f.limit = 0 THEN <<>>
         ELSE Q!First(Q!Sorted(IF Q!Deferred(f) THEN {ev \in rows : Q!Match(f, ev)} ELSE rows), f.limit)
  <2>1. rows = UNION {Q!ToSet(Q!Answer([p EXCEPT !.limit = Q!PushedLimit(f)], evs)) : p \in Q!Plans(f)}
    <3>1. \A s : Q!ToSet(s) = ToSet(s)
      BY QueryNames
    <3> QED
      BY <1>9, <3>1
  <2> QED
    BY <2>1 DEF Q!SqlQuery
<1>11. CASE f.limit = 0
  <2>1. w = <<>>
    BY <1>2, <1>7, <1>8, <1>11, NoneIs
  <2> QED
    BY <1>7, <1>10, <1>11, <2>1
<1>12. CASE f.limit # 0 /\ Q!Deferred(f)
  <2>1. limit = Absent
    BY <1>1, <1>12 DEF Q!PushedLimit
  <2>2. PICK v : v = Q!First(Q!Sorted(X), limit) /\ Firsts(X, limit, v)
    BY <1>2, <1>3, SortedFirst
  <2>3. rows \subseteq X /\ ToSet(v) \subseteq rows
    BY <1>6, <2>2
  <2>4. X \subseteq ToSet(v)
    <3>1. Ranked(X, v, Cardinality(X))
      BY <2>1, <2>2 DEF Firsts, Much
    <3>2. PICK n : n = Cardinality(X)
      OBVIOUS
    <3>3. \A x \in X : (x \in ToSet(v) <=> Place(X, x) < n) /\ Place(X, x) \in 0..(n - 1) /\ n \in Nat
      BY <1>3, <3>1, <3>2, RankedAll, PlaceIs
    <3> QED
      BY <3>3
  <2>5. \A ev : Q!Match(f, ev) => Wide(f, ev)
    BY DEF Q!Match, Wide, Q!Indexed
  <2>6. {ev \in rows : Q!Match(f, ev)} = Fit(f, evs)
    BY <1>1, <2>3, <2>4, <2>5 DEF Fit
  <2>7. Q!SqlQuery(f, evs) = Q!First(Q!Sorted(Fit(f, evs)), f.limit)
    BY <1>10, <1>12, <2>6
  <2> QED
    BY <2>7 DEF Q!Answer, Fit
<1>13. CASE f.limit # 0 /\ ~Q!Deferred(f)
  <2>1. limit = f.limit
    BY <1>1, <1>13 DEF Q!PushedLimit
  <2>2. \A ev : Q!Match(f, ev) <=> Wide(f, ev)
    BY <1>13 DEF Q!Match, Wide, Q!Indexed, Q!Deferred
  <2>3. X = Fit(f, evs)
    BY <1>1, <2>2 DEF Fit
  <2>4. rows \subseteq X /\ Firsts(rows, limit, w)
    BY <1>6, <1>7, <2>1, <2>3
  <2>5. Evs(rows)
    BY <1>3, <2>4, EvsIn
  <2>6. PICK u : u = Q!First(Q!Sorted(rows), limit) /\ Firsts(rows, limit, u)
    BY <1>2, <2>5, SortedFirst
  <2>7. u = w
    BY <2>4, <2>5, <2>6, FirstsOne
  <2> QED
    BY <1>7, <1>10, <1>13, <2>1, <2>6, <2>7
<1> QED
  BY <1>11, <1>12, <1>13

-----------------------------------------------------------------------------
(* The scan.                                                                 *)

\* A finite ordered set has a first element; so a finite set of seconds a last.
LEMMA Foremost ==
  ASSUME NEW X, IsFiniteSet(X), NEW R, Orders(R, X)
  PROVE  X # {} => \E x \in X : \A y \in X : <<y, x>> \notin R
<1>1. \A m \in 0..(Cardinality(X) - 1) : \E x \in X : PlaceIn(R, X, x) = m
  BY PlacesAre
<1>2. \A x, y \in X : <<x, y>> \in R <=> PlaceIn(R, X, x) < PlaceIn(R, X, y)
  BY PlacesAre
<1>3. \A x \in X : PlaceIn(R, X, x) \in 0..(Cardinality(X) - 1)
  BY PlacesAre
<1>4. ASSUME X # {} PROVE \E x \in X : \A y \in X : <<y, x>> \notin R
  <2>1. Cardinality(X) \in Nat /\ Cardinality(X) # 0
    BY <1>4, FS_CardinalityType, FS_EmptySet
  <2>2. PICK x \in X : PlaceIn(R, X, x) = 0
    BY <1>1, <2>1
  <2>3. \A y \in X : ~(PlaceIn(R, X, y) < 0)
    BY <1>3, <2>1
  <2> QED
    BY <1>2, <2>2, <2>3
<1> QED
  BY <1>4

LEMMA MaxIs ==
  ASSUME NEW T, IsFiniteSet(T), T \subseteq Nat, T # {}
  PROVE  Q!Max(T) \in T /\ \A y \in T : y <= Q!Max(T)
<1>1. PICK R : R = {p \in T \X T : p[1] > p[2]}
  OBVIOUS
<1>2. \A x, y \in T : <<x, y>> \in R <=> x > y
  BY <1>1
<1>3. Orders(R, T)
  BY <1>2 DEF Orders
<1>4. \E x \in T : \A y \in T : <<y, x>> \notin R
  BY <1>3, Foremost
<1>5. \E x \in T : \A y \in T : x >= y
  <2>1. PICK x \in T : \A y \in T : <<y, x>> \notin R
    BY <1>4
  <2>2. ASSUME NEW y \in T PROVE x >= y
    <3>1. ~(y > x) /\ x \in Nat /\ y \in Nat
      BY <1>2, <2>1
    <3> QED
      BY <3>1
  <2> QED
    BY <2>2
<1>6. Q!Max(T) \in T /\ \A y \in T : Q!Max(T) >= y
  BY <1>5, Zenon DEF Q!Max
<1> QED
  BY <1>6

\* The cursors of a scan: one with a request in flight offers nothing, one
\* without offers an event or has ended, and each goes backwards in time.
Walked(f, evs, hd, req, rs) ==
  /\ hd \in [Q!Open(f) -> evs \cup {Absent}]
  /\ req \in [Q!Open(f) -> {"none", "cursor", "get"}]
  /\ rs \in [Q!Open(f) -> Seq(evs)]
  /\ \A c \in Q!Open(f) :
       /\ req[c] # "none" => hd[c] = Absent
       /\ req[c] = "get" => rs[c] # <<>>
       /\ req[c] = "none" /\ hd[c] = Absent => rs[c] = <<>>
       /\ \A i, j \in 1..Len(rs[c]) : i < j => rs[c][j].at <= rs[c][i].at
       /\ hd[c] # Absent => \A i \in 1..Len(rs[c]) : rs[c][i].at <= hd[c].at

\* An event that some cursor offers or has not delivered yet.
Comes(f, hd, rs, ev) == \E c \in Q!Open(f) : hd[c] = ev \/ ev \in ToSet(rs[c])
Newer(f, evs, t) == {ev \in Fit(f, evs) : ev.at > t}
Filled(f, v) == f.limit # Absent /\ Len(v) >= f.limit

\* While a second is drained all newer events are taken, those of the second
\* are in the buffer or to come, and older ones are to come.
Drained(f, evs, t, buf, hd, rs, v) ==
  /\ t \in Nat /\ buf \subseteq {ev \in evs : ev.at = t}
  /\ \A c \in Q!Open(f) : /\ hd[c] # Absent => hd[c].at < t
                          /\ \A i \in 1..Len(rs[c]) : rs[c][i].at <= t
  /\ \A ev \in Fit(f, evs) : ev.at <= t => Comes(f, hd, rs, ev) \/ (ev.at = t /\ ev \in buf)
  /\ Ranked(Newer(f, evs, t), v, Cardinality(Newer(f, evs, t)))
  /\ ~Filled(f, v)
Merged(f, evs, hd, rs, v) == v = <<>> /\ \A ev \in Fit(f, evs) : Comes(f, hd, rs, ev)

\* Once the answers are in: X is what has been decided about, all else comes
\* later and is older.
Reached(f, evs, X, hd, rs, w) ==
  /\ X \subseteq Fit(f, evs)
  /\ \A ev \in Fit(f, evs) : ev \in X \/ Comes(f, hd, rs, ev)
  /\ \A x \in X : \A ev \in evs : Comes(f, hd, rs, ev) => ev.at < x.at
  /\ Firsts(X, f.limit, w)

LEMMA FitEvs ==
  ASSUME NEW f, NEW evs, Evs(evs), NEW X, X \subseteq Fit(f, evs)
  PROVE  Evs(X) /\ X \subseteq evs /\ IsFiniteSet(X)
<1>1. X \subseteq evs
  BY DEF Fit
<1> QED
  BY <1>1, EvsIn DEF Evs

LEMMA EmptyFirsts ==
  ASSUME NEW limit, limit \in Nat \cup {Absent}
  PROVE  Evs({}) /\ Firsts({}, limit, <<>>)
<1>1. IsFiniteSet({}) /\ Cardinality({}) = 0
  BY FS_EmptySet
<1>2. Much({}, limit) = 0
  BY <1>1 DEF Much
<1>3. <<>> \in Seq({}) /\ Len(<<>>) = 0
  OBVIOUS
<1> QED
  BY <1>1, <1>2, <1>3 DEF Evs, Firsts, Ranked

\* Once no request is in flight, the second is complete.
LEMMA MergeReaches ==
  ASSUME NEW f, Proper(f), NEW evs, Evs(evs), NEW hd, NEW rs, NEW v, Merged(f, evs, hd, rs, v)
  PROVE  Reached(f, evs, {}, hd, rs, v)
<1>1. Firsts({}, f.limit, <<>>)
  BY EmptyFirsts DEF Proper
<1> QED
  BY <1>1 DEF Merged, Reached

LEMMA DrainReaches ==
  ASSUME NEW f, Proper(f), NEW evs, Evs(evs), Absent \notin evs, NEW hd, NEW req, NEW rs,
         Walked(f, evs, hd, req, rs), NEW t, NEW buf, NEW v, Drained(f, evs, t, buf, hd, rs, v),
         \A c \in Q!Open(f) : req[c] = "none",
         NEW w, w = Q!First(v \o Q!Sorted({ev \in buf \ Q!ToSet(v) : Q!Match(f, ev)}), f.limit)
  PROVE  \E X : Reached(f, evs, X, hd, rs, w)
<1>1. PICK Y, Z, X : /\ Y = Newer(f, evs, t) /\ Z = {ev \in Fit(f, evs) : ev.at = t}
                     /\ X = {ev \in Fit(f, evs) : ev.at >= t}
  OBVIOUS
<1>2. /\ t \in Nat /\ buf \subseteq {ev \in evs : ev.at = t}
      /\ \A c \in Q!Open(f) : /\ hd[c] # Absent => hd[c].at < t
                              /\ \A i \in 1..Len(rs[c]) : rs[c][i].at <= t
      /\ \A ev \in Fit(f, evs) : ev.at <= t => Comes(f, hd, rs, ev) \/ (ev.at = t /\ ev \in buf)
      /\ Ranked(Y, v, Cardinality(Y)) /\ \A ev \in evs : ev.at \in Nat
  BY <1>1 DEF Drained, Evs
<1>3. ASSUME NEW ev \in evs, Comes(f, hd, rs, ev) PROVE ev.at < t
  <2>1. PICK c \in Q!Open(f) : hd[c] = ev \/ ev \in ToSet(rs[c])
    BY <1>3 DEF Comes
  <2>2. CASE hd[c] = ev
    BY <1>2, <2>2
  <2>3. CASE hd[c] # ev
    <3>1. PICK s : s = rs[c]
      OBVIOUS
    <3>2. s \in Seq(evs) /\ s # <<>> /\ \A i \in 1..Len(s) : s[i].at <= hd[c].at
      BY <2>1, <2>3, <3>1 DEF Walked, ToSet
    <3>3. PICK i \in 1..Len(s) : s[i] = ev
      BY <2>1, <2>3, <3>1, <3>2 DEF ToSet
    <3>4. hd[c] \in evs /\ hd[c].at < t
      BY <1>2, <3>1, <3>2 DEF Walked
    <3> QED
      BY <1>2, <3>2, <3>3, <3>4
  <2> QED
    BY <2>2, <2>3
<1>4. /\ Evs(Y) /\ Evs(Z) /\ Evs(X) /\ X = Y \cup Z
  <2>1. Y \subseteq Fit(f, evs) /\ Z \subseteq Fit(f, evs) /\ X \subseteq Fit(f, evs)
    BY <1>1 DEF Newer
  <2>2. \A ev \in Fit(f, evs) : ev.at \in Nat
    BY <1>2 DEF Fit
  <2>3. X = Y \cup Z
    BY <1>1, <1>2, <2>2 DEF Newer
  <2> QED
    BY <2>1, <2>3, FitEvs
<1>5. {ev \in buf \ Q!ToSet(v) : Q!Match(f, ev)} = Z
  <2>1. Q!ToSet(v) = ToSet(v) /\ ToSet(v) \subseteq Y
    BY <1>2, <1>4, QueryNames, RankedAll
  <2>2. \A ev \in Y : ev.at \in Nat /\ ev.at > t
    BY <1>1, <1>2 DEF Newer, Fit
  <2>3. \A ev \in Z : ev \in buf
    <3> TAKE ev \in Z
    <3>1. ev \in Fit(f, evs) /\ ev \in evs /\ ev.at = t
      BY <1>1 DEF Fit
    <3>2. ~Comes(f, hd, rs, ev)
      BY <1>2, <1>3, <3>1
    <3> QED
      BY <1>2, <3>1, <3>2
  <2>4. Z = {ev \in buf : Q!Match(f, ev)}
    BY <1>1, <1>2, <2>3 DEF Fit
  <2>5. \A ev \in buf : ev \notin ToSet(v)
    BY <1>2, <2>1, <2>2
  <2> QED
    BY <2>1, <2>4, <2>5
<1>6. PICK z, u : z = Q!Sorted(Z) /\ u = v \o z
  OBVIOUS
<1>7. Ranked(Z, z, Cardinality(Z))
  BY <1>4, <1>6, SortedIs
<1>8. \A y \in Y, x \in Z : Q!Before(y, x)
  BY <1>1, <1>2 DEF Newer, Fit, Q!Before
<1>9. Ranked(X, u, Cardinality(X))
  BY <1>2, <1>4, <1>6, <1>7, <1>8, RankedJoin
<1>10. Firsts(X, f.limit, w)
  <2>1. w = Q!First(u, f.limit)
    BY <1>5, <1>6
  <2>2. f.limit \in Nat \cup {Absent}
    BY DEF Proper
  <2>3. Ranked(X, w, Much(X, f.limit))
    BY <1>4, <1>9, <2>1, <2>2, FirstIs
  <2> QED
    BY <2>3 DEF Firsts
<1>11. \A ev \in Fit(f, evs) : ev \in X \/ Comes(f, hd, rs, ev)
  <2> TAKE ev \in Fit(f, evs)
  <2>1. ev.at \in Nat
    BY <1>2 DEF Fit
  <2> QED
    BY <1>1, <1>2, <2>1
<1>12. \A x \in X : \A ev \in evs : Comes(f, hd, rs, ev) => ev.at < x.at
  <2> TAKE x \in X
  <2> TAKE ev \in evs
  <2>1. x.at \in Nat /\ ev.at \in Nat /\ x.at >= t
    BY <1>1, <1>2 DEF Fit
  <2> QED
    BY <1>2, <1>3, <2>1
<1>13. X \subseteq Fit(f, evs)
  BY <1>1
<1> QED
  BY <1>10, <1>11, <1>12, <1>13 DEF Reached

\* What has been taken begins the answer.
LEMMA ReachedUp ==
  ASSUME NEW f, Proper(f), NEW evs, Evs(evs), NEW X, NEW hd, NEW rs, NEW w,
         Reached(f, evs, X, hd, rs, w), NEW m, NEW v, Ranked(X, v, m)
  PROVE  Ranked(Fit(f, evs), v, m)
<1>1. PICK all : all = Fit(f, evs)
  OBVIOUS
<1>2. Evs(all) /\ X \subseteq all
  BY <1>1, FitEvs DEF Reached
<1>3. ASSUME NEW x \in X, NEW y \in all, Q!Before(y, x) PROVE y \in X
  <2>1. y \in evs /\ x \in evs /\ y.at \in Nat /\ x.at \in Nat
    BY <1>1, <1>2 DEF Fit, Evs
  <2>2. ~(y.at < x.at)
    BY <1>3, <2>1 DEF Q!Before
  <2> QED
    BY <1>1, <2>1, <2>2 DEF Reached
<1>4. Ranked(all, v, m)
  BY <1>2, <1>3, RankedOut
<1> QED
  BY <1>1, <1>4

\* A scan that stops has the answer.
LEMMA StopsExact ==
  ASSUME NEW f, Proper(f), NEW evs, Evs(evs), Absent \notin evs, NEW hd, NEW req, NEW rs,
         Walked(f, evs, hd, req, rs), \A c \in Q!Open(f) : req[c] = "none",
         NEW X, NEW w, Reached(f, evs, X, hd, rs, w),
         Filled(f, w) \/ \A c \in Q!Open(f) : hd[c] = Absent
  PROVE  w = Q!Answer(f, evs)
<1>1. PICK all, limit, n, m, k : /\ all = Fit(f, evs) /\ limit = f.limit /\ n = Cardinality(all)
                                 /\ m = Cardinality(X) /\ k = Much(X, limit)
  OBVIOUS
<1>2. Evs(all) /\ Evs(X) /\ X \subseteq all /\ limit \in Nat \cup {Absent} /\ Ranked(X, w, k)
  BY <1>1, FitEvs DEF Reached, Firsts, Proper
<1>3. Ranked(all, w, k)
  BY <1>1, <1>2, ReachedUp
<1>4. n \in Nat /\ m \in Nat /\ m <= n
  <2>1. m <= n
    BY <1>1, <1>2, FS_Subset DEF Evs
  <2> QED
    BY <1>1, <1>2, <2>1, PlaceIs
<1>5. k = Much(all, limit)
  <2>1. CASE Filled(f, w)
    <3>1. limit \in Nat /\ limit # Absent /\ k >= limit
      BY <1>1, <1>2, <2>1 DEF Filled, Ranked
    <3>2. k = limit /\ limit <= m
      BY <1>1, <1>4, <3>1 DEF Much
    <3> QED
      BY <1>1, <1>4, <3>1, <3>2 DEF Much
  <2>2. CASE \A c \in Q!Open(f) : hd[c] = Absent
    <3>1. ASSUME NEW ev \in all PROVE ev \in X
      <4>1. ev # Absent /\ ev \in Fit(f, evs)
        BY <1>1 DEF Fit
      <4>2. \A c \in Q!Open(f) : ev # hd[c] /\ ev \notin ToSet(rs[c])
        BY <2>2, <4>1 DEF Walked, ToSet
      <4>3. ~Comes(f, hd, rs, ev)
        BY <4>2 DEF Comes
      <4> QED
        BY <4>1, <4>3 DEF Reached
    <3>2. X = all
      BY <1>2, <3>1
    <3> QED
      BY <1>1, <3>2
  <2> QED
    BY <2>1, <2>2
<1>6. PICK a : a = Q!Answer(f, evs) /\ Firsts(all, limit, a)
  BY <1>1, <1>2, AnswerIs
<1>7. Ranked(all, a, k)
  BY <1>5, <1>6 DEF Firsts
<1>8. w = a
  BY <1>2, <1>3, <1>7, RankedOne
<1> QED
  BY <1>6, <1>8

LEMMA BeginsExact ==
  ASSUME NEW f, Proper(f), NEW evs, Evs(evs), NEW X, NEW hd, NEW rs, NEW w,
         Reached(f, evs, X, hd, rs, w)
  PROVE  Q!IsPrefix(w, Q!Answer(f, evs))
<1>1. PICK all, limit, n, m, k, j, a :
        /\ all = Fit(f, evs) /\ limit = f.limit /\ n = Cardinality(all)
        /\ m = Cardinality(X) /\ k = Much(X, limit) /\ j = Much(all, limit) /\ a = Q!Answer(f, evs)
  OBVIOUS
<1>2. Evs(all) /\ Evs(X) /\ X \subseteq all /\ limit \in Nat \cup {Absent} /\ Ranked(X, w, k)
  BY <1>1, FitEvs DEF Reached, Firsts, Proper
<1>3. Ranked(all, w, k)
  BY <1>1, <1>2, ReachedUp
<1>4. n \in Nat /\ m \in Nat /\ m <= n
  <2>1. m <= n
    BY <1>1, <1>2, FS_Subset DEF Evs
  <2> QED
    BY <1>1, <1>2, <2>1, PlaceIs
<1>5. k \in Nat /\ j \in Nat /\ k <= j
  BY <1>1, <1>2, <1>4 DEF Much
<1>6. Ranked(all, a, j)
  BY <1>1, <1>2, AnswerIs DEF Firsts
<1>7. ASSUME NEW i \in 1..k PROVE w[i] = a[i]
  <2>1. i \in 1..j
    BY <1>5
  <2>2. w[i] \in all /\ a[i] \in all /\ Place(all, w[i]) = i - 1 /\ Place(all, a[i]) = i - 1
    BY <1>3, <1>5, <1>6, <2>1 DEF Ranked
  <2> QED
    BY <1>2, <2>2, PlaceIs
<1>8. w \in Seq(all) /\ a \in Seq(all) /\ Len(w) = k /\ Len(a) = j
  BY <1>3, <1>6 DEF Ranked
<1>9. SubSeq(w, 1, Len(w)) = SubSeq(a, 1, Len(w))
  BY <1>5, <1>7, <1>8
<1> QED
  BY <1>1, <1>5, <1>8, <1>9 DEF Q!IsPrefix

\* The next second: what is newer has been decided about, and every cursor that
\* offers one of its events goes on.
LEMMA NextDrained ==
  ASSUME NEW f, Proper(f), NEW evs, Evs(evs), Absent \notin evs, NEW hd, NEW req, NEW rs,
         Walked(f, evs, hd, req, rs), \A c \in Q!Open(f) : req[c] = "none",
         NEW X, NEW w, Reached(f, evs, X, hd, rs, w),
         ~Filled(f, w), ~\A c \in Q!Open(f) : hd[c] = Absent,
         NEW t, t = Q!NextSecond(hd), NEW buf, buf = {hd[c] : c \in Q!Offers(hd, t)},
         NEW hd1, hd1 = [c \in DOMAIN hd |-> IF c \in Q!Offers(hd, t) THEN Absent ELSE hd[c]],
         NEW req1, req1 = [c \in DOMAIN hd |-> IF c \in Q!Offers(hd, t) THEN "cursor" ELSE req[c]]
  PROVE  /\ Drained(f, evs, t, buf, hd1, rs, w)
         /\ Walked(f, evs, hd1, req1, rs)
         /\ \E c \in DOMAIN req1 : req1[c] # "none"
<1>1. PICK O, T : O = Q!Open(f) /\ T = {hd[c].at : c \in {k \in DOMAIN hd : hd[k] # Absent}}
  OBVIOUS
<1>2. /\ DOMAIN hd = O /\ \A c \in O : hd[c] \in evs \cup {Absent} /\ req[c] = "none" /\ rs[c] \in Seq(evs)
      /\ \A c \in O : hd[c] = Absent => rs[c] = <<>>
      /\ \A c \in O : \A i, j \in 1..Len(rs[c]) : i < j => rs[c][j].at <= rs[c][i].at
      /\ \A c \in O : hd[c] # Absent => \A i \in 1..Len(rs[c]) : rs[c][i].at <= hd[c].at
      /\ rs \in [O -> Seq(evs)]
  BY <1>1 DEF Walked
<1>3. \A ev \in evs : ev.at \in Nat /\ ev # Absent
  BY DEF Evs
<1>4. t \in T /\ t \in Nat /\ \A y \in T : y <= t
  <2>1. PICK ats : ats = {ev.at : ev \in evs}
    OBVIOUS
  <2>2. IsFiniteSet(ats)
    <3>1. PICK g : g = [ev \in evs |-> ev.at]
      OBVIOUS
    <3>2. g \in Surjection(evs, ats)
      BY <2>1, <3>1 DEF Surjection
    <3> QED
      BY <3>2, FS_Surjection DEF Evs
  <2>3. T \subseteq ats /\ T \subseteq Nat
    BY <1>1, <1>2, <1>3, <2>1
  <2>4. T # {}
    BY <1>1, <1>2
  <2>5. IsFiniteSet(T)
    BY <2>2, <2>3, FS_Subset
  <2>6. t = Q!Max(T)
    BY <1>1 DEF Q!NextSecond
  <2> QED
    BY <2>3, <2>4, <2>5, <2>6, MaxIs
<1>5. Q!Offers(hd, t) = {c \in O : hd[c] # Absent /\ hd[c].at = t}
  BY <1>2 DEF Q!Offers
<1>6. PICK c1 \in O : hd[c1] # Absent /\ hd[c1].at = t
  BY <1>1, <1>2, <1>4
<1>7. \A c \in O : hd[c] # Absent => hd[c].at \in Nat /\ hd[c].at <= t
  BY <1>1, <1>2, <1>3, <1>4
<1>8. \A c \in O : /\ hd[c] # Absent /\ hd[c].at # t => hd1[c] = hd[c] /\ req1[c] = "none"
                   /\ hd[c] # Absent /\ hd[c].at = t => hd1[c] = Absent /\ req1[c] = "cursor"
                   /\ hd[c] = Absent => hd1[c] = Absent /\ req1[c] = "none"
  BY <1>2, <1>5
<1>9. DOMAIN hd1 = O /\ DOMAIN req1 = O /\ hd1 = [c \in O |-> hd1[c]] /\ req1 = [c \in O |-> req1[c]]
  BY <1>2
<1> USE QueriesAssumption
<1>10. Walked(f, evs, hd1, req1, rs)
  <2>1. hd1 \in [O -> evs \cup {Absent}] /\ req1 \in [O -> {"none", "cursor", "get"}]
    BY <1>2, <1>8, <1>9
  <2>2. ASSUME NEW c \in O
        PROVE  /\ req1[c] # "none" => hd1[c] = Absent
               /\ req1[c] = "get" => rs[c] # <<>>
               /\ req1[c] = "none" /\ hd1[c] = Absent => rs[c] = <<>>
               /\ hd1[c] # Absent => \A i \in 1..Len(rs[c]) : rs[c][i].at <= hd1[c].at
    BY <1>2, <1>8, <1>3
  <2> QED
    BY <1>1, <1>2, <2>1, <2>2 DEF Walked
<1>11. \A c \in O : hd1[c] # Absent => hd1[c].at < t
  BY <1>3, <1>4, <1>7, <1>8
<1>12. \A c \in O : \A i \in 1..Len(rs[c]) : rs[c][i].at <= t
  <2> TAKE c \in O
  <2> TAKE i \in 1..Len(rs[c])
  <2>1. PICK s : s = rs[c]
    OBVIOUS
  <2>2. s \in Seq(evs) /\ i \in 1..Len(s) /\ s # <<>> /\ s[i].at \in Nat
    BY <1>2, <1>3, <2>1
  <2>3. hd[c] # Absent /\ s[i].at <= hd[c].at
    BY <1>2, <2>1, <2>2
  <2>4. hd[c].at \in Nat /\ hd[c].at <= t
    BY <1>7, <2>3
  <2> QED
    BY <1>4, <2>1, <2>2, <2>3, <2>4
<1>13. buf \subseteq {ev \in evs : ev.at = t}
  BY <1>2, <1>5
<1>14. ASSUME NEW ev \in evs, Comes(f, hd, rs, ev)
       PROVE  ev.at <= t /\ (Comes(f, hd1, rs, ev) \/ (ev.at = t /\ ev \in buf))
  <2>1. PICK c \in O : hd[c] = ev \/ ev \in ToSet(rs[c])
    BY <1>1, <1>14 DEF Comes
  <2>2. CASE hd[c] = ev
    <3>1. ev # Absent /\ ev.at <= t
      BY <1>3, <1>7, <2>2
    <3>2. CASE ev.at = t
      BY <1>5, <2>2, <3>1, <3>2
    <3>3. CASE ev.at # t
      <4>1. hd1[c] = ev
        BY <1>8, <2>2, <3>1, <3>3
      <4> QED
        BY <1>1, <3>1, <4>1 DEF Comes
    <3> QED
      BY <3>2, <3>3
  <2>3. CASE ev \in ToSet(rs[c])
    <3>1. PICK s : s = rs[c]
      OBVIOUS
    <3>2. s \in Seq(evs) /\ \E i \in 1..Len(s) : s[i] = ev
      BY <1>2, <2>3, <3>1 DEF ToSet
    <3>3. ev.at <= t
      BY <1>12, <3>1, <3>2
    <3> QED
      BY <1>1, <2>3, <3>3 DEF Comes
  <2> QED
    BY <2>1, <2>2, <2>3
<1>15. Newer(f, evs, t) = X
  <2>0. \A ev \in Fit(f, evs) : ev \in evs /\ ev.at \in Nat
    BY <1>3 DEF Fit
  <2>1. ASSUME NEW x \in X PROVE x \in Newer(f, evs, t)
    <3>1. hd[c1] \in evs /\ Comes(f, hd, rs, hd[c1])
      BY <1>1, <1>2, <1>6 DEF Comes
    <3>2. x \in Fit(f, evs) /\ hd[c1].at < x.at
      BY <3>1 DEF Reached
    <3> QED
      BY <1>4, <1>6, <2>0, <3>2 DEF Newer
  <2>2. ASSUME NEW x \in Newer(f, evs, t) PROVE x \in X
    <3>1. x \in Fit(f, evs) /\ x \in evs /\ x.at \in Nat /\ x.at > t
      BY <2>0 DEF Newer
    <3>2. ~(x.at <= t)
      BY <1>4, <3>1
    <3>3. ~Comes(f, hd, rs, x)
      BY <1>14, <3>1, <3>2
    <3> QED
      BY <3>1, <3>3 DEF Reached
  <2> QED
    BY <2>1, <2>2
<1>16. \A ev \in Fit(f, evs) : ev.at <= t => Comes(f, hd1, rs, ev) \/ (ev.at = t /\ ev \in buf)
  <2> TAKE ev \in Fit(f, evs)
  <2>1. ev \in evs /\ ev.at \in Nat
    BY <1>3 DEF Fit
  <2>2. ev.at <= t => ev \notin X
    BY <1>4, <1>15, <2>1 DEF Newer
  <2> QED
    BY <1>14, <2>1, <2>2 DEF Reached
<1>17. Ranked(X, w, Cardinality(X))
  <2>1. PICK m, limit : m = Cardinality(X) /\ limit = f.limit
    OBVIOUS
  <2>2. m \in Nat /\ limit \in Nat \cup {Absent}
    BY <2>1, FitEvs, PlaceIs DEF Reached, Proper
  <2>3. Ranked(X, w, Much(X, limit)) /\ Len(w) = Much(X, limit)
    BY <2>1 DEF Reached, Firsts, Ranked
  <2>4. Much(X, limit) = m
    BY <2>1, <2>2, <2>3 DEF Much, Filled
  <2> QED
    BY <2>1, <2>3, <2>4
<1>18. Drained(f, evs, t, buf, hd1, rs, w)
  BY <1>1, <1>4, <1>11, <1>12, <1>13, <1>15, <1>16, <1>17 DEF Drained
<1>19. req1[c1] # "none"
  BY <1>6, <1>8
<1> QED
  BY <1>9, <1>10, <1>18, <1>19

\* A cursor that delivers an event goes on or offers it.
Delivered(f, evs, hd, req, rs, c, ev, rs1) ==
  /\ ev \in evs
  /\ Walked(f, evs, hd, [req EXCEPT ![c] = "cursor"], rs1)
  /\ Walked(f, evs, [hd EXCEPT ![c] = ev], [req EXCEPT ![c] = "none"], rs1)
  /\ \A x : Comes(f, hd, rs, x) /\ x # ev => Comes(f, hd, rs1, x)
  /\ \A x \in evs : Comes(f, hd, rs, x) => Comes(f, [hd EXCEPT ![c] = ev], rs1, x)
  /\ \A d \in Q!Open(f) : \A i \in 1..Len(rs1[d]) : \E j \in 1..Len(rs[d]) : rs1[d][i] = rs[d][j]
  /\ \E j \in 1..Len(rs[c]) : ev = rs[c][j]

LEMMA Delivers ==
  ASSUME NEW f, NEW evs, Evs(evs), Absent \notin evs, NEW hd, NEW req, NEW rs,
         Walked(f, evs, hd, req, rs), NEW c \in Q!Open(f), req[c] # "none", rs[c] # <<>>,
         NEW ev, ev = Head(rs[c]), NEW rs1, rs1 = [rs EXCEPT ![c] = Tail(@)]
  PROVE  Delivered(f, evs, hd, req, rs, c, ev, rs1)
<1>1. PICK O, s, r : O = Q!Open(f) /\ s = rs[c] /\ r = Tail(s)
  OBVIOUS
<1>2. /\ hd \in [O -> evs \cup {Absent}] /\ req \in [O -> {"none", "cursor", "get"}]
      /\ rs \in [O -> Seq(evs)] /\ c \in O /\ hd[c] = Absent
      /\ \A d \in O : /\ req[d] # "none" => hd[d] = Absent
                      /\ req[d] = "get" => rs[d] # <<>>
                      /\ req[d] = "none" /\ hd[d] = Absent => rs[d] = <<>>
                      /\ \A i, j \in 1..Len(rs[d]) : i < j => rs[d][j].at <= rs[d][i].at
                      /\ hd[d] # Absent => \A i \in 1..Len(rs[d]) : rs[d][i].at <= hd[d].at
  BY <1>1 DEF Walked
<1>3. /\ s \in Seq(evs) /\ s # <<>> /\ ev = s[1] /\ 1 \in 1..Len(s) /\ ev \in evs
      /\ r \in Seq(evs) /\ Len(r) = Len(s) - 1
      /\ \A i \in 1..Len(r) : i + 1 \in 1..Len(s) /\ r[i] = s[i + 1] /\ 1 < i + 1
  BY <1>1, <1>2
<1>4. /\ rs1 \in [O -> Seq(evs)] /\ rs1[c] = r /\ \A d \in O : d # c => rs1[d] = rs[d]
  BY <1>1, <1>2, <1>3
<1>5. /\ \A i, j \in 1..Len(r) : i < j => r[j].at <= r[i].at
      /\ \A i \in 1..Len(r) : r[i].at <= ev.at
  <2>1. \A i, j \in 1..Len(s) : i < j => s[j].at <= s[i].at
    BY <1>1, <1>2
  <2>2. ASSUME NEW i \in 1..Len(r), NEW j \in 1..Len(r), i < j PROVE r[j].at <= r[i].at
    <3>1. i + 1 \in 1..Len(s) /\ j + 1 \in 1..Len(s) /\ i + 1 < j + 1
      BY <1>3, <2>2
    <3> QED
      BY <1>3, <2>1, <3>1
  <2>3. \A i \in 1..Len(r) : r[i].at <= ev.at
    BY <1>3, <2>1
  <2> QED
    BY <2>2, <2>3
<1>6. PICK hd1, req1, req2 : /\ hd1 = [hd EXCEPT ![c] = ev] /\ req1 = [req EXCEPT ![c] = "none"]
                             /\ req2 = [req EXCEPT ![c] = "cursor"]
  OBVIOUS
<1>7. /\ hd1 \in [O -> evs \cup {Absent}] /\ req1 \in [O -> {"none", "cursor", "get"}]
      /\ req2 \in [O -> {"none", "cursor", "get"}]
      /\ hd1[c] = ev /\ ev # Absent /\ req1[c] = "none" /\ req2[c] = "cursor"
      /\ \A d \in O : d # c => hd1[d] = hd[d] /\ req1[d] = req[d] /\ req2[d] = req[d]
  BY <1>2, <1>3, <1>6
<1>8. Walked(f, evs, hd, req2, rs1)
  <2>1. ASSUME NEW d \in O
        PROVE  /\ req2[d] # "none" => hd[d] = Absent
               /\ req2[d] = "get" => rs1[d] # <<>>
               /\ req2[d] = "none" /\ hd[d] = Absent => rs1[d] = <<>>
               /\ \A i, j \in 1..Len(rs1[d]) : i < j => rs1[d][j].at <= rs1[d][i].at
               /\ hd[d] # Absent => \A i \in 1..Len(rs1[d]) : rs1[d][i].at <= hd[d].at
    <3>1. CASE d = c
      BY <1>2, <1>4, <1>5, <1>7, <3>1
    <3>2. CASE d # c
      BY <1>2, <1>4, <1>7, <3>2
    <3> QED
      BY <3>1, <3>2
  <2> QED
    BY <1>1, <1>2, <1>4, <1>7, <2>1 DEF Walked
<1>9. Walked(f, evs, hd1, req1, rs1)
  <2>1. ASSUME NEW d \in O
        PROVE  /\ req1[d] # "none" => hd1[d] = Absent
               /\ req1[d] = "get" => rs1[d] # <<>>
               /\ req1[d] = "none" /\ hd1[d] = Absent => rs1[d] = <<>>
               /\ \A i, j \in 1..Len(rs1[d]) : i < j => rs1[d][j].at <= rs1[d][i].at
               /\ hd1[d] # Absent => \A i \in 1..Len(rs1[d]) : rs1[d][i].at <= hd1[d].at
    <3>1. CASE d = c
      BY <1>4, <1>5, <1>7, <3>1
    <3>2. CASE d # c
      BY <1>2, <1>4, <1>7, <3>2
    <3> QED
      BY <3>1, <3>2
  <2> QED
    BY <1>1, <1>4, <1>7, <2>1 DEF Walked
<1>10. \A x : x \in ToSet(s) /\ x # ev => x \in ToSet(r)
  <2> TAKE x
  <2> HAVE x \in ToSet(s) /\ x # ev
  <2>1. PICK i \in 1..Len(s) : s[i] = x
    BY <1>3 DEF ToSet
  <2>2. i # 1
    BY <1>3, <2>1
  <2>3. i - 1 \in 1..Len(r) /\ r[i - 1] = x
    BY <1>3, <2>1, <2>2
  <2> QED
    BY <1>3, <2>3 DEF ToSet
<1>11. \A x : Comes(f, hd, rs, x) /\ x # ev => Comes(f, hd, rs1, x)
  BY <1>1, <1>4, <1>10 DEF Comes
<1>12. \A x \in evs : Comes(f, hd, rs, x) => Comes(f, hd1, rs1, x)
  <2> TAKE x \in evs
  <2> HAVE Comes(f, hd, rs, x)
  <2>1. PICK d \in O : hd[d] = x \/ x \in ToSet(rs[d])
    BY <1>1 DEF Comes
  <2>2. CASE d # c
    BY <1>1, <1>4, <1>7, <2>1, <2>2 DEF Comes
  <2>3. CASE d = c
    <3>1. x \in ToSet(s)
      BY <1>1, <1>2, <2>1, <2>3
    <3>2. hd1[c] = x \/ x \in ToSet(rs1[c])
      BY <1>4, <1>7, <1>10, <3>1
    <3> QED
      BY <1>1, <1>2, <3>2 DEF Comes
  <2> QED
    BY <2>2, <2>3
<1>13. \A d \in O : \A i \in 1..Len(rs1[d]) : \E j \in 1..Len(rs[d]) : rs1[d][i] = rs[d][j]
  <2> TAKE d \in O
  <2>1. CASE d = c
    BY <1>1, <1>3, <1>4, <2>1
  <2>2. CASE d # c
    BY <1>4, <2>2
  <2> QED
    BY <2>1, <2>2
<1> QED
  BY <1>1, <1>3, <1>6, <1>8, <1>9, <1>11, <1>12, <1>13 DEF Delivered

\* A cursor that has ended is not waited for.
LEMMA Ends ==
  ASSUME NEW f, NEW evs, NEW hd, NEW req, NEW rs, Walked(f, evs, hd, req, rs),
         NEW c \in Q!Open(f), req[c] # "none", rs[c] = <<>>
  PROVE  Walked(f, evs, hd, [req EXCEPT ![c] = "none"], rs)
<1>1. PICK req1 : req1 = [req EXCEPT ![c] = "none"]
  OBVIOUS
<1>2. /\ hd \in [Q!Open(f) -> evs \cup {Absent}] /\ hd[c] = Absent
      /\ req \in [Q!Open(f) -> {"none", "cursor", "get"}]
  BY DEF Walked
<1>3. /\ req1 \in [Q!Open(f) -> {"none", "cursor", "get"}] /\ req1[c] = "none"
      /\ \A d \in Q!Open(f) : d # c => req1[d] = req[d]
  BY <1>1, <1>2
<1>4. Walked(f, evs, hd, req1, rs)
  BY <1>2, <1>3 DEF Walked
<1> QED
  BY <1>1, <1>4

LEMMA AsksEvent ==
  ASSUME NEW f, NEW evs, NEW hd, NEW req, NEW rs, Walked(f, evs, hd, req, rs),
         NEW c \in Q!Open(f), req[c] # "none", rs[c] # <<>>
  PROVE  Walked(f, evs, hd, [req EXCEPT ![c] = "get"], rs)
<1>1. PICK req1 : req1 = [req EXCEPT ![c] = "get"]
  OBVIOUS
<1>2. req1 \in [Q!Open(f) -> {"none", "cursor", "get"}] /\ req1[c] = "get" /\ \A d \in Q!Open(f) : d # c => req1[d] = req[d]
  BY <1>1 DEF Walked
<1>3. Walked(f, evs, hd, req1, rs)
  BY <1>2 DEF Walked
<1> QED
  BY <1>1, <1>3

\* What a scan in progress has done.
Scanning(f, evs, ph, t, buf, hd, req, rs, v) ==
  /\ Walked(f, evs, hd, req, rs)
  /\ ph \in {"merge", "drain"}
  /\ ph = "merge" => Merged(f, evs, hd, rs, v)
  /\ ph = "drain" => Drained(f, evs, t, buf, hd, rs, v)
  /\ Q!IsPrefix(v, Q!Answer(f, evs))

LEMMA MovesScan ==
  ASSUME NEW f, NEW evs, Evs(evs), Absent \notin evs, NEW ph, NEW t, NEW buf, NEW hd, NEW req,
         NEW rs, NEW v, Scanning(f, evs, ph, t, buf, hd, req, rs, v),
         NEW c \in Q!Open(f), req[c] # "none", rs[c] # <<>>,
         NEW ev, ev = Head(rs[c]), NEW rs1, rs1 = [rs EXCEPT ![c] = Tail(@)]
  PROVE  /\ ph = "drain" /\ ev.at = t
              => Scanning(f, evs, ph, t, buf \cup {ev}, hd, [req EXCEPT ![c] = "cursor"], rs1, v)
         /\ ~(ph = "drain" /\ ev.at = t)
              => Scanning(f, evs, ph, t, buf, [hd EXCEPT ![c] = ev], [req EXCEPT ![c] = "none"], rs1, v)
<1>1. PICK hd1, req1, req2 : /\ hd1 = [hd EXCEPT ![c] = ev] /\ req1 = [req EXCEPT ![c] = "none"]
                             /\ req2 = [req EXCEPT ![c] = "cursor"]
  OBVIOUS
<1>2. Walked(f, evs, hd, req, rs)
  BY DEF Scanning
<1>3. /\ ev \in evs
      /\ Walked(f, evs, hd, req2, rs1)
      /\ Walked(f, evs, hd1, req1, rs1)
      /\ \A x : Comes(f, hd, rs, x) /\ x # ev => Comes(f, hd, rs1, x)
      /\ \A x \in evs : Comes(f, hd, rs, x) => Comes(f, hd1, rs1, x)
      /\ \A d \in Q!Open(f) : \A i \in 1..Len(rs1[d]) : \E j \in 1..Len(rs[d]) : rs1[d][i] = rs[d][j]
      /\ \E j \in 1..Len(rs[c]) : ev = rs[c][j]
  <2>1. Delivered(f, evs, hd, req, rs, c, ev, rs1)
    BY <1>2, Delivers
  <2> QED
    BY <1>1, <2>1 DEF Delivered
<1>4. \A x \in evs : x.at \in Nat
  BY DEF Evs
<1>5. ASSUME ph = "drain", ev.at = t
      PROVE  Scanning(f, evs, ph, t, buf \cup {ev}, hd, req2, rs1, v)
  <2>1. Drained(f, evs, t, buf, hd, rs, v)
    BY <1>5 DEF Scanning
  <2>2. \A d \in Q!Open(f) : \A i \in 1..Len(rs1[d]) : rs1[d][i].at <= t
    BY <1>3, <2>1 DEF Drained
  <2>3. \A x \in Fit(f, evs) : x.at <= t => Comes(f, hd, rs1, x) \/ (x.at = t /\ x \in buf \cup {ev})
    BY <1>3, <1>5, <2>1 DEF Drained
  <2>4. Drained(f, evs, t, buf \cup {ev}, hd, rs1, v)
    BY <1>3, <1>5, <2>1, <2>2, <2>3 DEF Drained
  <2> QED
    BY <1>3, <1>5, <2>4 DEF Scanning
<1>6. ASSUME ~(ph = "drain" /\ ev.at = t)
      PROVE  Scanning(f, evs, ph, t, buf, hd1, req1, rs1, v)
  <2>1. \A x \in Fit(f, evs) : x \in evs
    BY DEF Fit
  <2>2. CASE ph = "merge"
    <3>1. Merged(f, evs, hd1, rs1, v)
      BY <1>3, <2>1, <2>2 DEF Scanning, Merged
    <3> QED
      BY <1>3, <2>2, <3>1 DEF Scanning
  <2>3. CASE ph = "drain"
    <3>1. Drained(f, evs, t, buf, hd, rs, v) /\ t \in Nat
      BY <2>3 DEF Scanning, Drained
    <3>2. \A d \in Q!Open(f) : \A i \in 1..Len(rs1[d]) : rs1[d][i].at <= t
      BY <1>3, <3>1 DEF Drained
    <3>3. \A x \in Fit(f, evs) : x.at <= t => Comes(f, hd1, rs1, x) \/ (x.at = t /\ x \in buf)
      BY <1>3, <2>1, <3>1 DEF Drained
    <3>4. \A d \in Q!Open(f) : hd1[d] # Absent => hd1[d].at < t
      <4> TAKE d \in Q!Open(f)
      <4>1. CASE d = c
        <5>1. ev.at <= t /\ ev.at # t /\ ev.at \in Nat
          BY <1>3, <1>4, <1>6, <2>3, <3>1 DEF Drained
        <5>2. hd1[d] = ev
          BY <1>1, <1>2, <4>1 DEF Walked
        <5> QED
          BY <3>1, <5>1, <5>2
      <4>2. CASE d # c
        <5>1. hd1[d] = hd[d]
          BY <1>1, <1>2, <4>2 DEF Walked
        <5> QED
          BY <3>1, <5>1 DEF Drained
      <4> QED
        BY <4>1, <4>2
    <3>5. Drained(f, evs, t, buf, hd1, rs1, v)
      BY <3>1, <3>2, <3>3, <3>4 DEF Drained
    <3> QED
      BY <1>3, <2>3, <3>5 DEF Scanning
  <2> QED
    BY <2>2, <2>3 DEF Scanning
<1> QED
  BY <1>1, <1>5, <1>6

\* The scan, as the callbacks see it.
Busy(req) == \E c \in DOMAIN req : req[c] # "none"
ScanInv ==
  /\ filter \in Filters /\ stored \in Contents
  /\ phase \in {"merge", "drain", "done", "failed"}
  /\ phase \in {"merge", "drain"} =>
       Scanning(filter, stored, phase, second, buffer, head, request, rest, out) /\ Busy(request)
  /\ Q!IsPrefix(out, Q!Answer(filter, stored))
  /\ phase = "done" => out = Q!Answer(filter, stored)

LEMMA Stores ==
  ASSUME filter \in Filters, stored \in Contents
  PROVE  Proper(filter) /\ Evs(stored) /\ Absent \notin stored
<1>1. Proper(filter)
  BY QueriesAssumption DEF Proper, Listed
<1>2. Evs(stored) /\ Absent \notin stored
  BY QueriesAssumption DEF Evs
<1> QED
  BY <1>1, <1>2

LEMMA PrefixSelf == ASSUME NEW X, NEW v \in Seq(X) PROVE Q!IsPrefix(v, v)
  BY DEF Q!IsPrefix

\* pump().
LEMMA PumpStep ==
  ASSUME filter \in Filters, stored \in Contents, filter' = filter, stored' = stored,
         NEW hd, NEW req,
         Scanning(filter, stored, phase, second, buffer, hd, req, rest', out),
         Q!Pump(hd, req)
  PROVE  ScanInv'
<1>0. PICK f, evs, rs : f = filter /\ evs = stored /\ rs = rest'
  OBVIOUS
<1>1. Proper(f) /\ Evs(evs) /\ Absent \notin evs
  BY <1>0, Stores
<1>2. /\ Walked(f, evs, hd, req, rs) /\ phase \in {"merge", "drain"}
      /\ Q!IsPrefix(out, Q!Answer(f, evs))
  BY <1>0 DEF Scanning
<1>3. DOMAIN req = Q!Open(f) /\ DOMAIN hd = Q!Open(f)
  BY <1>2 DEF Walked
<1>4. CASE \E c \in DOMAIN req : req[c] # "none"
  <2>1. /\ head' = hd /\ request' = req /\ phase' = phase /\ second' = second /\ buffer' = buffer
        /\ out' = out
    BY <1>4 DEF Q!Pump
  <2>2. Scanning(filter', stored', phase', second', buffer', head', request', rest', out')
    BY <2>1
  <2> QED
    BY <1>0, <1>2, <1>4, <2>1, <2>2 DEF ScanInv, Busy
<1>5. CASE \A c \in DOMAIN req : req[c] = "none"
  <2>1. PICK w : w = out'
    OBVIOUS
  <2>2. w = (IF phase = "drain" THEN Q!Taken(buffer) ELSE out)
    BY <1>5, <2>1 DEF Q!Pump
  <2>3. PICK X : Reached(f, evs, X, hd, rs, w)
    <3>1. CASE phase = "merge"
      <4>1. Merged(f, evs, hd, rs, out) /\ w = out
        BY <1>0, <2>2, <3>1 DEF Scanning
      <4>2. Reached(f, evs, {}, hd, rs, w)
        BY <1>1, <4>1, MergeReaches
      <4> QED
        BY <4>2
    <3>2. CASE phase = "drain"
      <4>1. Drained(f, evs, second, buffer, hd, rs, out)
        BY <1>0, <3>2 DEF Scanning
      <4>2. w = Q!First(out \o Q!Sorted({ev \in buffer \ Q!ToSet(out) : Q!Match(f, ev)}), f.limit)
        BY <1>0, <2>2, <3>2 DEF Q!Taken
      <4> QED
        BY <1>1, <1>2, <1>3, <1>5, <4>1, <4>2, DrainReaches
    <3> QED
      BY <1>2, <3>1, <3>2
  <2>4. Q!IsPrefix(w, Q!Answer(f, evs))
    BY <1>1, <2>3, BeginsExact
  <2>5. Filled(f, w) <=> Q!Full(out')
    BY <1>0, <2>1 DEF Filled, Q!Full
  <2>6. CASE Filled(f, w) \/ \A c \in DOMAIN hd : hd[c] = Absent
    <3>1. phase' = "done"
      BY <1>5, <2>5, <2>6 DEF Q!Pump
    <3>2. w = Q!Answer(f, evs)
      BY <1>1, <1>2, <1>3, <1>5, <2>3, <2>6, StopsExact
    <3> QED
      BY <1>0, <2>1, <2>4, <3>1, <3>2 DEF ScanInv
  <2>7. CASE ~(Filled(f, w) \/ \A c \in DOMAIN hd : hd[c] = Absent)
    <3>1. Q!Drain(hd, req)
      BY <1>5, <2>5, <2>7 DEF Q!Pump
    <3>2. PICK t : t = Q!NextSecond(hd)
      OBVIOUS
    <3>3. /\ phase' = "drain" /\ second' = t /\ buffer' = {hd[c] : c \in Q!Offers(hd, t)}
          /\ head' = [c \in DOMAIN hd |-> IF c \in Q!Offers(hd, t) THEN Absent ELSE hd[c]]
          /\ request' = [c \in DOMAIN hd |-> IF c \in Q!Offers(hd, t) THEN "cursor" ELSE req[c]]
      BY <3>1, <3>2 DEF Q!Drain
    <3>4. /\ Drained(f, evs, t, buffer', head', rs, w)
          /\ Walked(f, evs, head', request', rs)
          /\ \E c \in DOMAIN request' : request'[c] # "none"
      <4>1. (\A c \in Q!Open(f) : req[c] = "none") /\ ~Filled(f, w) /\ ~\A c \in Q!Open(f) : hd[c] = Absent
        BY <1>3, <1>5, <2>7
      <4> QED
        BY <1>1, <1>2, <2>3, <3>2, <3>3, <4>1, NextDrained
    <3>5. Scanning(f, evs, phase', second', buffer', head', request', rs, w)
      BY <2>4, <3>3, <3>4 DEF Scanning
    <3> QED
      BY <1>0, <2>1, <2>4, <3>3, <3>4, <3>5 DEF ScanInv, Busy
  <2> QED
    BY <2>6, <2>7
<1> QED
  BY <1>4, <1>5

LEMMA ScanStep ==
  ASSUME ScanInv, [Q!Next]_queryVars
  PROVE  ScanInv'
<1>1. CASE UNCHANGED queryVars
  BY <1>1 DEF queryVars, ScanInv, Busy
<1>2. CASE Q!Next
  <2>1. /\ filter' = filter /\ stored' = stored /\ filter \in Filters /\ stored \in Contents
        /\ phase \in {"merge", "drain"} /\ Busy(request)
        /\ Scanning(filter, stored, phase, second, buffer, head, request, rest, out)
        /\ Q!IsPrefix(out, Q!Answer(filter, stored))
    BY <1>2 DEF Q!Next, ScanInv
  <2>2. PICK c \in DOMAIN request : \/ Q!CursorEnds(c) \/ Q!CursorMoves(c) \/ Q!TagMoves(c)
                                   \/ Q!TagFetched(c) \/ Q!Fails(c)
    BY <1>2 DEF Q!Next
  <2>3. PICK f, evs : f = filter /\ evs = stored
    OBVIOUS
  <2>4. /\ c \in Q!Open(f) /\ Evs(evs) /\ Absent \notin evs
        /\ Walked(f, evs, head, request, rest)
    BY <2>1, <2>2, <2>3, Stores DEF Scanning, Walked
  <2>5. ASSUME request[c] # "none", rest[c] # <<>>, rest' = [rest EXCEPT ![c] = Tail(@)],
               Q!OnEvent(c, Head(rest[c]))
        PROVE  ScanInv'
    <3>1. PICK ev, rs1, more, hd1, req1, req2 :
            /\ ev = Head(rest[c]) /\ rs1 = rest' /\ more = buffer \cup {ev}
            /\ hd1 = [head EXCEPT ![c] = ev] /\ req1 = [request EXCEPT ![c] = "none"]
            /\ req2 = [request EXCEPT ![c] = "cursor"]
      OBVIOUS
    <3>2. /\ Q!Joins(ev) => Scanning(f, evs, phase, second, more, head, req2, rs1, out)
          /\ ~Q!Joins(ev) => Scanning(f, evs, phase, second, buffer, hd1, req1, rs1, out)
      <4>1. rs1 = [rest EXCEPT ![c] = Tail(@)]
        BY <2>5, <3>1
      <4>2. Scanning(f, evs, phase, second, buffer, head, request, rest, out)
        BY <2>1, <2>3
      <4>3. /\ phase = "drain" /\ ev.at = second
                 => Scanning(f, evs, phase, second, buffer \cup {ev}, head,
                             [request EXCEPT ![c] = "cursor"], rs1, out)
            /\ ~(phase = "drain" /\ ev.at = second)
                 => Scanning(f, evs, phase, second, buffer, [head EXCEPT ![c] = ev],
                             [request EXCEPT ![c] = "none"], rs1, out)
        BY <2>4, <2>5, <3>1, <4>1, <4>2, MovesScan
      <4> QED
        BY <3>1, <4>3 DEF Q!Joins
    <3>3. CASE Q!Joins(ev)
      <4>1. /\ buffer' = more /\ request' = req2 /\ phase' = phase /\ second' = second
            /\ head' = head /\ out' = out
        BY <2>5, <3>1, <3>3 DEF Q!OnEvent
      <4>2. DOMAIN req2 = DOMAIN request /\ req2[c] = "cursor"
        BY <2>2, <3>1
      <4> QED
        BY <2>1, <2>2, <2>3, <3>1, <3>2, <3>3, <4>1, <4>2 DEF ScanInv, Busy
    <3>4. CASE ~Q!Joins(ev)
      <4>1. Q!Pump(hd1, req1)
        BY <2>5, <3>1, <3>4 DEF Q!OnEvent
      <4>2. Scanning(filter, stored, phase, second, buffer, hd1, req1, rest', out)
        BY <2>3, <3>1, <3>2, <3>4
      <4> QED
        BY <2>1, <4>1, <4>2, PumpStep
    <3> QED
      BY <3>3, <3>4
  <2>6. CASE Q!CursorEnds(c)
    <3>1. PICK req1 : req1 = [request EXCEPT ![c] = "none"]
      OBVIOUS
    <3>2. /\ request[c] = "cursor" /\ rest[c] = <<>> /\ rest' = rest
          /\ Q!Pump([head EXCEPT ![c] = Absent], req1)
      BY <2>6, <3>1 DEF Q!CursorEnds
    <3>3. [head EXCEPT ![c] = Absent] = head /\ Walked(f, evs, head, req1, rest)
      <4>1. request[c] # "none" /\ rest[c] = <<>>
        BY <3>2
      <4>2. Walked(f, evs, head, [request EXCEPT ![c] = "none"], rest)
        BY <2>4, <4>1, Ends
      <4>3. [head EXCEPT ![c] = Absent] = head
        BY <2>4, <4>1 DEF Walked
      <4> QED
        BY <3>1, <4>2, <4>3
    <3>4. Scanning(filter, stored, phase, second, buffer, head, req1, rest', out)
      BY <2>1, <2>3, <3>2, <3>3 DEF Scanning
    <3>5. Q!Pump(head, req1)
      BY <3>2, <3>3
    <3> QED
      BY <2>1, <3>4, <3>5, PumpStep
  <2>7. CASE Q!CursorMoves(c)
    BY <2>5, <2>7 DEF Q!CursorMoves
  <2>8. CASE Q!TagMoves(c)
    <3>1. /\ request[c] # "none" /\ rest[c] # <<>> /\ request' = [request EXCEPT ![c] = "get"]
          /\ UNCHANGED <<phase, second, buffer, head, rest, out>>
      BY <2>8 DEF Q!TagMoves
    <3>2. Walked(f, evs, head, request', rest)
      BY <2>4, <3>1, AsksEvent
    <3>3. Scanning(filter', stored', phase', second', buffer', head', request', rest', out')
      BY <2>1, <2>3, <3>1, <3>2 DEF Scanning
    <3>4. c \in DOMAIN request' /\ request'[c] # "none"
      BY <2>2, <3>1
    <3> QED
      BY <2>1, <3>1, <3>3, <3>4 DEF ScanInv, Busy
  <2>9. CASE Q!TagFetched(c)
    <3>1. request[c] = "get" /\ rest[c] # <<>>
      BY <2>4, <2>9 DEF Q!TagFetched, Walked
    <3> QED
      BY <2>5, <2>9, <3>1 DEF Q!TagFetched
  <2>10. CASE Q!Fails(c)
    BY <2>1, <2>10 DEF Q!Fails, ScanInv
  <2> QED
    BY <2>2, <2>6, <2>7, <2>8, <2>9, <2>10
<1> QED
  BY <1>1, <1>2

\* A cursor starts with all events of its range, newest second first.
LEMMA WalkIs ==
  ASSUME NEW f, NEW evs, Evs(evs), NEW c, NEW s, s = Q!Walk(c, f, evs)
  PROVE  /\ s \in Seq(evs)
         /\ \A ev \in evs : Q!InRange(c, ev) /\ Q!InTime(f, ev) => ev \in ToSet(s)
         /\ \A i, j \in 1..Len(s) : i < j => s[j].at <= s[i].at
<1>0. PICK X : X = {ev \in evs : Q!InRange(c, ev) /\ Q!InTime(f, ev)}
  OBVIOUS
<1>1. PICK R : R = {p \in X \X X : p[1].at > p[2].at \/ (p[1].at = p[2].at /\ p[1].id > p[2].id)}
  OBVIOUS
<1>2. \A x, y \in X : <<x, y>> \in R <=> (x.at > y.at \/ (x.at = y.at /\ x.id > y.id))
  BY <1>1
<1>3. X \subseteq evs /\ IsFiniteSet(X)
  <2>1. X \subseteq evs
    BY <1>0
  <2> QED
    BY <2>1, FS_Subset DEF Evs
<1>4. Orders(R, X)
  <2>1. \A x, y \in X : x.at \in Nat /\ x.id \in Nat /\ (x.id = y.id => x = y)
    BY <1>3 DEF Evs
  <2> QED
    BY <1>2, <2>1 DEF Orders
<1>5. PICK n : n = Cardinality(X)
  OBVIOUS
<1>6. n \in Nat
  BY <1>3, <1>5, FS_CardinalityType
<1>7. \A x \in X : PlaceIn(R, X, x) = Q!Cardinality({y \in X : y.at > x.at \/ (y.at = x.at /\ y.id > x.id)})
  <2> TAKE x \in X
  <2>1. {y \in X : <<y, x>> \in R} = {y \in X : y.at > x.at \/ (y.at = x.at /\ y.id > x.id)}
    BY <1>2
  <2> QED
    BY <2>1, QueryNames DEF PlaceIn
<1>8. s = [k \in 1..n |-> CHOOSE x \in X : PlaceIn(R, X, x) = k - 1]
  <2>1. s = [k \in 1..Q!Cardinality(X) |->
               CHOOSE x \in X : Q!Cardinality({y \in X : y.at > x.at \/ (y.at = x.at /\ y.id > x.id)}) = k - 1]
    BY <1>0 DEF Q!Walk, Q!InOrder
  <2>2. Q!Cardinality(X) = n
    BY <1>5, QueryNames
  <2> QED
    BY <1>7, <2>1, <2>2
<1>9. /\ \A x \in X : PlaceIn(R, X, x) \in 0..(n - 1)
      /\ \A x, y \in X : <<x, y>> \in R <=> PlaceIn(R, X, x) < PlaceIn(R, X, y)
      /\ \A m \in 0..(n - 1) : \E x \in X : PlaceIn(R, X, x) = m
  <2>1. IsFiniteSet(X) /\ Orders(R, X)
    BY <1>3, <1>4
  <2>2. \A x \in X : PlaceIn(R, X, x) \in 0..(Cardinality(X) - 1)
    BY <2>1, PlacesAre
  <2>3. \A x, y \in X : <<x, y>> \in R <=> PlaceIn(R, X, x) < PlaceIn(R, X, y)
    BY <2>1, PlacesAre
  <2>4. \A m \in 0..(Cardinality(X) - 1) : \E x \in X : PlaceIn(R, X, x) = m
    BY <2>1, PlacesAre
  <2> QED
    BY <1>5, <2>2, <2>3, <2>4
<1>10. ASSUME NEW k \in 1..n PROVE s[k] \in X /\ PlaceIn(R, X, s[k]) = k - 1
  <2>1. k - 1 \in 0..(n - 1)
    BY <1>6
  <2>2. PICK x \in X : PlaceIn(R, X, x) = k - 1
    BY <1>9, <2>1
  <2>3. s[k] = CHOOSE y \in X : PlaceIn(R, X, y) = k - 1
    BY <1>8
  <2> QED
    BY <2>2, <2>3
<1>11. s \in Seq(evs) /\ Len(s) = n
  <2>1. s \in [1..n -> evs]
    BY <1>3, <1>8, <1>10
  <2> QED
    BY <1>6, <2>1
<1>12. ASSUME NEW x \in X PROVE x \in ToSet(s)
  <2>1. PICK k : k = PlaceIn(R, X, x) + 1
    OBVIOUS
  <2>2. PlaceIn(R, X, x) \in Nat /\ k \in 1..n /\ PlaceIn(R, X, x) = k - 1
    BY <1>6, <1>9, <2>1
  <2>3. PlaceIn(R, X, s[k]) = k - 1 /\ s[k] \in X
    BY <1>10, <2>2
  <2>4. s[k] = x
    <3>1. <<x, s[k]>> \notin R /\ <<s[k], x>> \notin R
      BY <1>9, <2>2, <2>3
    <3> QED
      BY <1>4, <2>3, <3>1 DEF Orders
  <2> QED
    BY <1>11, <2>2, <2>4 DEF ToSet
<1>13. ASSUME NEW i \in 1..n, NEW j \in 1..n, i < j PROVE s[j].at <= s[i].at
  <2>1. s[i] \in X /\ s[j] \in X /\ PlaceIn(R, X, s[i]) < PlaceIn(R, X, s[j])
    BY <1>6, <1>10, <1>13
  <2>2. <<s[i], s[j]>> \in R
    BY <1>9, <2>1
  <2>3. s[i].at > s[j].at \/ s[i].at = s[j].at
    BY <1>2, <2>1, <2>2
  <2>4. s[i].at \in Nat /\ s[j].at \in Nat
    BY <1>3, <2>1 DEF Evs
  <2> QED
    BY <2>3, <2>4
<1> QED
  BY <1>0, <1>11, <1>12, <1>13

\* The ranges have every event that matches.
LEMMA RangesAre ==
  ASSUME NEW f, NEW ev, Q!Match(f, ev), Q!Ranges(f) # {}
  PROVE  \E c \in Q!Ranges(f) : Q!InRange(c, ev)
<1>1. /\ f.by # Absent => ev.by \in f.by
      /\ f.kinds # Absent => ev.kind \in f.kinds
  BY DEF Q!Match, Q!Allows
<1>2. Q!EpTags(f) # {} => \E t \in Q!EpTags(f) : t \in ev.tags
  <2> HAVE Q!EpTags(f) # {}
  <2>1. PICK n \in DOMAIN f.tags \cap {"e", "p"} : TRUE
    BY DEF Q!EpTags
  <2>2. PICK x \in f.tags[n] : <<n, x>> \in ev.tags
    BY <2>1 DEF Q!Match
  <2>3. <<n, x>> \in Q!EpTags(f)
    BY <2>1, <2>2 DEF Q!EpTags
  <2> QED
    BY <2>2, <2>3
<1>3. \A c : c[1] = "all" => Q!InRange(c, ev)
  BY DEF Q!InRange
<1>4. CASE Q!Ranges(f) = Q!FullScan
  BY <1>4 DEF Q!FullScan, Q!InRange
<1>5. CASE Q!Ranges(f) = Q!ByKind(f) /\ f.kinds # Absent
  <2>1. <<"kind", ev.kind>> \in Q!Ranges(f)
    BY <1>1, <1>5 DEF Q!ByKind
  <2>2. Q!InRange(<<"kind", ev.kind>>, ev)
    BY DEF Q!InRange
  <2> QED
    BY <2>1, <2>2
<1>6. CASE Q!Ranges(f) = {<<"by", b>> : b \in f.by} /\ f.by # Absent
  <2>1. <<"by", ev.by>> \in Q!Ranges(f)
    BY <1>1, <1>6
  <2>2. Q!InRange(<<"by", ev.by>>, ev)
    BY DEF Q!InRange
  <2> QED
    BY <2>1, <2>2
<1>7. CASE Q!Ranges(f) = {<<"both", k, b>> : k \in f.kinds, b \in f.by} /\ f.by # Absent /\ f.kinds # Absent
  <2>1. <<"both", ev.kind, ev.by>> \in Q!Ranges(f)
    BY <1>1, <1>7
  <2>2. Q!InRange(<<"both", ev.kind, ev.by>>, ev)
    BY DEF Q!InRange
  <2> QED
    BY <2>1, <2>2
<1>8. CASE Q!Ranges(f) = {<<"tag", t>> : t \in Q!EpTags(f)} /\ Q!EpTags(f) # {}
  <2>1. PICK t \in Q!EpTags(f) : t \in ev.tags
    BY <1>2, <1>8
  <2>2. <<"tag", t>> \in Q!Ranges(f)
    BY <1>8
  <2>3. Q!InRange(<<"tag", t>>, ev)
    BY <2>1 DEF Q!InRange
  <2> QED
    BY <2>2, <2>3
<1> QED
  BY <1>4, <1>5, <1>6, <1>7, <1>8 DEF Q!Ranges

LEMMA ScanInit ==
  ASSUME Q!Init
  PROVE  ScanInv
<1>1. PICK f, evs, O : f = filter /\ evs = stored /\ O = Q!Open(filter)
  OBVIOUS
<1>2. /\ filter \in Filters /\ stored \in Contents
      /\ phase = (IF O = {} THEN "done" ELSE "merge")
      /\ head = [c \in O |-> Absent] /\ request = [c \in O |-> "cursor"]
      /\ rest = [c \in O |-> Q!Walk(c, f, evs)]
      /\ out = (IF f.ids # Absent THEN Q!Answer(f, evs) ELSE <<>>)
  BY <1>1 DEF Q!Init
<1>3. Proper(f) /\ Evs(evs) /\ Absent \notin evs
  BY <1>1, <1>2, Stores
<1>4. PICK all, a : all = Fit(f, evs) /\ a = Q!Answer(f, evs) /\ Firsts(all, f.limit, a) /\ a \in Seq(all)
  <2>1. f.limit \in Nat \cup {Absent}
    BY <1>3 DEF Proper
  <2>2. Firsts(Fit(f, evs), f.limit, Q!Answer(f, evs))
    BY <1>3, <2>1, AnswerIs
  <2>3. Q!Answer(f, evs) \in Seq(Fit(f, evs))
    BY <2>2 DEF Firsts, Ranked
  <2> QED
    BY <2>2, <2>3
<1>5. Q!IsPrefix(out, a)
  <2>1. CASE f.ids # Absent
    BY <1>2, <1>4, <2>1, PrefixSelf
  <2>2. CASE f.ids = Absent
    <3>1. out = <<>> /\ Len(<<>>) = 0 /\ Len(a) \in Nat /\ SubSeq(a, 1, 0) = <<>>
      BY <1>2, <1>4, <2>2
    <3>2. SubSeq(out, 1, Len(out)) = <<>>
      BY <3>1
    <3> QED
      BY <3>1, <3>2 DEF Q!IsPrefix
  <2> QED
    BY <2>1, <2>2
<1>6. CASE O = {}
  <2>1. out = a
    <3>1. CASE f.ids # Absent
      BY <1>2, <1>4, <3>1
    <3>2. CASE f.ids = Absent /\ (f.limit = 0 \/ all = {})
      <4>1. Evs(all) /\ f.limit \in Nat \cup {Absent}
        BY <1>3, <1>4, FitEvs DEF Proper
      <4>2. a = <<>>
        BY <1>4, <3>2, <4>1, NoneIs
      <4> QED
        BY <1>2, <3>2, <4>2
    <3>3. CASE f.ids = Absent /\ f.limit # 0 /\ f.since # Absent /\ f.until # Absent /\ f.since > f.until
      <4>1. ASSUME NEW ev \in all PROVE FALSE
        <5>1. ev \in evs /\ Q!InTime(f, ev)
          BY <1>4 DEF Fit, Q!Match
        <5>2. ev.at >= f.since /\ ev.at <= f.until
          BY <3>3, <5>1 DEF Q!InTime
        <5>3. ev.at \in Nat /\ f.since \in Nat /\ f.until \in Nat
          BY <1>3, <3>3, <5>1 DEF Evs, Proper
        <5> QED
          BY <3>3, <5>2, <5>3
      <4> QED
        BY <3>2, <3>3, <4>1
    <3>4. CASE Q!NeedsCursors(f)
      <4>1. Q!Ranges(f) = {} /\ f.ids = Absent
        BY <1>1, <1>6, <3>4 DEF Q!Open, Q!NeedsCursors
      <4>2. Q!Ranges(f) = {} => (f.by # Absent /\ f.by = {}) \/ (f.kinds # Absent /\ f.kinds = {})
        <5>1. Q!FullScan # {} /\ (f.kinds # {} => Q!ByKind(f) # {})
          BY DEF Q!FullScan, Q!ByKind
        <5>2. /\ f.by # {} => {<<"by", b>> : b \in f.by} # {}
              /\ Q!EpTags(f) # {} => {<<"tag", t>> : t \in Q!EpTags(f)} # {}
          OBVIOUS
        <5>3. f.by # Absent /\ f.kinds # Absent => f.by = {} \/ f.kinds = {} \/ Q!Ranges(f) # {}
          <6> SUFFICES ASSUME f.by # Absent, f.kinds # Absent, NEW k \in f.kinds, NEW b \in f.by
                       PROVE  Q!Ranges(f) # {}
            OBVIOUS
          <6>1. CASE Q!Fits(Cardinality(f.by) * Cardinality(f.kinds))
            <7>1. <<"both", k, b>> \in Q!Ranges(f)
              BY <6>1, QueryNames DEF Q!Ranges
            <7> QED
              BY <7>1
          <6>2. CASE ~Q!Fits(Cardinality(f.by) * Cardinality(f.kinds))
            BY <5>1, <6>2, QueryNames DEF Q!Ranges
          <6> QED
            BY <6>1, <6>2
        <5> QED
          BY <5>1, <5>2, <5>3 DEF Q!Ranges
      <4>3. ASSUME NEW ev \in all PROVE FALSE
        <5>1. /\ f.by # Absent => ev.by \in f.by
              /\ f.kinds # Absent => ev.kind \in f.kinds
          BY <1>4 DEF Fit, Q!Match, Q!Allows
        <5> QED
          BY <4>1, <4>2, <5>1
      <4> QED
        BY <3>2, <4>1, <4>3
    <3> QED
      BY <3>1, <3>2, <3>3, <3>4 DEF Q!NeedsCursors
  <2> QED
    BY <1>1, <1>2, <1>4, <1>5, <1>6, <2>1 DEF ScanInv
<1>7. CASE O # {}
  <2>1. Q!NeedsCursors(f) /\ O = Q!Ranges(f) /\ f.ids = Absent
    BY <1>1, <1>7 DEF Q!Open, Q!NeedsCursors
  <2>2. ASSUME NEW c \in O
        PROVE  /\ rest[c] \in Seq(evs)
               /\ {ev \in evs : Q!InRange(c, ev) /\ Q!InTime(f, ev)} \subseteq ToSet(rest[c])
               /\ \A i, j \in 1..Len(rest[c]) : i < j => rest[c][j].at <= rest[c][i].at
    <3>1. PICK s : s = Q!Walk(c, f, evs)
      OBVIOUS
    <3>2. /\ s \in Seq(evs)
          /\ \A ev \in evs : Q!InRange(c, ev) /\ Q!InTime(f, ev) => ev \in ToSet(s)
          /\ \A i, j \in 1..Len(s) : i < j => s[j].at <= s[i].at
      BY <1>3, <3>1, WalkIs
    <3>3. rest[c] = s
      BY <1>2, <3>1
    <3> QED
      BY <3>1, <3>2, <3>3
  <2>3. Walked(f, evs, head, request, rest)
    <3>1. rest \in [O -> Seq(evs)]
      BY <1>2, <2>2
    <3> QED
      BY <1>1, <1>2, <2>2, <3>1 DEF Walked
  <2>4. ASSUME NEW ev \in all PROVE Comes(f, head, rest, ev)
    <3>1. ev \in evs /\ Q!Match(f, ev) /\ Q!InTime(f, ev)
      BY <1>4 DEF Fit, Q!Match
    <3>2. PICK c \in O : Q!InRange(c, ev)
      BY <1>7, <2>1, <3>1, RangesAre
    <3>3. ev \in ToSet(rest[c])
      BY <2>2, <3>1, <3>2
    <3> QED
      BY <1>1, <3>2, <3>3 DEF Comes
  <2>5. Merged(f, evs, head, rest, out)
    BY <1>2, <1>4, <2>1, <2>4 DEF Merged
  <2>6. phase = "merge"
    BY <1>2, <1>7
  <2>7. Scanning(f, evs, phase, second, buffer, head, request, rest, out)
    BY <1>4, <1>5, <2>3, <2>5, <2>6 DEF Scanning
  <2>8. Busy(request)
    BY <1>2, <1>7 DEF Busy
  <2> QED
    BY <1>1, <1>2, <1>4, <1>5, <2>6, <2>7, <2>8 DEF ScanInv
<1> QED
  BY <1>6, <1>7

\* Whatever the order in which the cursors call back, the scan of IndexedDB
\* gives the newest matching events up to the limit, a query in progress has a
\* request in flight, and the memory index and SQLite give the same events
\* (kWayMerge, #eachCandidate, #planRows).
THEOREM QueriesAreExact == Spec => []QueriesExact
<1>1. Init => ScanInv
  BY ScanInit DEF Init
<1>2. ScanInv /\ [Next]_partVars => ScanInv'
  BY ScanStep, PartSteps
<1>3. ScanInv => QueriesExact
  <2> HAVE ScanInv
  <2>1. Q!MemoryQuery(filter, stored) = Q!Answer(filter, stored) /\ Q!SqlQuery(filter, stored) = Q!Answer(filter, stored)
    BY Stores, MemoryIs, SqlIs DEF ScanInv
  <2>2. Q!ScanExact
    BY DEF ScanInv, Q!ScanExact, Busy
  <2>3. Q!StoresAnswerAlike
    BY <2>1 DEF ScanInv, Q!StoresAnswerAlike
  <2> QED
    BY <2>2, <2>3 DEF QueriesExact, Q!QueriesExact
<1> QED
  BY <1>1, <1>2, <1>3, PTL DEF Spec

=============================================================================
