---------------------------- MODULE RelayRequests ----------------------------
(***************************************************************************)
(* One-shot requests and NIP-42 authentication on one relay: OkTracker     *)
(* (src/relay/ok-tracker.ts), CountTracker (src/relay/count-tracker.ts),   *)
(* RelayAuth (src/relay/auth.ts) and the authRetry() of a subscription     *)
(* (src/relay/subscription-registry.ts), which all wait in ensureAuthed(). *)
(*                                                                         *)
(* Signing takes as long as the signer likes, so it can outlive the        *)
(* connection, and so can the coroutine that waits for it.  Between two    *)
(* macrotasks every settled promise has run its continuations: an attempt  *)
(* settles together with what its waiters do next.  The relay object has an *)
(* authSigner: without one "auth-required:" is an answer like any other.    *)
(*                                                                         *)
(* A publish of the same event may follow an earlier one, and a           *)
(* subscription is replayed after a reconnect, while the authRetry() that   *)
(* was started before still waits: such a stale one is entry <<r, "old">>.  *)
(***************************************************************************)
EXTENDS Integers, FiniteSets

CONSTANTS
  Publishes,    \* event ids being published
  Counts,       \* COUNT request ids
  Subs,         \* open subscriptions, which survive the connection
  Challenges,   \* challenge strings the relay may use
  Attempts,     \* names of AUTH attempts; those in flight at a time are distinct
  Nobody,       \* JavaScript's undefined
  Rounds        \* ensureAuthed() tries at most so many challenges

ASSUME NobodyAssumption == Nobody \notin Challenges \cup Attempts
ASSUME RoundsAssumption == Rounds \in Nat \ {0}
ASSUME RequestsAssumption ==
  /\ Publishes \cap Counts = {}
  /\ Publishes \cap Subs = {}
  /\ Counts \cap Subs = {}

Tracked == Publishes \cup Counts
Reqs == Tracked \cup Subs
Entries == Reqs \X {"current", "old"}

VARIABLES
  conn,         \* the relay is open
  issued,       \* the challenge the relay issued last on this connection
  relayAuthed,  \* the relay accepted an AUTH for it
  challenge,    \* #challenge
  authed,       \* #authedChallenge
  answered,     \* #answeredChallenge, and whether #answeredResult is ok
  answeredOk,
  promise,      \* #authPromise
  attempt,      \* auth()'s inner coroutine: its stage and captured challenge
  state,        \* each request, or subscription
  timer,        \* requests whose timeout is armed
  authRetried,  \* requests with authRetried set
  waitsFor,     \* the attempt each entry's authRetry() awaits, or Nobody
  round         \* the loop counter of its ensureAuthed()

authVars == <<challenge, authed, answered, answeredOk, promise>>
retryVars == <<waitsFor, round>>
reqVars == <<state, timer, authRetried>>
vars == <<conn, issued, relayAuthed, authVars, attempt, reqVars, retryVars>>

\* "sent" has an entry in a tracker, and "auth" an entry that waits for AUTH.
\* The others say how the request was settled.
Pending == {"sent", "auth"}
Settled == {"done", "authfailed"}

TypeOK ==
  /\ conn \in BOOLEAN
  /\ issued \in Challenges \cup {Nobody}
  /\ relayAuthed \in BOOLEAN
  /\ challenge \in Challenges \cup {Nobody}
  /\ authed \in {challenge, Nobody}
  /\ answered \in {challenge, Nobody}
  /\ answeredOk \in BOOLEAN
  /\ promise \in Attempts \cup {Nobody}
  /\ attempt \in [Attempts -> [stage : {"idle", "signing", "sent"}, ch : Challenges \cup {Nobody}]]
  /\ state \in [Reqs -> {"new"} \cup Pending \cup Settled]
  /\ timer \subseteq {r \in Tracked : state[r] = "sent"}
  /\ authRetried \subseteq Reqs
  /\ waitsFor \in [Entries -> Attempts \cup {Nobody}]
  /\ round \in [Entries -> 0..Rounds]

Idle == [stage |-> "idle", ch |-> Nobody]

Init ==
  /\ conn = FALSE
  /\ issued = Nobody
  /\ relayAuthed = FALSE
  /\ challenge = Nobody /\ authed = Nobody
  /\ answered = Nobody /\ answeredOk = FALSE
  /\ promise = Nobody
  /\ attempt = [a \in Attempts |-> Idle]
  /\ state = [r \in Reqs |-> "new"]
  /\ timer = {}
  /\ authRetried = {}
  /\ waitsFor = [k \in Entries |-> Nobody]
  /\ round = [k \in Entries |-> 0]

Current(r) == <<r, "current">>
Old(r) == <<r, "old">>

Waiting(k) == waitsFor[k] # Nobody

\* The requests R get new entries, and the authRetry() of the old ones goes on: at
\* most one stale authRetry() per request.
Renew(R) ==
  LET old == {r \in R : Waiting(Current(r))}
      aged(f, zero) == [k \in Entries |-> IF k[1] \notin old THEN f[k]
                                         ELSE IF k[2] = "old" THEN f[Current(k[1])] ELSE zero]
  IN /\ \A r \in old : ~Waiting(Old(r))
     /\ waitsFor' = aged(waitsFor, Nobody)
     /\ round' = aged(round, 0)

\* authRetry() looks its entry up again when ensureAuthed() has settled: the
\* request may be settled by then, and published again.
Acts_AnyEntry(k) == state[k[1]] \in Pending

Acts(k) == state[k[1]] \in Pending /\ (k[1] \in Subs \/ k[2] = "current")

-----------------------------------------------------------------------------
(* ensureAuthed() and what follows it.                                     *)

\* authRetry() of the entries T, for which ensureAuthed() returned true: restart
\* the timeout and send again; and of F, for which it returned false or threw.
\* The requests `asking` have just begun to wait.
Finish_NoTimer(T, F, asking) ==
  LET fails(r) == \E k \in F : k[1] = r /\ Acts(k)
      resends(r) == \E k \in T : k[1] = r /\ Acts(k)
  IN /\ state' = [r \in Reqs |-> IF fails(r) \/ (resends(r) /\ ~conn) THEN "authfailed"
                                 ELSE IF resends(r) THEN "sent"
                                 ELSE IF r \in asking THEN "auth" ELSE state[r]]
     /\ timer' = {r \in timer : state'[r] = "sent"}

Finish(T, F, asking) ==
  LET fails(r) == \E k \in F : k[1] = r /\ Acts(k)
      resends(r) == \E k \in T : k[1] = r /\ Acts(k)
  IN /\ state' = [r \in Reqs |-> IF fails(r) \/ (resends(r) /\ ~conn) THEN "authfailed"
                                 ELSE IF resends(r) THEN "sent"
                                 ELSE IF r \in asking THEN "auth" ELSE state[r]]
     /\ timer' = {r \in timer \cup {q \in Tracked : resends(q)} : state'[r] = "sent"}

\* A name for a new attempt, among the attempts att.
Free(att) == {a \in Attempts : att[a].stage = "idle"}
Fresh(att) == CHOOSE a \in Free(att) : TRUE

\* The entries W call auth(), with the attempts att in flight and pr the one to
\* join: without it they are given the cached rejection, or the first of them
\* signs.  T and F have their result already.
Continue(W, T, F, asking, pr, att) ==
  LET signs == W # {} /\ pr = Nobody /\ answered' # challenge
      b == IF signs THEN Fresh(att) ELSE pr
      joined == IF b = Nobody THEN {} ELSE W
      failed == F \cup (W \ joined)
  IN /\ signs => Free(att) # {}
     /\ promise' = b
     /\ attempt' = IF signs THEN [att EXCEPT ![b] = [stage |-> "signing", ch |-> challenge]] ELSE att
     /\ waitsFor' = [k \in Entries |-> IF k \in joined THEN b
                                       ELSE IF k \in T \cup failed THEN Nobody ELSE waitsFor[k]]
     /\ round' = [k \in Entries |-> IF k \in joined /\ round[k] < Rounds THEN round[k] + 1
                                    ELSE IF k \in T \cup failed THEN 0 ELSE round[k]]
     /\ Finish(T, failed, asking)

\* The loop of ensureAuthed() ends after `Rounds` challenges.
TriesLeft_Always(k) == TRUE

TriesLeft(k) == round[k] < Rounds

\* The challenge an answer is for is the one at hand.
StillCurrent_Always(ch) == TRUE

StillCurrent(ch) == challenge = ch

\* Attempt a settles: "ok" and "no" are the relay's verdict, which is cached if the
\* challenge is still current; then every ensureAuthed() that awaits it goes on.
Settle(a, result) ==
  LET ch == attempt[a].ch
      K == {k \in Entries : waitsFor[k] = a}
  IN /\ IF result \in {"ok", "no"} /\ StillCurrent(ch)
        THEN answered' = ch /\ answeredOk' = (result = "ok")
        ELSE UNCHANGED <<answered, answeredOk>>
     /\ authed' = IF result = "ok" /\ StillCurrent(ch) THEN ch ELSE authed
     /\ LET T == {k \in K : result # "threw" /\ authed' = challenge}
            again == {k \in K \ T : result # "threw" /\ challenge \notin {Nobody, ch} /\ TriesLeft(k)}
        IN Continue(again, T, K \ (T \cup again), {},
                    IF promise = a THEN Nobody ELSE promise, [attempt EXCEPT ![a] = Idle])
     /\ UNCHANGED <<challenge, authRetried>>

-----------------------------------------------------------------------------
(* Application calls and timers.                                           *)

\* publish() or count(); a send that throws rejects at once.  A COUNT has an id of
\* its own, while an event may be published again; a publish() of an event that
\* is in flight joins it.
Request(r) ==
  /\ conn /\ r \in Tracked
  /\ state[r] \notin (IF r \in Counts THEN Pending \cup Settled ELSE Pending)
  /\ Renew({r})
  /\ authRetried' = authRetried \ {r}
  /\ \/ state' = [state EXCEPT ![r] = "sent"] /\ timer' = timer \cup {r}
     \/ state' = [state EXCEPT ![r] = "done"] /\ UNCHANGED timer
  /\ UNCHANGED <<conn, issued, relayAuthed, authVars, attempt>>

\* The entry of r is removed and its promise settled.
End(r) ==
  /\ state' = [state EXCEPT ![r] = "done"]
  /\ timer' = timer \ {r}
  /\ UNCHANGED <<conn, issued, relayAuthed, authVars, attempt, authRetried, retryVars>>

Timeout(r) == r \in timer /\ End(r)

\* The abort signal of a COUNT, or close() of a subscription.
Abort(r) == r \in Counts \cup Subs /\ state[r] \in Pending /\ End(r)

\* auth(), by the application or by the pool's listener of the "auth" event.
AuthCall(a) ==
  /\ challenge # Nobody /\ promise = Nobody /\ answered # challenge
  /\ a \in Free(attempt) /\ a = Fresh(attempt)
  /\ promise' = a
  /\ attempt' = [attempt EXCEPT ![a] = [stage |-> "signing", ch |-> challenge]]
  /\ UNCHANGED <<conn, issued, relayAuthed, challenge, authed, answered, answeredOk, reqVars, retryVars>>

\* resetAuth(): forget a cached rejection.
ResetAuth ==
  /\ answered # Nobody /\ ~answeredOk
  /\ answered' = Nobody
  /\ UNCHANGED <<conn, issued, relayAuthed, challenge, authed, answeredOk, promise, attempt, reqVars, retryVars>>

\* The signer answers: the AUTH frame goes out if the relay is open.
Signed(a) ==
  /\ attempt[a].stage = "signing"
  /\ IF conn
     THEN /\ attempt' = [attempt EXCEPT ![a].stage = "sent"]
          /\ UNCHANGED <<authVars, reqVars, retryVars>>
     ELSE Settle(a, "threw")
  /\ UNCHANGED <<conn, issued, relayAuthed>>

\* The signer rejects, or has no key; the latter counts as a refusal.
NotSigned(a) ==
  /\ attempt[a].stage = "signing"
  /\ \E result \in {"threw", "nosigner"} : Settle(a, result)
  /\ UNCHANGED <<conn, issued, relayAuthed>>

AuthTimeout(a) ==
  /\ attempt[a].stage = "sent"
  /\ Settle(a, "threw")
  /\ UNCHANGED <<conn, issued, relayAuthed>>

-----------------------------------------------------------------------------
(* The connection.                                                         *)

\* #failPending() rejects every entry, those of AUTH frames too, whose waiters
\* catch it; a subscription among them is dropped.
SocketDies ==
  /\ conn
  /\ conn' = FALSE /\ issued' = Nobody /\ relayAuthed' = FALSE
  /\ LET dead == {a \in Attempts : attempt[a].stage = "sent"}
         K == {k \in Entries : waitsFor[k] \in dead}
     IN /\ attempt' = [a \in Attempts |-> IF a \in dead THEN Idle ELSE attempt[a]]
        /\ promise' = IF promise \in dead THEN Nobody ELSE promise
        /\ waitsFor' = [k \in Entries |-> IF k \in K THEN Nobody ELSE waitsFor[k]]
        /\ round' = [k \in Entries |-> IF k \in K THEN 0 ELSE round[k]]
        /\ state' = [r \in Reqs |->
             IF state[r] \in Pending /\ (r \in Tracked \/ \E k \in K : k[1] = r) THEN "done" ELSE state[r]]
  /\ timer' = {}
  /\ UNCHANGED <<challenge, authed, answered, answeredOk, authRetried>>

\* resetConnection() and replayAll().
ResetConnection_KeepAnswers ==
  /\ challenge' = Nobody /\ promise' = Nobody
  /\ UNCHANGED <<authed, answered, answeredOk>>

ResetConnection ==
  /\ challenge' = Nobody /\ authed' = Nobody
  /\ answered' = Nobody /\ answeredOk' = FALSE
  /\ promise' = Nobody

Open ==
  /\ ~conn
  /\ conn' = TRUE
  /\ ResetConnection
  /\ LET replayed == {s \in Subs : state[s] \in {"new"} \cup Pending}
     IN /\ state' = [r \in Reqs |-> IF r \in replayed THEN "sent" ELSE state[r]]
        /\ authRetried' = authRetried \ replayed
        /\ Renew(replayed)
  /\ UNCHANGED <<issued, relayAuthed, attempt, timer>>

-----------------------------------------------------------------------------
(* Messages from the relay.                                                *)

\* AUTH: handleChallenge().
RecvAuth(ch) ==
  /\ conn
  /\ issued' = ch
  /\ relayAuthed' = (relayAuthed /\ ch = issued)
  /\ IF ch # challenge
     THEN /\ challenge' = ch /\ authed' = Nobody
          /\ answered' = Nobody /\ answeredOk' = FALSE
          /\ promise' = Nobody
     ELSE UNCHANGED authVars
  /\ UNCHANGED <<conn, attempt, reqVars, retryVars>>

\* OK for an AUTH frame: the relay accepts only the challenge it issued last.
RecvAuthOk(a, ok) ==
  /\ conn /\ attempt[a].stage = "sent"
  /\ ok => attempt[a].ch = issued
  /\ relayAuthed' = (relayAuthed \/ ok)
  /\ Settle(a, IF ok THEN "ok" ELSE "no")
  /\ UNCHANGED <<conn, issued>>

\* OK, COUNT or CLOSED: the request is over.
RecvAnswer(r) == conn /\ state[r] \in Pending /\ End(r)

\* OK or CLOSED with "auth-required:", for the first time.
RecvAuthRequired(r) ==
  /\ conn /\ state[r] = "sent" /\ r \notin authRetried
  /\ ~Waiting(Current(r))
  /\ authRetried' = authRetried \cup {r}
  /\ UNCHANGED <<conn, issued, relayAuthed, challenge, authed, answered, answeredOk>>
  /\ LET k == Current(r)
     IN IF challenge = Nobody THEN Continue({}, {}, {k}, {r}, promise, attempt)
        ELSE IF authed = challenge THEN Continue({}, {k}, {}, {r}, promise, attempt)
        ELSE Continue({k}, {}, {}, {r}, promise, attempt)

Next ==
  \/ \E r \in Reqs : Request(r) \/ Timeout(r) \/ Abort(r) \/ RecvAnswer(r) \/ RecvAuthRequired(r)
  \/ \E a \in Attempts :
       \/ AuthCall(a) \/ Signed(a) \/ NotSigned(a) \/ AuthTimeout(a)
       \/ \E ok \in BOOLEAN : RecvAuthOk(a, ok)
  \/ \E ch \in Challenges : RecvAuth(ch)
  \/ ResetAuth
  \/ SocketDies
  \/ Open

Spec == Init /\ [][Next]_vars

\* Timers fire, and the signer answers, one way or the other.
FairSpec ==
  /\ Spec
  /\ \A r \in Tracked : WF_vars(Timeout(r))
  /\ \A a \in Attempts : WF_vars(Signed(a) \/ NotSigned(a)) /\ WF_vars(AuthTimeout(a))

-----------------------------------------------------------------------------
(* Properties.                                                             *)

\* What the client takes for authenticated the relay takes for authenticated, on
\* this connection and for the challenge it issued last, however late an answer
\* to an earlier challenge or connection comes.
BeliefSound == conn /\ authed # Nobody => authed = issued /\ relayAuthed

\* Nothing pending is forgotten: a request that was sent has its timeout armed, and
\* one that waits for AUTH, where the timeout is paused, waits for an attempt that
\* is still under way.
NoForgottenRequest ==
  /\ \A r \in Tracked : state[r] = "sent" => r \in timer
  /\ \A r \in Reqs : state[r] = "auth" /\ conn => Waiting(Current(r))
  /\ \A k \in Entries : Waiting(k) => attempt[waitsFor[k]].stage # "idle"

\* A publish that follows one of the same event is never settled by the AUTH retry
\* of the earlier one: only its own retry fails a request.
StaleRetryHarmless ==
  [][\A r \in Tracked : state[r] = "sent" /\ state'[r] = "authfailed"
                          => r \notin authRetried /\ r \in authRetried']_vars

\* Every publish and every COUNT settles, even if the relay issues a new challenge
\* whenever one is answered.
RequestsSettle == \A r \in Tracked : state[r] \in Pending ~> state[r] \notin Pending

=============================================================================
