-------------------------------- MODULE Nip46 --------------------------------
(* Nip46Signer (signer/nip46.ts): the requests to a remote signer with their *)
(* listeners and timers, the subscription its answers come by, close(), the  *)
(* resubscription of switchRelays(), and the handshake of                    *)
(* fromNostrConnectURI() that makes a signer.  The transport is one shared   *)
(* pool.  Payloads, keys and methods are left out.                           *)
EXTENDS FiniteSets

CONSTANTS
  Requests,
  Switches,            \* those of switchRelays()
  HandshakeSwitch, HandshakeAsk   \* the two requests of the handshake

VARIABLES
  call,        \* where each #sendRequest() is
  answer,      \* its resultPromise: "pending", "good" or "bad"
  listeners,   \* #listeners
  timers,      \* pairs of a request and its kind of timer
  sub, open,   \* #sub is alive; #open
  wasClosed,   \* history: close() was called
  lateSwitch,  \* history: the switchRelays() calls answered before close()
  handshake,   \* "none", "listening", "switching", "asking", "over"
  outcome      \* of the promise of fromNostrConnectURI()

sigVars == <<call, answer, listeners, timers, sub, open, wasClosed, lateSwitch>>
vars == <<sigVars, handshake, outcome>>

Returned == {"resolved", "rejected", "over"}
Owned == handshake = "none" \/ outcome = "signer"   \* the application has the signer

Init ==
  /\ call = [r \in Requests |-> "idle"] /\ answer = [r \in Requests |-> "pending"]
  /\ listeners = {} /\ timers = {}
  /\ wasClosed = FALSE /\ lateSwitch = {}
  /\ handshake \in {"none", "listening"} /\ outcome = "pending"
  /\ sub = Owned /\ open = Owned   \* fromBunker() subscribes

-----------------------------------------------------------------------------
\* #dropRequest().  Mutant: the timer stays armed.
ClearTimer_Never(r) == timers
ClearTimer(r) == {t \in timers : t[1] # r}

Drop(r) == listeners' = listeners \ {r} /\ timers' = ClearTimer(r)

\* The first part of #sendRequest(), up to publish().
SendOn(r, isOpen) ==
  /\ call[r] = "idle"
  /\ \/ /\ ~isOpen
        /\ call' = [call EXCEPT ![r] = "rejected"]
        /\ UNCHANGED <<listeners, timers, sub, open>>
     \/ /\ isOpen
        /\ call' = [call EXCEPT ![r] = "publishing"]
        /\ listeners' = listeners \cup {r}
        /\ timers' = timers \cup {<<r, "request">>}
        /\ sub' = TRUE /\ open' = TRUE   \* #startSubscription() if there is none
  /\ UNCHANGED <<answer, wasClosed, lateSwitch>>

Send(r) ==
  /\ Owned /\ r \notin {HandshakeSwitch, HandshakeAsk}
  /\ SendOn(r, open)
  /\ UNCHANGED <<handshake, outcome>>

Resulted(r, v) == [answer EXCEPT ![r] = IF @ = "pending" THEN v ELSE @]

\* publish() resolves: some relay accepted the request, or none did and the
\* listener, if it is still there, is rejected; or it throws.
\* Mutant: the request that nobody accepted is dropped and not rejected.
Unaccepted_Dropped(r) == answer
Unaccepted(r) == IF r \in listeners THEN Resulted(r, "bad") ELSE answer

Publish(r) ==
  /\ call[r] = "publishing"
  /\ \/ /\ call' = [call EXCEPT ![r] = "waiting"]
        /\ UNCHANGED <<answer, listeners, timers>>
     \/ /\ call' = [call EXCEPT ![r] = "waiting"]
        /\ answer' = Unaccepted(r)
        /\ Drop(r)
     \/ /\ call' = [call EXCEPT ![r] = "rejected"]
        /\ Drop(r)
        /\ UNCHANGED answer
  /\ UNCHANGED <<sub, open, wasClosed, lateSwitch, handshake, outcome>>

\* An answer comes by the subscription, perhaps before publish() resolves.
Answer(r) ==
  /\ sub /\ r \in listeners
  /\ \E v \in {"good", "bad"} : answer' = Resulted(r, v)
  /\ Drop(r)
  /\ UNCHANGED <<call, sub, open, wasClosed, lateSwitch, handshake, outcome>>

\* "auth_url": the user has more time.
AuthUrl(r) ==
  /\ sub /\ r \in listeners
  /\ timers' = ClearTimer(r) \cup {<<r, "auth">>}
  /\ UNCHANGED <<call, answer, listeners, sub, open, wasClosed, lateSwitch, handshake, outcome>>

\* #requestTimer()
Timeout(r) ==
  /\ \E t \in timers : t[1] = r
  /\ Drop(r)
  /\ answer' = Resulted(r, "bad")
  /\ UNCHANGED <<call, sub, open, wasClosed, lateSwitch, handshake, outcome>>

\* `return resultPromise`
Return(r) ==
  /\ call[r] = "waiting" /\ answer[r] # "pending"
  /\ call' = [call EXCEPT ![r] = IF answer[r] = "good" THEN "resolved" ELSE "rejected"]
  /\ UNCHANGED <<answer, listeners, timers, sub, open, wasClosed, lateSwitch, handshake, outcome>>

\* switchRelays() goes on with the answer: nothing changes, it is invalid and
\* thrown, or the signer subscribes at the new relays, closed or not.
Switch(r) ==
  /\ r \in Switches /\ call[r] = "resolved"
  /\ \/ call' = [call EXCEPT ![r] = "over"] /\ UNCHANGED <<sub, open>>
     \/ call' = [call EXCEPT ![r] = "rejected"] /\ UNCHANGED <<sub, open>>
     \/ call' = [call EXCEPT ![r] = "over"] /\ sub' = TRUE /\ open' = TRUE
  /\ UNCHANGED <<answer, listeners, timers, wasClosed, lateSwitch, handshake, outcome>>

\* The subscription ends: every relay of it failed.
SubEnds ==
  /\ sub /\ sub' = FALSE
  /\ UNCHANGED <<call, answer, listeners, timers, open, wasClosed, lateSwitch, handshake, outcome>>

CloseSigner ==
  /\ open' = FALSE /\ sub' = FALSE
  /\ answer' = [r \in Requests |-> IF r \in listeners THEN "bad" ELSE answer[r]]
  /\ listeners' = {} /\ timers' = {}
  /\ wasClosed' = TRUE
  /\ lateSwitch' = {r \in Switches : answer[r] = "good" /\ call[r] \notin {"rejected", "over"}}
  /\ UNCHANGED call

\* close(), and logout() after its request: by whoever has the signer.
Close ==
  /\ Owned
  /\ open \/ sub
  /\ CloseSigner
  /\ UNCHANGED <<handshake, outcome>>

-----------------------------------------------------------------------------
\* The handshake: the bunker's connect response makes the signer, which asks
\* for its relays and then for its public key.
Respond ==
  /\ handshake = "listening" /\ outcome = "pending"
  /\ handshake' = "switching"
  /\ SendOn(HandshakeSwitch, TRUE)
  /\ UNCHANGED outcome

Ask ==
  /\ handshake = "switching" /\ call[HandshakeSwitch] \in {"rejected", "over"}
  /\ handshake' = "asking"
  /\ SendOn(HandshakeAsk, open)
  /\ UNCHANGED outcome

Finish(v) == outcome' = IF outcome = "pending" THEN v ELSE outcome

Asked ==
  /\ handshake = "asking" /\ call[HandshakeAsk] \in {"resolved", "rejected"}
  /\ handshake' = "over"
  /\ \/ call[HandshakeAsk] = "resolved" /\ Finish("signer") /\ UNCHANGED sigVars
     \/ call[HandshakeAsk] = "rejected" /\ CloseSigner /\ Finish("failed")

\* The handshake's own timer, its signal, or the end of its subscription.
GiveUp ==
  /\ handshake \in {"listening", "switching", "asking"} /\ outcome = "pending"
  /\ outcome' = "failed"
  /\ UNCHANGED <<sigVars, handshake>>

Step(r) == \/ Send(r) \/ Publish(r) \/ Answer(r) \/ AuthUrl(r) \/ Timeout(r)
           \/ Return(r) \/ Switch(r)
Next == (\E r \in Requests : Step(r)) \/ SubEnds \/ Close \/ Respond \/ Ask \/ Asked \/ GiveUp

\* Timers fire and promises go on; publish() settles (Pool, RelayRequests).
Fairness == \A r \in Requests : WF_vars(Publish(r)) /\ WF_vars(Timeout(r)) /\ WF_vars(Return(r))
Spec == Init /\ [][Next]_vars /\ Fairness

-----------------------------------------------------------------------------
(* Every listener has exactly one timer and every timer has its listener: no *)
(* request waits for ever, and none that the user was sent to an auth URL    *)
(* for is rejected by the timer it began with.                               *)
OneTimerEach ==
  /\ {t[1] : t \in timers} = listeners
  /\ Cardinality(timers) = Cardinality(listeners)

(* A closed signer stays closed: no subscription, no listener and no request *)
(* brings it back.  Exempt: a switchRelays() that was answered before        *)
(* close() and goes on after it resubscribes (#startSubscription).           *)
ClosedStaysClosed ==
  wasClosed /\ lateSwitch = {} => ~open /\ ~sub /\ listeners = {}

(* Both: what an open and a closed signer owe their requests.                *)
SignerSound == OneTimerEach /\ ClosedStaysClosed

(* Every request is settled: by its answer, its refusal, its timer or        *)
(* close().                                                                  *)
RequestsReturn == \A r \in Requests : call[r] = "publishing" ~> call[r] \in Returned

(* "Do not leak the signer's subscription on a shared pool." (nip46.ts:358): *)
(* a handshake that failed leaves no signer subscribed.                      *)
NoLeakedSigner == handshake = "over" /\ outcome = "failed" => ~sub

=============================================================================
