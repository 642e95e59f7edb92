--------------------------- MODULE RelayConnection ---------------------------
(***************************************************************************)
(* The lifecycle of one relay connection: the class Relay of               *)
(* src/relay/relay.ts with its keepalive of src/relay/ping.ts.             *)
(*                                                                         *)
(* Everything runs on one JavaScript thread, so a handler is one step;     *)
(* interleaving comes from socket events, timers, promise continuations    *)
(* and application calls.  The exception is a handler that calls back into *)
(* the application while it is still running (Subscription.onclose and the *)
(* "close" listeners): there cb records how far the handler got, the       *)
(* callbacks may call any Relay method, and nothing else runs until the    *)
(* handler has returned.                                                   *)
(*                                                                         *)
(* A connect() attempt and the socket it creates share one name of Conns.  *)
(* A name whose socket is closed may be used again: the code keeps no      *)
(* reference to it.  The generation number #gen is only ever compared for  *)
(* equality with the value an attempt captured, so cur names the attempt   *)
(* whose captured value is still the current one.                          *)
(***************************************************************************)
EXTENDS Integers, FiniteSets

CONSTANTS
  Conns,        \* names of connect() attempts and of their sockets
  Subs,         \* open REQs of the subscription registry
  Reqs,         \* one-shot requests: EVENT publishes, COUNTs, NEG sessions
  Nobody,       \* JavaScript's undefined
  Threw,        \* the REQ's send threw: the relay never saw it
  BackoffLen    \* number of backoff delays; counting beyond them changes nothing

ASSUME NobodyAssumption == Nobody \notin Conns /\ Threw \notin Conns /\ Nobody # Threw
ASSUME BackoffAssumption == BackoffLen \in Nat \ {0}

VARIABLES
  opts,            \* constructor options enableReconnect and enablePing
  status,          \* #status
  manualStop,      \* #manualStop
  cur,             \* the attempt whose generation is #gen, or Nobody
  ws,              \* #ws and #socketHandlers, which change together
  connecting,      \* #connecting, #connectFinish and #connectTimer
  sock,            \* readyState of each socket; "dead" is OPEN with a silent peer
  listening,       \* sockets that still carry the four listeners
  reconnectTimer,  \* #reconnectTimer is armed
  attempts,        \* #reconnectAttempts
  retryAwaits,     \* the reconnect timer's connect() awaits the attempt in flight
  retryCatch,      \* ... has been rejected and its catch block is about to run
  subs,            \* open subscriptions
  wired,           \* for each subscription, the connection that carries its REQ
  pending,         \* for each request in flight, the connection it was sent on
  ping,            \* the keepalive: off, waiting for its interval, or for a reply
  cb,              \* the handler that is running application callbacks
  event,           \* the lifecycle event that the last step emitted
  orphans          \* history: sockets that connect() inside close()'s callbacks displaced

netVars == <<cur, ws, connecting, sock, listening>>
timerVars == <<reconnectTimer, attempts, retryAwaits, retryCatch>>
userVars == <<subs, wired, pending>>
vars == <<opts, status, manualStop, netVars, timerVars, userVars, ping, cb, event, orphans>>

RelayStatus == {"initialized", "connecting", "connected", "disconnected", "closed"}
SocketState == {"connecting", "open", "dead", "closing", "closed"}

TypeOK ==
  /\ opts \in [reconnect : BOOLEAN, ping : BOOLEAN]
  /\ status \in RelayStatus
  /\ manualStop \in BOOLEAN
  /\ cur \in Conns \cup {Nobody}
  /\ ws \in Conns \cup {Nobody}
  /\ connecting \in Conns \cup {Nobody}
  /\ sock \in [Conns -> SocketState]
  /\ listening \in SUBSET Conns
  /\ reconnectTimer \in BOOLEAN
  /\ attempts \in 0..BackoffLen
  /\ retryAwaits \in BOOLEAN
  /\ retryCatch \in BOOLEAN
  /\ subs \in SUBSET Subs
  /\ wired \in [Subs -> Conns \cup {Nobody, Threw}]
  /\ pending \in [Reqs -> Conns \cup {Nobody}]
  /\ ping \in {"off", "idle", "waiting"}
  /\ cb \in {"none", "close", "onclose", "listeners"}
  /\ event \in {"none", "close", "reconnect"}
  /\ orphans \in SUBSET Conns

NoRequests == [r \in Reqs |-> Nobody]

Init ==
  /\ opts \in [reconnect : BOOLEAN, ping : BOOLEAN]
  /\ status = "initialized"
  /\ manualStop = FALSE
  /\ cur = Nobody
  /\ ws = Nobody
  /\ connecting = Nobody
  /\ sock = [c \in Conns |-> "closed"]
  /\ listening = {}
  /\ reconnectTimer = FALSE
  /\ attempts = 0
  /\ retryAwaits = FALSE
  /\ retryCatch = FALSE
  /\ subs = {}
  /\ wired = [s \in Subs |-> Nobody]
  /\ pending = NoRequests
  /\ ping = "off"
  /\ cb = "none"
  /\ event = "none"
  /\ orphans = {}

IsOpen == status = "connected"

\* Socket events and timers are macrotasks: no handler is running and no
\* promise continuation is due.
Idle == cb = "none" /\ ~retryCatch

-----------------------------------------------------------------------------
(* Pieces of the handlers.                                                 *)

CloseSocket(st) == IF st \in {"connecting", "open", "dead"} THEN "closing" ELSE st

Release_Always(c, st) ==
  /\ listening' = listening \ {c}
  /\ sock' = [sock EXCEPT ![c] = CloseSocket(st)]
  /\ ws' = Nobody

\* release() of attempt c, once its socket has reached state st.
Release(c, st) ==
  /\ listening' = listening \ {c}
  /\ sock' = [sock EXCEPT ![c] = CloseSocket(st)]
  /\ ws' = IF ws = c THEN Nobody ELSE ws

\* finish(err) of attempt c; a settled attempt is no longer `connecting`.
FinishFailed(c) ==
  IF connecting = c
  THEN /\ connecting' = Nobody
       /\ retryAwaits' = FALSE
       /\ retryCatch' = (retryCatch \/ retryAwaits)
  ELSE UNCHANGED <<connecting, retryAwaits, retryCatch>>

FinishOk(c) ==
  /\ connecting' = IF connecting = c THEN Nobody ELSE connecting
  /\ retryAwaits' = (retryAwaits /\ connecting # c)
  /\ UNCHANGED retryCatch

BumpAttempts_NoCap == attempts + 1

BumpAttempts == IF attempts < BackoffLen THEN attempts + 1 ELSE BackoffLen

ScheduleReconnect_GiveUp(armed) ==
  IF armed \/ status' = "connected" \/ attempts = BackoffLen
  THEN reconnectTimer' = armed /\ UNCHANGED attempts
  ELSE reconnectTimer' = TRUE /\ attempts' = BumpAttempts

\* #scheduleReconnect(), when the timer is `armed` on entry.
ScheduleReconnect(armed) ==
  IF armed \/ status' = "connected"
  THEN reconnectTimer' = armed /\ UNCHANGED attempts
  ELSE reconnectTimer' = TRUE /\ attempts' = BumpAttempts

\* #handleSocketDeath() for the current generation, #failPending() apart.  Its
\* callbacks run in the phases "onclose" (closeAll) and "listeners" ("close").
SocketGone(fromAttempt, stopped, armed) ==
  /\ cur' = Nobody
  /\ ping' = "off"
  /\ LET canReconnect == opts.reconnect /\ ~stopped /\ subs # {}
         quiet == fromAttempt /\ subs = {}
     IN /\ status' = IF ~canReconnect /\ quiet THEN "closed" ELSE "disconnected"
        /\ IF canReconnect
           THEN ScheduleReconnect(armed)
           ELSE reconnectTimer' = armed /\ UNCHANGED attempts
        /\ cb' = IF canReconnect \/ quiet THEN "none"
                 ELSE IF subs = {} THEN "listeners" ELSE "onclose"
        /\ event' = IF cb' = "listeners" /\ ~stopped THEN "close" ELSE "none"

SocketDeath_KeepPending(fromAttempt, stopped, armed) ==
  SocketGone(fromAttempt, stopped, armed) /\ UNCHANGED pending

\* #handleSocketDeath().
SocketDeath(fromAttempt, stopped, armed) ==
  SocketGone(fromAttempt, stopped, armed) /\ pending' = NoRequests

Stop_LeaveAttempt(st) ==
  /\ cur' = Nobody
  /\ status' = st
  /\ manualStop' = TRUE
  /\ reconnectTimer' = FALSE
  /\ ping' = "off"
  /\ UNCHANGED <<connecting, retryAwaits, retryCatch, attempts>>

\* The part close() and disconnect() share before any callback runs.
Stop(st) ==
  /\ cur' = Nobody
  /\ status' = st
  /\ manualStop' = TRUE
  /\ reconnectTimer' = FALSE
  /\ ping' = "off"
  /\ FinishFailed(connecting)
  /\ UNCHANGED attempts

\* #failPending(), #detachSocketHandlers() and #teardownSocket().
Sever_KeepSocket ==
  /\ pending' = NoRequests
  /\ listening' = listening \ {ws}
  /\ ws' = Nobody
  /\ UNCHANGED sock

Sever ==
  /\ pending' = NoRequests
  /\ listening' = listening \ {ws}
  /\ ws' = Nobody
  /\ sock' = [c \in Conns |-> IF c = ws THEN CloseSocket(sock[c]) ELSE sock[c]]

\* The synchronous part of connect(): a new generation and a new socket.  Inside the
\* callbacks of close() it displaces the socket that close() has yet to sever.
\* Bound: not while an earlier such socket keeps its name.
StartAttempt(c) ==
  /\ sock[c] = "closed"
  /\ cb = "close" => orphans = {}
  /\ cur' = c
  /\ connecting' = c
  /\ status' = "connecting"
  /\ manualStop' = FALSE
  /\ reconnectTimer' = FALSE
  /\ ws' = c
  /\ sock' = [sock EXCEPT ![c] = "connecting"]
  /\ listening' = listening \cup {c}
  /\ orphans' = (IF cb = "close" /\ ws # Nobody THEN orphans \cup {ws} ELSE orphans) \ {c}
  /\ UNCHANGED <<attempts, retryCatch, userVars, ping, cb>>

\* connect() when the WebSocket constructor throws.
AttemptThrows ==
  /\ manualStop' = FALSE
  /\ SocketDeath(TRUE, FALSE, FALSE)
  /\ UNCHANGED <<ws, connecting, sock, listening, retryAwaits, subs, wired, orphans>>

-----------------------------------------------------------------------------
(* Application calls.  They may come from a callback, whatever cb is.      *)

\* connect() with no open connection and no attempt to join.
Connect(c) ==
  /\ ~IsOpen /\ connecting = Nobody
  /\ StartAttempt(c)
  /\ event' = "none"
  /\ UNCHANGED <<opts, retryAwaits>>

\* Bound: the constructor throws only outside callbacks.
ConnectThrows ==
  /\ cb = "none"
  /\ ~IsOpen /\ connecting = Nobody
  /\ AttemptThrows
  /\ UNCHANGED <<opts, retryCatch>>

\* disconnect(): the subscriptions stay.
Disconnect ==
  /\ Stop("disconnected")
  /\ Sever
  /\ event' = "none"
  /\ UNCHANGED <<opts, subs, wired, cb, orphans>>

\* close() up to the callbacks of closeAll(); they see some groups unlinked.
BeginClose ==
  /\ cb = "none" /\ subs # {}
  /\ Stop("closed")
  /\ cb' = "close"
  /\ subs' \in SUBSET subs
  /\ wired' = [s \in Subs |-> IF s \in subs' THEN wired[s] ELSE Nobody]
  /\ event' = "none"
  /\ UNCHANGED <<opts, ws, sock, listening, pending, orphans>>

\* The rest of close(): the registry's maps are cleared, then `finally`.
EndClose ==
  /\ cb = "close"
  /\ subs' = {}
  /\ wired' = [s \in Subs |-> Nobody]
  /\ Sever
  /\ cb' = "none"
  /\ event' = "close"
  /\ UNCHANGED <<opts, status, manualStop, cur, connecting, timerVars, ping, orphans>>

\* close() with nothing to call back, or called from a callback.
CloseAtOnce ==
  /\ cb # "none" \/ subs = {}
  /\ Stop("closed")
  /\ subs' = {}
  /\ wired' = [s \in Subs |-> Nobody]
  /\ Sever
  /\ event' = "close"
  /\ UNCHANGED <<opts, cb, orphans>>

\* subscribe(): the REQ goes out at once, or waits for a (re)connect.
Subscribe(s) ==
  /\ s \notin subs
  /\ IsOpen \/ opts.reconnect
  /\ subs' = subs \cup {s}
  /\ UNCHANGED status
  /\ IF IsOpen
     THEN /\ wired' \in {[wired EXCEPT ![s] = ws], [wired EXCEPT ![s] = Threw]}
          /\ UNCHANGED <<reconnectTimer, attempts>>
     ELSE /\ UNCHANGED wired
          /\ ScheduleReconnect(reconnectTimer)
  /\ event' = "none"
  /\ UNCHANGED <<opts, manualStop, netVars, retryAwaits, retryCatch, pending, ping, cb, orphans>>

Unsubscribe(s) ==
  /\ s \in subs
  /\ subs' = subs \ {s}
  /\ wired' = [wired EXCEPT ![s] = Nobody]
  /\ event' = "none"
  /\ UNCHANGED <<opts, status, manualStop, netVars, timerVars, pending, ping, cb, orphans>>

\* publish(), count(), negReconcile(): refused unless the socket is open.
Request(r) ==
  /\ IsOpen
  /\ pending[r] = Nobody
  /\ pending' = [pending EXCEPT ![r] = ws]
  /\ event' = "none"
  /\ UNCHANGED <<opts, status, manualStop, netVars, timerVars, subs, wired, ping, cb, orphans>>

-----------------------------------------------------------------------------
(* Timers, promise continuations and the ends of callback phases.          *)

ConnectTimeout_IfOwned(c) ==
  /\ Idle /\ connecting = c /\ ws = c
  /\ Release(c, sock[c])
  /\ FinishFailed(c)
  /\ SocketDeath(TRUE, manualStop, reconnectTimer)
  /\ UNCHANGED <<opts, manualStop, subs, wired, orphans>>

ConnectTimeout(c) ==
  /\ Idle /\ connecting = c
  /\ Release(c, sock[c])
  /\ FinishFailed(c)
  /\ SocketDeath(TRUE, manualStop, reconnectTimer)
  /\ UNCHANGED <<opts, manualStop, subs, wired, orphans>>

\* #reconnectTimer fires and its connect() starts an attempt.
RetryConnect(c) ==
  /\ Idle /\ reconnectTimer
  /\ ~manualStop /\ ~IsOpen /\ connecting = Nobody
  /\ StartAttempt(c)
  /\ retryAwaits' = TRUE
  /\ event' = "none"
  /\ UNCHANGED opts

RetryConnectThrows ==
  /\ Idle /\ reconnectTimer
  /\ ~manualStop /\ ~IsOpen /\ connecting = Nobody
  /\ AttemptThrows
  /\ retryCatch' = TRUE
  /\ UNCHANGED opts

\* #reconnectTimer fires and finds nothing to start: the relay was stopped, is
\* open, or has an attempt in flight, which connect() joins.
RetryIdle ==
  /\ Idle /\ reconnectTimer
  /\ manualStop \/ IsOpen \/ connecting # Nobody
  /\ reconnectTimer' = FALSE
  /\ retryAwaits' = (retryAwaits \/ (~manualStop /\ ~IsOpen))
  /\ event' = "none"
  /\ UNCHANGED <<opts, status, manualStop, netVars, attempts, retryCatch, userVars, ping, cb, orphans>>

\* The catch block of the reconnect timer's connect().
RetryCatch ==
  /\ cb = "none" /\ retryCatch
  /\ retryCatch' = FALSE
  /\ UNCHANGED status
  /\ IF opts.reconnect /\ ~manualStop /\ subs # {} /\ ~IsOpen
     THEN ScheduleReconnect(reconnectTimer)
     ELSE UNCHANGED <<reconnectTimer, attempts>>
  /\ event' = "none"
  /\ UNCHANGED <<opts, manualStop, netVars, retryAwaits, userVars, ping, cb, orphans>>

\* closeAll() is done: the "close" listeners are next.
EndOnclose ==
  /\ cb = "onclose"
  /\ cb' = "listeners"
  /\ subs' = {}
  /\ wired' = [s \in Subs |-> Nobody]
  /\ event' = IF manualStop THEN "none" ELSE "close"
  /\ UNCHANGED <<opts, status, manualStop, netVars, timerVars, pending, ping, orphans>>

\* #handleSocketDeath() returns, and sets the status whatever the callbacks did.
EndDeath ==
  /\ cb = "listeners"
  /\ cb' = "none"
  /\ status' = "closed"
  /\ event' = "none"
  /\ UNCHANGED <<opts, manualStop, netVars, timerVars, userVars, ping, orphans>>

\* #pingpong(): a dummy REQ or a native ping, one at a time.
PingTick ==
  /\ Idle /\ ping = "idle"
  /\ ws # Nobody /\ sock[ws] \in {"open", "dead"}
  /\ ping' = "waiting"
  /\ event' = "none"
  /\ UNCHANGED <<opts, status, manualStop, netVars, timerVars, userVars, cb, orphans>>

\* The ping timeout: forget the probe and close the socket; onClose does the rest.
PingTimeout_Forget ==
  /\ Idle /\ ping = "waiting"
  /\ ping' = "idle"
  /\ event' = "none"
  /\ UNCHANGED <<opts, status, manualStop, netVars, timerVars, userVars, cb, orphans>>

PingTimeout ==
  /\ Idle /\ ping = "waiting"
  /\ ping' = "idle"
  /\ sock' = [c \in Conns |-> IF c = ws THEN CloseSocket(sock[c]) ELSE sock[c]]
  /\ event' = "none"
  /\ UNCHANGED <<opts, status, manualStop, cur, ws, connecting, listening, timerVars, userVars, cb, orphans>>

-----------------------------------------------------------------------------
(* The network and the remote relay.                                       *)

\* onOpen: the REQ of every open subscription is sent again on c.
Replay_OnlyNew(c) == [s \in Subs |-> IF s \in subs /\ wired[s] = Nobody THEN c ELSE wired[s]]

Replay(c) == [s \in Subs |-> IF s \in subs THEN c ELSE wired[s]]

OpenSucceeds(c) ==
  /\ Idle /\ sock[c] = "connecting" /\ c \in listening /\ cur = c
  /\ sock' = [sock EXCEPT ![c] = "open"]
  /\ status' = "connected"
  /\ wired' = Replay(c)
  /\ attempts' = 0
  /\ ping' = IF opts.ping THEN "idle" ELSE "off"
  /\ event' = IF attempts > 0 THEN "reconnect" ELSE "none"
  /\ FinishOk(c)
  /\ UNCHANGED <<opts, manualStop, cur, ws, listening, reconnectTimer, subs, pending, cb, orphans>>

\* onOpen, when a replayed REQ could not be sent: the generation is kept.
OpenReplayFails(c) ==
  /\ Idle /\ sock[c] = "connecting" /\ c \in listening /\ cur = c
  /\ subs # {}
  /\ status' = "disconnected"
  /\ Release(c, "open")
  /\ FinishFailed(c)
  /\ IF opts.reconnect /\ ~manualStop
     THEN ScheduleReconnect(reconnectTimer)
     ELSE UNCHANGED <<reconnectTimer, attempts>>
  /\ event' = "none"
  /\ UNCHANGED <<opts, manualStop, cur, userVars, ping, cb, orphans>>

\* onOpen of a superseded attempt: release() and nothing else.
OpenStale(c) ==
  /\ Idle /\ sock[c] = "connecting" /\ c \in listening /\ cur # c
  /\ Release(c, "open")
  /\ event' = "none"
  /\ UNCHANGED <<opts, status, manualStop, cur, connecting, timerVars, userVars, ping, cb, orphans>>

\* onError and onClose, guarded by the generation, the socket being left in state st.
SocketLost(c, st) ==
  /\ Release(c, st)
  /\ IF cur = c
     THEN /\ FinishFailed(c)
          /\ SocketDeath(connecting = c, manualStop, reconnectTimer)
     ELSE /\ event' = "none"
          /\ UNCHANGED <<status, cur, connecting, timerVars, pending, ping, cb>>
  /\ UNCHANGED <<opts, manualStop, subs, orphans>>

NetError(c) ==
  /\ Idle /\ sock[c] \in {"connecting", "open"} /\ c \in listening
  /\ SocketLost(c, sock[c])
  /\ UNCHANGED wired

\* The remote forgets every REQ of a connection that is gone.
Unwire(c) == [s \in Subs |-> IF wired[s] = c THEN Nobody ELSE wired[s]]

NetClose(c) ==
  /\ Idle /\ sock[c] \in {"connecting", "open", "closing"} /\ c \in listening
  /\ SocketLost(c, "closed")
  /\ wired' = Unwire(c)

\* A socket with no listeners left closes unnoticed.
NetCloseUnheard(c) ==
  /\ Idle /\ sock[c] \in {"connecting", "open", "closing"} /\ c \notin listening
  /\ sock' = [sock EXCEPT ![c] = "closed"]
  /\ wired' = Unwire(c)
  /\ event' = "none"
  /\ UNCHANGED <<opts, status, manualStop, cur, ws, connecting, listening, timerVars,
                 subs, pending, ping, cb, orphans>>

\* The peer vanishes without a FIN: nothing is ever received again.
PeerDies(c) ==
  /\ Idle /\ sock[c] = "open"
  /\ sock' = [sock EXCEPT ![c] = "dead"]
  /\ event' = "none"
  /\ UNCHANGED <<opts, status, manualStop, cur, ws, connecting, listening, timerVars,
                 userVars, ping, cb, orphans>>

\* A pong, or the EOSE or CLOSED of the dummy REQ.
PingReply ==
  /\ Idle /\ ping = "waiting"
  /\ ws # Nobody /\ sock[ws] = "open"
  /\ ping' = "idle"
  /\ event' = "none"
  /\ UNCHANGED <<opts, status, manualStop, netVars, timerVars, userVars, cb, orphans>>

\* The request is answered, or its own timeout fires.
Settle(r) ==
  /\ Idle /\ pending[r] # Nobody
  /\ pending' = [pending EXCEPT ![r] = Nobody]
  /\ event' = "none"
  /\ UNCHANGED <<opts, status, manualStop, netVars, timerVars, subs, wired, ping, cb, orphans>>

-----------------------------------------------------------------------------

Api ==
  \/ \E c \in Conns : Connect(c)
  \/ ConnectThrows
  \/ Disconnect
  \/ BeginClose
  \/ CloseAtOnce
  \/ \E s \in Subs : Subscribe(s) \/ Unsubscribe(s)
  \/ \E r \in Reqs : Request(r)

Internal ==
  \/ EndClose
  \/ EndOnclose
  \/ EndDeath
  \/ RetryCatch
  \/ RetryIdle
  \/ RetryConnectThrows
  \/ PingTick
  \/ PingTimeout
  \/ \E c \in Conns : ConnectTimeout(c) \/ RetryConnect(c)

Network ==
  \/ \E c \in Conns :
       \/ OpenSucceeds(c)
       \/ OpenReplayFails(c)
       \/ OpenStale(c)
       \/ NetError(c)
       \/ NetClose(c)
       \/ NetCloseUnheard(c)
       \/ PeerDies(c)
  \/ PingReply
  \/ \E r \in Reqs : Settle(r)

Next == Api \/ Internal \/ Network

Spec == Init /\ [][Next]_vars

\* Handlers run to completion, timers that stay due fire, and a socket close()
\* was called on gets its close event.  Nothing is assumed of the application,
\* nor of the remote relay, which may refuse every connection.
Fairness ==
  /\ WF_vars(EndClose \/ EndOnclose \/ EndDeath \/ RetryCatch)
  /\ WF_vars(PingTick \/ PingTimeout)
  /\ WF_vars(\E c \in Conns : ConnectTimeout(c))
  /\ \A c \in Conns : WF_vars(sock[c] = "closing" /\ (NetClose(c) \/ NetCloseUnheard(c)))

FairSpec == Spec /\ Fairness

-----------------------------------------------------------------------------
(* Properties.                                                             *)

\* A relay that reports "connected" has exactly one settled attempt behind it:
\* its socket is the current one, of the current generation, still heard, and
\* the keepalive runs iff it was asked for.  (#isOpen() is the guard of every
\* send, so a stale "connected" would write to a dead socket.)
ConnectionOwned ==
  IsOpen => /\ ws # Nobody /\ cur = ws /\ ws \in listening
            /\ sock[ws] \in {"open", "dead", "closing"}
            /\ connecting = Nobody /\ cb = "none" /\ ~manualStop
            /\ ping # "off" <=> opts.ping

\* While connected, every open subscription has its REQ on this connection and
\* not on an earlier one, unless its own send threw: replayAll() misses none,
\* whatever was opened or closed while the relay was away.
SubsServed == IsOpen => \A s \in subs : wired[s] \in {ws, Threw}

\* No EVENT, COUNT or NEG request waits for an answer from a connection that is
\* gone: #failPending() has rejected it.
NoRequestOutlivesSocket ==
  cb = "none" => \A r \in Reqs : pending[r] # Nobody => IsOpen /\ pending[r] = ws

\* After close() or disconnect() returns, and until the next connect(), the relay has
\* no attempt, no keepalive, no socket that is open and none that is still heard.  The
\* exception is a socket of orphans: when an onclose callback of close() connects, #ws
\* is the new socket, which the rest of close() severs, and the one that close() was
\* called for stays open and heard until it fails by itself.
StopQuiesces ==
  manualStop /\ cb = "none" =>
    /\ status \in {"disconnected", "closed"}
    /\ connecting = Nobody /\ cur = Nobody /\ ws = Nobody /\ ping = "off"
    /\ ~retryAwaits
    /\ \A c \in Conns \ orphans : sock[c] \in {"closing", "closed"} /\ c \notin listening

\* No socket is left open or heard behind the relay's back: it is #ws, or one of
\* orphans, which connect() in a callback of close() has displaced.
NoOrphanSocket ==
  \A c \in Conns \ orphans :
    sock[c] \in {"connecting", "open", "dead"} \/ c \in listening => c = ws

\* Every connect() settles: by the socket, by close() or disconnect(), or by its
\* own timer, even when close() has already severed its socket.
AttemptSettles == connecting # Nobody ~> connecting = Nobody

\* The keepalive replaces a connection whose peer is silent.
DeadPeerDetected == (opts.ping /\ IsOpen /\ sock[ws] = "dead") ~> ~IsOpen

\* With enableReconnect, a relay that still has subscriptions and was not stopped
\* is never stranded: between handlers it is open, or an attempt is in flight, or
\* the reconnect timer is armed, or the catch block that arms it is due.
WantsReconnect == opts.reconnect /\ ~manualStop /\ subs # {}

NeverStranded ==
  cb = "none" /\ WantsReconnect => IsOpen \/ connecting # Nobody \/ reconnectTimer \/ retryCatch

\* src/relay/relay.ts says the "close" event is terminal and that a transient
\* disconnect with reconnect does not fire it: no reconnect may then be pending.
CloseEventIsTerminal == event = "close" /\ ~manualStop => ~reconnectTimer

=============================================================================
