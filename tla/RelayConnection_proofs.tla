----------------------- MODULE RelayConnection_proofs -----------------------
(***************************************************************************)
(* Theorems about RelayConnection, for every set of connections,           *)
(* subscriptions and requests and every backoff length.                    *)
(***************************************************************************)
EXTENDS RelayConnection, TLAPS

USE NobodyAssumption, BackoffAssumption

\* Who owns what: the current generation, #ws and #connecting name the same
\* attempt, except that close() still holds the old socket while its callbacks
\* run.  A socket that is heard under the current generation is #ws.
Ownership ==
  /\ connecting # Nobody => cur = connecting /\ ~IsOpen
  /\ ws # Nobody => \/ cur = ws /\ (IsOpen \/ connecting = ws \/ cb = "close")
                    \/ cb = "close" /\ cur = Nobody
  /\ cur # Nobody /\ cur \in listening => ws = cur
  /\ cur # Nobody => ~manualStop
  /\ ping # "off" => IsOpen
  /\ retryAwaits => connecting # Nobody

\* Stopped by the application.
Stopped == manualStop => status \in {"disconnected", "closed"}

PendingOwned ==
  \A r \in Reqs : pending[r] # Nobody => cb = "close" \/ (IsOpen /\ pending[r] = ws)

\* NeverStranded, carried through the callbacks of a socket death.
Wanted ==
  /\ cb = "onclose" => ~opts.reconnect
  /\ cb # "close" /\ WantsReconnect
       => IsOpen \/ connecting # Nobody \/ reconnectTimer \/ retryCatch

IInv ==
  /\ TypeOK
  /\ ConnectionOwned
  /\ Ownership
  /\ Stopped
  /\ SubsServed
  /\ PendingOwned
  /\ NoOrphanSocket
  /\ Wanted

\* Every initial state satisfies the inductive invariant.
LEMMA InitInv == Init => IInv
<1> SUFFICES ASSUME Init PROVE IInv
  OBVIOUS
<1>1. TypeOK
  <2>1. /\ opts \in [reconnect : BOOLEAN, ping : BOOLEAN]
        /\ sock \in [Conns -> SocketState]
        /\ wired \in [Subs -> Conns \cup {Nobody, Threw}]
        /\ pending \in [Reqs -> Conns \cup {Nobody}]
    BY DEF Init, SocketState, NoRequests
  <2>2. attempts \in 0..BackoffLen
    BY DEF Init
  <2> QED
    BY <2>1, <2>2 DEF Init, TypeOK, RelayStatus
<1>2. ConnectionOwned /\ Ownership /\ Stopped /\ SubsServed /\ PendingOwned /\ NoOrphanSocket /\ Wanted
  BY DEF Init, ConnectionOwned, Ownership, Stopped, SubsServed, PendingOwned, NoOrphanSocket,
         Wanted, WantsReconnect, IsOpen, NoRequests
<1> QED
  BY <1>1, <1>2 DEF IInv

\* The backoff index never runs past the table of delays.
LEMMA BumpType == attempts \in 0..BackoffLen => BumpAttempts \in 0..BackoffLen
  BY DEF BumpAttempts

\* Every handler, timer, call and network event preserves it.
LEMMA StepInv == IInv /\ [Next]_vars => IInv'
<1> SUFFICES ASSUME IInv, [Next]_vars PROVE IInv'
  OBVIOUS
<1> USE DEF IInv, TypeOK, RelayStatus, SocketState, ConnectionOwned, Ownership, Stopped, SubsServed,
            PendingOwned, NoOrphanSocket, Wanted, WantsReconnect, IsOpen, Idle, NoRequests,
            netVars, timerVars, userVars
<1>1. ASSUME NEW c \in Conns, Connect(c) PROVE IInv'
  BY <1>1 DEF Connect, StartAttempt
<1>2. ASSUME ConnectThrows PROVE IInv'
  BY <1>2, BumpType DEF ConnectThrows, AttemptThrows, SocketDeath, SocketGone, ScheduleReconnect
<1>3. ASSUME Disconnect PROVE IInv'
  BY <1>3 DEF Disconnect, Stop, Sever, FinishFailed, CloseSocket
<1>4. ASSUME BeginClose PROVE IInv'
  BY <1>4 DEF BeginClose, Stop, FinishFailed
<1>5. ASSUME EndClose PROVE IInv'
  BY <1>5 DEF EndClose, Sever, CloseSocket
<1>6. ASSUME CloseAtOnce PROVE IInv'
  BY <1>6 DEF CloseAtOnce, Stop, Sever, FinishFailed, CloseSocket
<1>7. ASSUME NEW s \in Subs, Subscribe(s) PROVE IInv'
  <2>1. TypeOK'
    <3>1. wired' \in [Subs -> Conns \cup {Nobody, Threw}]
      BY <1>7 DEF Subscribe, ScheduleReconnect
    <3>2. attempts' \in 0..BackoffLen /\ reconnectTimer' \in BOOLEAN
      BY <1>7, BumpType DEF Subscribe, ScheduleReconnect
    <3>3. sock' \in [Conns -> SocketState] /\ pending' \in [Reqs -> Conns \cup {Nobody}]
      BY <1>7 DEF Subscribe, ScheduleReconnect
    <3> QED
      BY <1>7, <3>1, <3>2, <3>3 DEF Subscribe, ScheduleReconnect
  <2>2. (ConnectionOwned /\ Ownership /\ Stopped)'
    BY <1>7 DEF Subscribe, ScheduleReconnect
  <2>3. (SubsServed /\ PendingOwned)'
    BY <1>7 DEF Subscribe, ScheduleReconnect
  <2>4. NoOrphanSocket'
    BY <1>7 DEF Subscribe, ScheduleReconnect
  <2>5. Wanted'
    BY <1>7 DEF Subscribe, ScheduleReconnect
  <2> QED
    BY <2>1, <2>2, <2>3, <2>4, <2>5
<1>8. ASSUME NEW s \in Subs, Unsubscribe(s) PROVE IInv'
  BY <1>8 DEF Unsubscribe
<1>9. ASSUME NEW r \in Reqs, Request(r) PROVE IInv'
  BY <1>9 DEF Request
<1>10. ASSUME NEW c \in Conns, ConnectTimeout(c) PROVE IInv'
  BY <1>10, BumpType DEF ConnectTimeout, Release, FinishFailed, CloseSocket, SocketDeath, SocketGone,
     ScheduleReconnect
<1>11. ASSUME NEW c \in Conns, RetryConnect(c) PROVE IInv'
  BY <1>11 DEF RetryConnect, StartAttempt
<1>12. ASSUME RetryConnectThrows PROVE IInv'
  BY <1>12, BumpType DEF RetryConnectThrows, AttemptThrows, SocketDeath, SocketGone, ScheduleReconnect
<1>13. ASSUME RetryIdle PROVE IInv'
  BY <1>13 DEF RetryIdle
<1>14. ASSUME RetryCatch PROVE IInv'
  <2>1. TypeOK'
    BY <1>14, BumpType, ZenonT(60) DEF RetryCatch, ScheduleReconnect
  <2>2. (ConnectionOwned /\ Ownership /\ Stopped)'
    BY <1>14 DEF RetryCatch, ScheduleReconnect
  <2>3. (SubsServed /\ PendingOwned)'
    BY <1>14 DEF RetryCatch, ScheduleReconnect
  <2>4. NoOrphanSocket'
    BY <1>14 DEF RetryCatch, ScheduleReconnect
  <2>5. Wanted'
    BY <1>14 DEF RetryCatch, ScheduleReconnect
  <2> QED
    BY <2>1, <2>2, <2>3, <2>4, <2>5
<1>15. ASSUME EndOnclose PROVE IInv'
  BY <1>15 DEF EndOnclose
<1>16. ASSUME EndDeath PROVE IInv'
  BY <1>16 DEF EndDeath
<1>17. ASSUME PingTick PROVE IInv'
  BY <1>17 DEF PingTick
<1>18. ASSUME PingTimeout PROVE IInv'
  BY <1>18 DEF PingTimeout, CloseSocket
<1>19. ASSUME NEW c \in Conns, OpenSucceeds(c) PROVE IInv'
  BY <1>19 DEF OpenSucceeds, Replay, FinishOk
<1>20. ASSUME NEW c \in Conns, OpenReplayFails(c) PROVE IInv'
  BY <1>20, BumpType DEF OpenReplayFails, Release, FinishFailed, CloseSocket, ScheduleReconnect
<1>21. ASSUME NEW c \in Conns, OpenStale(c) PROVE IInv'
  BY <1>21 DEF OpenStale, Release, CloseSocket
<1>22. ASSUME NEW c \in Conns, NetError(c) PROVE IInv'
  <2>1. TypeOK'
    <3>1. wired' \in [Subs -> Conns \cup {Nobody, Threw}]
      BY <1>22 DEF NetError, SocketLost, Release, FinishFailed, CloseSocket, SocketDeath, SocketGone,
         ScheduleReconnect
    <3>2. attempts' \in 0..BackoffLen /\ reconnectTimer' \in BOOLEAN
      BY <1>22, BumpType DEF NetError, SocketLost, Release, FinishFailed, CloseSocket,
         SocketDeath, SocketGone, ScheduleReconnect
    <3>3. sock' \in [Conns -> SocketState] /\ pending' \in [Reqs -> Conns \cup {Nobody}]
      BY <1>22 DEF NetError, SocketLost, Release, FinishFailed, CloseSocket, SocketDeath, SocketGone,
         ScheduleReconnect
    <3> QED
      BY <1>22, <3>1, <3>2, <3>3, ZenonT(60) DEF NetError, SocketLost, Release, FinishFailed, CloseSocket,
         SocketDeath, SocketGone, ScheduleReconnect
  <2>2. (ConnectionOwned /\ Ownership /\ Stopped)'
    BY <1>22 DEF NetError, SocketLost, Release, FinishFailed, CloseSocket, SocketDeath, SocketGone,
       ScheduleReconnect
  <2>3. (SubsServed /\ PendingOwned)'
    BY <1>22 DEF NetError, SocketLost, Release, FinishFailed, CloseSocket, SocketDeath, SocketGone,
       ScheduleReconnect
  <2>4. NoOrphanSocket'
    BY <1>22 DEF NetError, SocketLost, Release, FinishFailed, CloseSocket, SocketDeath, SocketGone,
       ScheduleReconnect
  <2>5. Wanted'
    BY <1>22 DEF NetError, SocketLost, Release, FinishFailed, CloseSocket, SocketDeath, SocketGone,
       ScheduleReconnect
  <2> QED
    BY <2>1, <2>2, <2>3, <2>4, <2>5
<1>23. ASSUME NEW c \in Conns, NetClose(c) PROVE IInv'
  <2>1. TypeOK'
    BY <1>23, BumpType, ZenonT(60) DEF NetClose, SocketLost, Release, FinishFailed, CloseSocket, SocketDeath, SocketGone,
       ScheduleReconnect, Unwire
  <2>2. (ConnectionOwned /\ Ownership /\ Stopped)'
    BY <1>23 DEF NetClose, SocketLost, Release, FinishFailed, CloseSocket, SocketDeath, SocketGone,
       ScheduleReconnect, Unwire
  <2>3. (SubsServed /\ PendingOwned)'
    BY <1>23 DEF NetClose, SocketLost, Release, FinishFailed, CloseSocket, SocketDeath, SocketGone,
       ScheduleReconnect, Unwire
  <2>4. NoOrphanSocket'
    BY <1>23 DEF NetClose, SocketLost, Release, FinishFailed, CloseSocket, SocketDeath, SocketGone,
       ScheduleReconnect, Unwire
  <2>5. Wanted'
    BY <1>23 DEF NetClose, SocketLost, Release, FinishFailed, CloseSocket, SocketDeath, SocketGone,
       ScheduleReconnect, Unwire
  <2> QED
    BY <2>1, <2>2, <2>3, <2>4, <2>5
<1>24. ASSUME NEW c \in Conns, NetCloseUnheard(c) PROVE IInv'
  BY <1>24 DEF NetCloseUnheard, Unwire
<1>25. ASSUME NEW c \in Conns, PeerDies(c) PROVE IInv'
  BY <1>25 DEF PeerDies
<1>26. ASSUME PingReply PROVE IInv'
  BY <1>26 DEF PingReply
<1>27. ASSUME NEW r \in Reqs, Settle(r) PROVE IInv'
  BY <1>27 DEF Settle
<1>28. CASE UNCHANGED vars
  BY <1>28 DEF vars
<1> QED
  BY <1>1, <1>2, <1>3, <1>4, <1>5, <1>6, <1>7, <1>8, <1>9, <1>10, <1>11, <1>12, <1>13, <1>14,
     <1>15, <1>16, <1>17, <1>18, <1>19, <1>20, <1>21, <1>22, <1>23, <1>24, <1>25, <1>26, <1>27,
     <1>28 DEF Next, Api, Internal, Network

THEOREM Invariance == Spec => []IInv
  BY InitInv, StepInv, PTL DEF Spec

-----------------------------------------------------------------------------

\* Every variable keeps its type: in particular the backoff never counts past its
\* last delay, and every subscription and request names a connection or nothing.
THEOREM TypeCorrect == Spec => []TypeOK
<1>1. IInv => TypeOK
  BY DEF IInv
<1> QED
  BY <1>1, Invariance, PTL

\* "connected" always means an open socket of the current generation, with no
\* second attempt behind it: the stale-generation guards suffice.
THEOREM ConnectionIsOwned == Spec => []ConnectionOwned
<1>1. IInv => ConnectionOwned
  BY DEF IInv
<1> QED
  BY <1>1, Invariance, PTL

\* A (re)connected relay serves every open subscription on the new connection.
THEOREM SubscriptionsServed == Spec => []SubsServed
<1>1. IInv => SubsServed
  BY DEF IInv
<1> QED
  BY <1>1, Invariance, PTL

\* No request waits on a connection that is gone.
THEOREM RequestsFailWithSocket == Spec => []NoRequestOutlivesSocket
<1>1. IInv => NoRequestOutlivesSocket
  BY DEF IInv, PendingOwned, NoRequestOutlivesSocket
<1> QED
  BY <1>1, Invariance, PTL

\* After close() or disconnect() nothing is under way, and no socket is open or heard
\* but one that connect() in a callback of close() has displaced.
THEOREM StopIsQuiet == Spec => []StopQuiesces
<1>1. ASSUME IInv, manualStop, cb = "none" PROVE StopQuiesces
  <2>1. /\ status \in {"disconnected", "closed"}
        /\ connecting = Nobody /\ cur = Nobody /\ ws = Nobody /\ ping = "off" /\ ~retryAwaits
    BY <1>1 DEF IInv, TypeOK, ConnectionOwned, Ownership, Stopped, IsOpen
  <2>2. \A c \in Conns \ orphans : sock[c] \in {"closing", "closed"} /\ c \notin listening
    BY <1>1, <2>1 DEF IInv, TypeOK, SocketState, NoOrphanSocket
  <2> QED
    BY <2>1, <2>2 DEF StopQuiesces
<1>2. IInv => StopQuiesces
  BY <1>1 DEF StopQuiesces
<1> QED
  BY <1>2, Invariance, PTL

\* No socket stays open behind the relay's back, but one that connect() in a callback
\* of close() has displaced.
THEOREM NoOrphans == Spec => []NoOrphanSocket
<1>1. IInv => NoOrphanSocket
  BY DEF IInv
<1> QED
  BY <1>1, Invariance, PTL

\* A relay that wants its connection back always has something under way.
THEOREM ReconnectNeverStranded == Spec => []NeverStranded
<1>1. IInv => NeverStranded
  BY DEF IInv, Wanted, NeverStranded
<1> QED
  BY <1>1, Invariance, PTL
=============================================================================
