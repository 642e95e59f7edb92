------------------------------- MODULE RelayPool -------------------------------
(***************************************************************************)
(* The pool of relays: the class Pool of src/relay/pool.ts, which hands    *)
(* out one Relay per URL to its callers, evicts idle ones, and suspends a  *)
(* relay that sends too many invalid events.                               *)
(*                                                                         *)
(* A caller is one call of ensureRelay() together with what its caller     *)
(* does with the relay in the continuation of the await: subscribe() (the  *)
(* fan-in of Pool.subscribe()), Relay.fetch() or a one-shot request.  A    *)
(* Relay is what RelayConnection promises: whether it is down, stopped by  *)
(* close() or disconnect(), connecting or open, whether its reconnect      *)
(* timer is armed, and which callers it rejects.  Socket events and timers *)
(* are macrotasks: they find no continuation due.  A timer that is due may *)
(* run late, after any number of other events (a throttled page, a busy    *)
(* event loop).                                                            *)
(*                                                                         *)
(* Which idle relay is the least recently used, and which have been idle   *)
(* long enough, is left open: #lastActivity is not modelled.               *)
(***************************************************************************)
EXTENDS Integers, FiniteSets, Sequences

CONSTANTS
  Urls,             \* normalized relay URLs
  Relays,           \* names of Relay objects; one nobody refers to is used again
  Callers,          \* calls of ensureRelay()
  Watched,          \* bound: the callers that liveness is checked for; all are alike
  Nobody,           \* JavaScript's undefined
  PinnedUrls,       \* option pinnedUrls
  MaxRelays,        \* option maxRelays
  EnableReconnect,  \* option enableReconnect, passed on to every Relay
  Limit,            \* invalidEventPolicy.limit
  Cooldown,         \* invalidEventPolicy.cooldownMs, in ticks of the clock
  Faulty,           \* bound: the URLs whose relays send events that fail to verify
  MaxTimers         \* bound: resume timers of one URL that run at the same time

ASSUME NobodyAssumption == Nobody \notin Relays \cup Urls \cup Int
ASSUME OptionsAssumption ==
  /\ Watched \subseteq Callers /\ PinnedUrls \subseteq Urls
  /\ MaxRelays \in Nat \ {0}
  /\ EnableReconnect \in BOOLEAN
  /\ Limit \in Nat
  /\ Cooldown \in Nat \ {0}
  /\ Faulty \subseteq Urls
  /\ MaxTimers \in Nat \ {0}

VARIABLES
  relays,     \* #relays: the pooled relay of each URL
  url,        \* the URL each Relay was created for
  status,     \* what each Relay does
  timers,     \* the Relays whose #reconnectTimer is armed
  caller,     \* where each caller is, with its URL, its relay and its use of it
  invalid,    \* #invalidEvents: failures inside the sliding window
  suspended,  \* #suspendedUntil: ticks until the suspension lifts
  resume,     \* ticks left of the resume timers of each URL, oldest first
  recorded,   \* whether #resumeTimers names the newest of them
  strays      \* history: relays that the pool let go of and that may still connect

relayVars == <<status, timers>>
suspensionVars == <<suspended, resume, recorded>>
vars == <<relays, url, relayVars, caller, invalid, suspensionVars, strays>>

\* "await" waits for connect(); "got", "failing" and "attach" have a continuation
\* due: after the await, in the catch block, or in the catch block of the fan-in.
Stages == {"idle", "await", "got", "failing", "attach", "using"}
Continuations == {"got", "failing", "attach"}

\* The kind is what a caller that is using its relay does with it.  A "fetch" still
\* waits for its connection; then it is a "sub".
Kinds == {"sub", "request", "fetch"}
States == {"down", "stopped", "connecting", "open"}
Calls == [stage : Stages, url : Urls \cup {Nobody}, relay : Relays \cup {Nobody}, kind : Kinds]

NoCall == [stage |-> "idle", url |-> Nobody, relay |-> Nobody, kind |-> "request"]

Typed ==
  /\ relays \in [Urls -> Relays \cup {Nobody}]
  /\ url \in [Relays -> Urls \cup {Nobody}]
  /\ status \in [Relays -> States]
  /\ timers \in SUBSET Relays
  /\ caller \in [Callers -> Calls]
  /\ invalid \in [Urls -> 0..Limit]
  /\ suspended \in [Urls -> 0..Cooldown \cup {Nobody}]
  /\ strays \in SUBSET Relays

\* Relays and callers know their URL, and who waits has something to wait for.
Linked ==
  /\ \A u \in Urls : relays[u] # Nobody => url[relays[u]] = u
  /\ \A r \in Relays : status[r] # "down" \/ r \in timers => url[r] \in Urls
  /\ \A c \in Callers :
       /\ caller[c].stage # "idle" => caller[c].url \in Urls
       /\ caller[c].stage \notin {"idle", "attach"} => caller[c].relay \in Relays
       /\ caller[c].stage = "await" => status[caller[c].relay] = "connecting"
       /\ caller[c].stage = "got" => status[caller[c].relay] # "down"

\* A resume timer that #resumeTimers names is running.
Clocked ==
  /\ resume \in [Urls -> Seq(0..Cooldown)]
  /\ recorded \in [Urls -> BOOLEAN]
  /\ \A u \in Urls : recorded[u] => resume[u] # <<>>

TypeOK == Typed /\ Linked /\ Clocked

Init ==
  /\ relays = [u \in Urls |-> Nobody]
  /\ url = [r \in Relays |-> Nobody]
  /\ status = [r \in Relays |-> "down"]
  /\ timers = {}
  /\ caller = [c \in Callers |-> NoCall]
  /\ invalid = [u \in Urls |-> 0]
  /\ suspended = [u \in Urls |-> Nobody]
  /\ resume = [u \in Urls |-> <<>>]
  /\ recorded = [u \in Urls |-> FALSE]
  /\ strays = {}

-----------------------------------------------------------------------------
(* What the pool asks of a relay.                                          *)

\* A relay that is connected, or that connects by itself in a moment.
Live(r) == status[r] \in {"connecting", "open"} \/ (status[r] = "down" /\ r \in timers)

Users(r) == {c \in Callers : caller[c].relay = r /\ caller[c].stage = "using"}
HasSubs(r) == \E c \in Users(r) : caller[c].kind = "sub"

\* isIdle(): not connecting, no subscription and no request in flight.
IsIdle(r) == status[r] # "connecting" /\ Users(r) = {}

Waiters(R) == {c \in Callers : caller[c].relay \in R /\ caller[c].stage = "await"}

\* The relays R stop: connect() rejects, requests fail, and subscriptions end too
\* unless they are kept for a reconnect.
Dropped_LeaveWaiters(R, keepSubs) ==
  [c \in Callers |->
     IF caller[c].relay \in R /\ caller[c].stage = "using" /\ (caller[c].kind # "sub" \/ ~keepSubs)
     THEN NoCall ELSE caller[c]]

Dropped(R, keepSubs) ==
  [c \in Callers |->
     IF c \in Waiters(R) THEN [caller[c] EXCEPT !.stage = "failing"]
     ELSE IF caller[c].relay \in R /\ caller[c].stage = "using" /\ (caller[c].kind # "sub" \/ ~keepSubs)
     THEN NoCall ELSE caller[c]]

\* closeRelays() of the URLs U: close() each relay and forget it.
ClosedRelays(U) == {relays[u] : u \in U} \ {Nobody}
Forgotten(U) == [u \in Urls |-> IF u \in U THEN Nobody ELSE relays[u]]
DownStatus(R) == [r \in Relays |-> IF r \in R THEN "stopped" ELSE status[r]]

\* clearTimeout() for the URLs U: only the newest timer can be named, and only as
\* long as no older one has fired and removed the name.
Cleared(U) ==
  [u \in Urls |-> IF u \in U /\ recorded[u] THEN SubSeq(resume[u], 1, Len(resume[u]) - 1) ELSE resume[u]]
Unrecorded(U) == [u \in Urls |-> recorded[u] /\ u \notin U]

Macrotask == \A c \in Callers : caller[c].stage \notin Continuations

-----------------------------------------------------------------------------
(* ensureRelay() and its callers.                                          *)

Pooled == {u \in Urls \ PinnedUrls : relays[u] # Nobody}

\* #enforceMaxRelays(): the URLs it may close to make room for u.
Evictions(u) ==
  LET idle == {v \in Pooled : IsIdle(relays[v])}
  IN IF u \in PinnedUrls \/ Cardinality(Pooled) < MaxRelays \/ idle = {}
     THEN {{}} ELSE {{v} : v \in idle}

\* A Relay object that is new, or that nobody refers to any more.
Unused(r) ==
  /\ ~Live(r) /\ r \notin timers
  /\ \A u \in Urls : relays[u] # r
  /\ \A c \in Callers : caller[c].relay # r
NewRelay == CHOOSE r \in Relays : Unused(r)

Rejects(u) == suspended[u] \in 1..Cooldown

\* connect() of relay r, which is not open: it joins the attempt under way, or starts
\* one and clears the reconnect timer.  If the attempt that has just failed was the
\* timer's own, its catch block is still to run and arms the timer again.
Connected(r, st) == [st EXCEPT ![r] = "connecting"]
ConnectedTimers(r, st, tm) ==
  IF st[r] = "connecting" THEN {tm}
  ELSE {tm \ {r}} \cup (IF EnableReconnect /\ HasSubs(r) THEN {tm \cup {r}} ELSE {})

\* The rest of ensureRelay(), with relay r in the pool and the relays in the states
\* st, with the timers tm: an aborted call rejects without starting or cancelling
\* an attempt.
Join(c, u, r, aborted, st, tm) ==
  LET stage == IF st[r] = "open" THEN "got" ELSE IF aborted THEN "failing" ELSE "await"
  IN /\ caller' = [caller EXCEPT ![c] = [NoCall EXCEPT !.stage = stage, !.url = u, !.relay = r]]
     /\ status' = IF stage = "await" THEN Connected(r, st) ELSE st
     /\ timers' \in IF stage = "await" THEN ConnectedTimers(r, st, tm) ELSE {tm}

EnsureRelay(c, u, aborted) ==
  /\ caller[c].stage = "idle"
  /\ ~Rejects(u)
  /\ suspended' = [suspended EXCEPT ![u] = Nobody]
  /\ \/ /\ relays[u] # Nobody
        /\ Join(c, u, relays[u], aborted, status, timers)
        /\ UNCHANGED <<relays, url, resume, recorded, strays>>
     \/ /\ relays[u] = Nobody
        /\ \E r \in Relays : Unused(r)
        /\ \E V \in Evictions(u) :
             /\ relays' = [Forgotten(V) EXCEPT ![u] = NewRelay]
             /\ url' = [url EXCEPT ![NewRelay] = u]
             /\ resume' = Cleared(V)
             /\ recorded' = Unrecorded(V)
             /\ strays' = strays \ {NewRelay}
             /\ Join(c, u, NewRelay, aborted, [DownStatus(ClosedRelays(V)) EXCEPT ![NewRelay] = "down"],
                     timers \ ClosedRelays(V))
  /\ UNCHANGED invalid

\* During a suspension ensureRelay() rejects; a subscriber then looks for the relay.
Suspended(c, u) ==
  /\ caller[c].stage = "idle"
  /\ Rejects(u)
  /\ caller' = [caller EXCEPT ![c] = [NoCall EXCEPT !.stage = "attach", !.url = u]]
  /\ UNCHANGED <<relays, url, relayVars, invalid, suspensionVars, strays>>

\* The caller's signal fires while connect() is pending.
Abort(c) ==
  /\ caller[c].stage = "await"
  /\ caller' = [caller EXCEPT ![c].stage = "failing"]
  /\ UNCHANGED <<relays, url, relayVars, invalid, suspensionVars, strays>>

\* subscribe() on a relay that is not open schedules a reconnect, whether it is down,
\* has an attempt under way, or was stopped and its timer will do nothing.
Subscribed(r) == IF status[r] = "open" THEN timers ELSE timers \cup {r}

\* After the await a request throws if the relay is not open any more, and so does
\* subscribe() unless reconnect is enabled; a fetch() connects it again.
Use(c, kind) ==
  LET r == caller[c].relay
      using == [caller[c] EXCEPT !.stage = "using", !.kind = kind]
  IN /\ caller[c].stage = "got"
     /\ IF status[r] = "open"
        THEN /\ caller' = [caller EXCEPT ![c] = IF kind = "fetch" THEN [using EXCEPT !.kind = "sub"] ELSE using]
             /\ UNCHANGED <<status, timers, strays>>
        ELSE /\ caller' = [caller EXCEPT ![c] = IF kind = "fetch" \/ (kind = "sub" /\ EnableReconnect)
                                                THEN using ELSE NoCall]
             /\ status' = IF kind = "fetch" THEN Connected(r, status) ELSE status
             /\ timers' \in IF kind = "fetch" THEN ConnectedTimers(r, status, timers)
                            ELSE {IF kind = "sub" /\ EnableReconnect THEN Subscribed(r) ELSE timers}
             /\ strays' = IF kind = "fetch" THEN strays \cup {r} ELSE strays
     /\ UNCHANGED <<relays, url, invalid, suspensionVars>>

\* The catch block of ensureRelay().
Forgets_Always(c) == [relays EXCEPT ![caller[c].url] = Nobody]

Forgets(c) ==
  IF EnableReconnect THEN relays ELSE [relays EXCEPT ![caller[c].url] = Nobody]

Catch(c) ==
  /\ caller[c].stage = "failing"
  /\ relays' = Forgets(c)
  /\ caller' \in {[caller EXCEPT ![c] = NoCall],
                  [caller EXCEPT ![c] = [@ EXCEPT !.stage = "attach", !.relay = Nobody]]}
  /\ UNCHANGED <<url, relayVars, invalid, suspensionVars, strays>>

\* The catch block of fanIn(): subscribe on the relay that is pooled, if one is.
Attach(c) ==
  LET r == relays[caller[c].url]
      attaches == r # Nobody /\ (status[r] = "open" \/ EnableReconnect)
  IN /\ caller[c].stage = "attach"
     /\ caller' = [caller EXCEPT ![c] = IF attaches THEN [@ EXCEPT !.stage = "using", !.relay = r, !.kind = "sub"] ELSE NoCall]
     /\ timers' = IF attaches THEN Subscribed(r) ELSE timers
     /\ UNCHANGED <<relays, url, status, invalid, suspensionVars, strays>>

\* The request is answered, or the subscription closed.
Release(c) ==
  /\ caller[c].stage = "using"
  /\ caller' = [caller EXCEPT ![c] = NoCall]
  /\ UNCHANGED <<relays, url, relayVars, invalid, suspensionVars, strays>>

-----------------------------------------------------------------------------
(* A relay's connection.                                                   *)

Opened(r) ==
  /\ Macrotask
  /\ status[r] = "connecting"
  /\ status' = [status EXCEPT ![r] = "open"]
  /\ caller' = [c \in Callers |->
       IF c \in Waiters({r}) THEN [caller[c] EXCEPT !.stage = "got"]
       ELSE IF c \in Users(r) /\ caller[c].kind = "fetch" THEN [caller[c] EXCEPT !.kind = "sub"] ELSE caller[c]]
  /\ UNCHANGED <<relays, url, timers, invalid, suspensionVars, strays>>

\* The relay's "close" event: only its own entry leaves the pool.
OnClose(r) ==
  relays' = IF relays[url[r]] = r THEN [relays EXCEPT ![url[r]] = Nobody] ELSE relays

\* The attempt fails or the socket dies: with subscriptions the reconnect timer is
\* armed; without them the relay is down, with a "close" event unless it only failed
\* to open.  A timer that an earlier subscribe() armed is left alone, and then brings
\* the relay back although its "close" has dropped it from the pool.
SocketDeath(r) ==
  /\ Macrotask
  /\ status[r] \in {"connecting", "open"}
  /\ status' = [status EXCEPT ![r] = "down"]
  /\ LET reconnects == EnableReconnect /\ HasSubs(r)
     IN /\ timers' = IF reconnects THEN timers \cup {r} ELSE timers
        /\ caller' = Dropped({r}, reconnects)
        /\ IF reconnects \/ (status[r] = "connecting" /\ ~HasSubs(r))
           THEN UNCHANGED <<relays, strays>>
           ELSE OnClose(r) /\ strays' = IF r \in timers THEN strays \cup {r} ELSE strays
  /\ UNCHANGED <<url, invalid, suspensionVars>>

\* #reconnectTimer fires: nothing to do for a relay that is open or was stopped.
ReconnectTimer(r) ==
  /\ Macrotask
  /\ r \in timers
  /\ timers' = timers \ {r}
  /\ status' = IF status[r] \in {"open", "stopped"} THEN status ELSE Connected(r, status)
  /\ UNCHANGED <<relays, url, caller, invalid, suspensionVars, strays>>

-----------------------------------------------------------------------------
(* Suspension.                                                             *)

\* Pool's use of Relay.disconnect(): the socket and the reconnect timer are gone,
\* the subscriptions stay.
Disconnected_Reconnects(R) == [r \in Relays |-> IF r \in R THEN "down" ELSE status[r]]

Disconnected(R) == DownStatus(R)

\* #noteInvalidEvent() for an event of relay r; k failures are left in the window.
\* A timer left over from an earlier suspension goes on running, without its name.
InvalidEvent(r) ==
  /\ Macrotask
  /\ status[r] = "open" /\ HasSubs(r) /\ url[r] \in Faulty
  /\ \E k \in 1..(invalid[url[r]] + 1) :
       IF k <= Limit
       THEN /\ invalid' = [invalid EXCEPT ![url[r]] = k]
            /\ UNCHANGED <<relayVars, caller, suspensionVars>>
       ELSE /\ invalid' = [invalid EXCEPT ![url[r]] = 0]
            /\ IF suspended[url[r]] # Nobody
               THEN UNCHANGED <<relayVars, caller, suspensionVars>>
               ELSE /\ Len(resume[url[r]]) < MaxTimers
                    /\ suspended' = [suspended EXCEPT ![url[r]] = Cooldown]
                    /\ status' = Disconnected(ClosedRelays({url[r]}))
                    /\ timers' = timers \ ClosedRelays({url[r]})
                    /\ caller' = Dropped(ClosedRelays({url[r]}), TRUE)
                    /\ resume' = [resume EXCEPT ![url[r]] = Append(@, Cooldown)]
                    /\ recorded' = [recorded EXCEPT ![url[r]] = TRUE]
  /\ UNCHANGED <<relays, url, strays>>

\* The resume timer: connect() again, or join the attempt under way.
Resume_NoConnect(u) == UNCHANGED <<status, timers>>

Resume(u) ==
  LET r == relays[u]
  IN IF r # Nobody /\ HasSubs(r) /\ status[r] # "open"
     THEN /\ status' = Connected(r, status)
          /\ timers' = IF status[r] = "connecting" THEN timers ELSE timers \ {r}
     ELSE UNCHANGED <<status, timers>>

\* The oldest timer of u fires, and ends the suspension in force whichever it is.
ResumeTimer(u) ==
  /\ Macrotask
  /\ resume[u] # <<>> /\ Head(resume[u]) = 0
  /\ resume' = [resume EXCEPT ![u] = Tail(@)]
  /\ recorded' = [recorded EXCEPT ![u] = FALSE]
  /\ suspended' = [suspended EXCEPT ![u] = Nobody]
  /\ Resume(u)
  /\ UNCHANGED <<relays, url, caller, invalid, strays>>

Less(t) == IF t > 0 THEN t - 1 ELSE 0

Tick ==
  /\ Macrotask
  /\ \E u \in Urls : suspended[u] \in 1..Cooldown \/ \E i \in 1..Len(resume[u]) : resume[u][i] > 0
  /\ suspended' = [u \in Urls |-> IF suspended[u] = Nobody THEN Nobody ELSE Less(suspended[u])]
  /\ resume' = [u \in Urls |-> [i \in 1..Len(resume[u]) |-> Less(resume[u][i])]]
  /\ UNCHANGED <<relays, url, relayVars, caller, invalid, recorded, strays>>

-----------------------------------------------------------------------------
(* Closing.                                                                *)

CloseUrls(U) ==
  /\ relays' = Forgotten(U)
  /\ status' = DownStatus(ClosedRelays(U))
  /\ timers' = timers \ ClosedRelays(U)
  /\ caller' = Dropped(ClosedRelays(U), FALSE)
  /\ resume' = Cleared(U)
  /\ recorded' = Unrecorded(U)

CloseRelay(u) ==
  /\ relays[u] # Nobody \/ recorded[u]
  /\ CloseUrls({u})
  /\ UNCHANGED <<url, invalid, suspended, strays>>

\* cleanIdleRelays(): every idle relay that is not connected, and those whose last
\* use is long past.
CleanIdleRelays ==
  /\ Macrotask
  /\ LET idle == {u \in Pooled : IsIdle(relays[u])}
     IN \E U \in SUBSET idle :
          /\ U # {}
          /\ {u \in idle : status[relays[u]] # "open"} \subseteq U
          /\ CloseUrls(U)
  /\ UNCHANGED <<url, invalid, suspended, strays>>

Close ==
  /\ CloseUrls(Urls)
  /\ suspended' = [u \in Urls |-> Nobody]
  /\ invalid' = [u \in Urls |-> 0]
  /\ UNCHANGED <<url, strays>>

Next ==
  \/ \E c \in Callers :
       \/ \E u \in Urls :
            Suspended(c, u) \/ \E aborted \in BOOLEAN : EnsureRelay(c, u, aborted)
       \/ \E kind \in Kinds : Use(c, kind)
       \/ Abort(c) \/ Catch(c) \/ Attach(c) \/ Release(c)
  \/ \E r \in Relays : Opened(r) \/ SocketDeath(r) \/ ReconnectTimer(r) \/ InvalidEvent(r)
  \/ \E u \in Urls : ResumeTimer(u) \/ CloseRelay(u)
  \/ Tick
  \/ CleanIdleRelays
  \/ Close

Spec == Init /\ [][Next]_vars

\* Continuations run, an attempt settles within its connect timeout, the clock
\* advances and a timer that is due fires.  Continuations keep coming between
\* macrotasks, which the event loop reaches all the same.
FairSpec ==
  /\ Spec
  /\ \A c \in Callers : WF_vars((\E kind \in Kinds : Use(c, kind)) \/ Catch(c) \/ Attach(c))
  /\ \A r \in Relays : SF_vars(Opened(r) \/ (status[r] = "connecting" /\ SocketDeath(r)))
  /\ SF_vars(Tick)
  /\ \A u \in Urls : SF_vars(ResumeTimer(u))

-----------------------------------------------------------------------------
(* Properties.                                                             *)

\* With reconnect enabled a relay that is open, or will be, is the pooled relay of
\* its URL: close() reaches every socket, and ensureRelay() never opens a second.
\* There are two exceptions, which strays names.  A relay that was closed before the
\* fetch() it had been given to began is connected again by that fetch(), outside the
\* pool.  And a relay that "close" has dropped from the pool while its reconnect timer
\* was armed, by a subscribe() from before it opened, is connected again by that timer.
PoolOwnsSockets ==
  EnableReconnect => \A r \in Relays \ strays : Live(r) => relays[url[r]] = r

\* While the pool counts a URL as suspended nothing has brought its relay back, nor
\* will: not the reconnect timer, nor a subscribe(), nor a call of ensureRelay().  This
\* is not to say that a suspension lasts as long as it was announced to: the resume
\* timer of an earlier one, when it runs late, ends it early (ResumeTimer).
SuspendedStaysDown ==
  EnableReconnect => \A r \in Relays \ strays : Live(r) => suspended[url[r]] \notin 1..Cooldown

\* A live subscription that a suspension has cut off is brought back when the
\* suspension lifts, whoever finds out first that it has.
LiftedFor(c) ==
  /\ caller[c].stage = "using" /\ caller[c].kind = "sub"
  /\ suspended[caller[c].url] # Nobody /\ relays[caller[c].url] = caller[c].relay
  ~> caller[c].stage # "using" \/ Live(caller[c].relay)

SuspensionLifts == \A c \in Watched : LiftedFor(c)

\* No caller waits for ever for a relay that the pool has closed, evicted or
\* suspended, nor for one that its own fetch() has to connect again.
Awaits(c) == caller[c].stage = "await" \/ (caller[c].stage = "using" /\ caller[c].kind = "fetch")

CallersSettle == \A c \in Watched : Awaits(c) ~> ~Awaits(c)

\* src/relay/pool.ts says of maxRelays that the cap never fails a request: making
\* room for one relay leaves those alone that other calls have just been given.
CapNeverFailsRequest ==
  [][(\E c \in Callers : caller[c].stage = "idle" /\ caller'[c].stage \in {"await", "got"})
     => \A d \in Callers : caller[d].stage = "got" => status'[caller[d].relay] = status[caller[d].relay]]_vars

\* src/relay/pool.ts promises connection reuse, whether or not reconnect is enabled:
\* there is at most one relay that is open, or will be, for each URL.
ConnectionReuse ==
  \A r, s \in Relays : Live(r) /\ Live(s) /\ url[r] = url[s] => r = s

=============================================================================
