-------------------------------- MODULE FanIn --------------------------------
(* fanIn() (relay/fan-in.ts): one subscription over several relays, whose    *)
(* EOSE and close are counted over URL entries that fail to connect, attach, *)
(* attach late through the fallback of a rejected ensureRelay(), end, or are *)
(* closed by the caller.  Events are left out.                               *)
EXTENDS Integers, FiniteSets

CONSTANT Entries   \* the (job, URL) pairs a call may name

VARIABLES
  entry,        \* the state of every URL entry: "absent" when the call has none,
                \* "connecting", "live", "ended", "failed"; "leaked" when
                \* subscribe() threw after it had registered the subscription,
                \* and "twice" when that one has ended too
  closed, eoseFired, sawEose, eoseDone, pendingEose, pending, eoseTimer,
  byTimer,      \* history: oneose was fired by the timer
  endedItself   \* history: closed by finish(), not by the caller

vars == <<entry, closed, eoseFired, sawEose, eoseDone, pendingEose, pending, eoseTimer,
          byTimer, endedItself>>

In(state) == {e \in Entries : entry[e] = state}
Wanted == {e \in Entries : entry[e] # "absent"}

-----------------------------------------------------------------------------
\* fanIn() itself: its loop registers every entry before anything resolves.
Init ==
  /\ entry \in [Entries -> {"absent", "connecting"}]
  /\ closed = FALSE /\ eoseFired = FALSE /\ sawEose = FALSE /\ eoseDone = {}
  /\ pending = Cardinality(Wanted) /\ pendingEose = Cardinality(Wanted)
  /\ eoseTimer \in IF Wanted = {} THEN {FALSE} ELSE BOOLEAN
  /\ byTimer = FALSE /\ endedItself = FALSE

\* settleEose(), fireEose() and then, if an entry is over, `pending -= 1` and
\* finish().  oneose() may call close(): Caller says whether it does.
Count(e, eosed, over, caller) ==
  LET first == e \notin eoseDone
      left  == IF first THEN pendingEose - 1 ELSE pendingEose
      fires == first /\ left = 0 /\ (sawEose \/ eosed) /\ ~closed /\ ~eoseFired
      shut  == closed \/ (fires /\ caller)
      ends  == over /\ pending <= 1 /\ ~shut
  IN /\ eoseDone' = IF first THEN eoseDone \cup {e} ELSE eoseDone
     /\ sawEose' = (sawEose \/ (first /\ eosed))
     /\ pendingEose' = left
     /\ eoseFired' = (eoseFired \/ fires)
     /\ pending' = IF over THEN pending - 1 ELSE pending
     /\ closed' = (shut \/ ends)
     /\ endedItself' = (endedItself \/ ends)
     /\ eoseTimer' = (eoseTimer /\ ~fires /\ ~closed')
     /\ caller => fires

\* closeAll() from inside oneose() closes the other subscriptions: what their
\* onclose counts no longer matters once `closed` is set.
Closers(state, shut) ==
  [e \in Entries |-> IF shut /\ state[e] = "live" THEN "ended" ELSE state[e]]
Settle(e, state, caller) == entry' = Closers([entry EXCEPT ![e] = state], caller)

\* attach() once ensureRelay() has resolved, or has rejected and the pool has a
\* relay of the URL after all.  Mutant: a fan-in that was closed attaches too.
MayAttach_Always == TRUE
MayAttach == ~closed

Attach(e) ==
  /\ entry[e] = "connecting"
  /\ entry' = [entry EXCEPT ![e] = IF MayAttach THEN "live" ELSE "ended"]
  /\ UNCHANGED <<closed, eoseFired, sawEose, eoseDone, pendingEose, pending, eoseTimer,
                 byTimer, endedItself>>

\* failUrl(): ensureRelay() rejects and the pool has no relay, or attach() throws.
Fail(e, caller) ==
  /\ entry[e] = "connecting"
  /\ Settle(e, "failed", caller)
  /\ Count(e, FALSE, TRUE, caller)
  /\ UNCHANGED byTimer

\* attach() throws from send(): the subscription stays registered.
FailRegistered(e, caller) ==
  /\ entry[e] = "connecting" /\ ~closed
  /\ Settle(e, "leaked", caller)
  /\ Count(e, FALSE, TRUE, caller)
  /\ UNCHANGED byTimer

\* EOSE, which a replayed REQ repeats.
Eose(e, caller) ==
  /\ entry[e] = "live"
  /\ Settle(e, "live", caller)
  /\ Count(e, TRUE, FALSE, caller)
  /\ UNCHANGED byTimer

\* The subscription ends: CLOSED, the death or the close of its relay.  One
\* that was registered by a subscribe() that threw is counted a second time.
Ends(e, caller) ==
  /\ entry[e] \in {"live", "leaked"}
  /\ Settle(e, IF entry[e] = "live" THEN "ended" ELSE "twice", caller)
  /\ Count(e, FALSE, TRUE, caller)
  /\ UNCHANGED byTimer

\* closeOnEose: oneose() and then the subscription closes itself.
EoseAndClose(e) ==
  /\ entry[e] = "live"
  /\ entry' = [entry EXCEPT ![e] = "ended"]
  /\ Count(e, TRUE, TRUE, FALSE)
  /\ UNCHANGED byTimer

\* closeAll(), by close() or the signal: each closer's onclose is counted.
Close ==
  /\ ~closed
  /\ closed' = TRUE /\ eoseTimer' = FALSE
  /\ entry' = Closers(entry, TRUE)
  /\ pending' = pending - Cardinality(In("live"))
  /\ eoseDone' = eoseDone \cup In("live")
  /\ pendingEose' = pendingEose - Cardinality(In("live") \ eoseDone)
  /\ UNCHANGED <<eoseFired, sawEose, byTimer, endedItself>>

\* The EOSE timer.
EoseTimeout(caller) ==
  /\ eoseTimer
  /\ eoseTimer' = FALSE /\ eoseFired' = TRUE /\ byTimer' = TRUE
  /\ closed' = caller
  /\ entry' = Closers(entry, caller)
  /\ UNCHANGED <<sawEose, eoseDone, pendingEose, pending, endedItself>>

\* The microtask of a call that names no relay.
NoRelays ==
  /\ Wanted = {} /\ ~closed
  /\ closed' = TRUE /\ endedItself' = TRUE
  /\ UNCHANGED <<entry, eoseFired, sawEose, eoseDone, pendingEose, pending, eoseTimer, byTimer>>

Next ==
  \/ \E e \in Entries :
       \/ Attach(e) \/ EoseAndClose(e)
       \/ \E caller \in BOOLEAN :
            Fail(e, caller) \/ FailRegistered(e, caller) \/ Eose(e, caller) \/ Ends(e, caller)
  \/ Close \/ NoRelays
  \/ \E caller \in BOOLEAN : EoseTimeout(caller)
Spec == Init /\ [][Next]_vars

-----------------------------------------------------------------------------
(* The fan-in is open exactly as long as an entry may still deliver: once    *)
(* onclose was called no subscription of it is left on a relay, and it does  *)
(* not stay open over entries that have all failed or ended.  Exempt: the    *)
(* REQ of a subscribe() that threw when it had registered it is left behind, *)
(* and its end is counted again.  ("at that point no attached closer can     *)
(* still be live", fan-in.ts.)                                               *)
ClosedWhenQuiet ==
  \/ In("twice") # {}
  \/ closed /\ In("live") = {}
  \/ ~closed /\ (In("live") \cup In("connecting") # {} \/ Wanted = {})

(* oneose is called by the timer or when every entry has settled and one of  *)
(* them has really sent EOSE; and never later: when all have settled so, or  *)
(* the fan-in has ended by itself, it has been called (but for the entries   *)
(* counted again, as above).                                                 *)
EoseOnce ==
  /\ eoseFired => byTimer \/ (sawEose /\ eoseDone = Wanted)
  /\ sawEose /\ eoseDone = Wanted => eoseFired \/ closed
  /\ sawEose /\ endedItself /\ In("twice") = {} => eoseFired

(* Both: what counting over URL entries is for (fan-in.ts:116).              *)
FanInCounts == ClosedWhenQuiet /\ EoseOnce

=============================================================================
