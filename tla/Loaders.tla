------------------------------- MODULE Loaders -------------------------------
(* The loader of replaceable events (loaders/replaceable.ts) on the batching *)
(* of loaders/dataloader.ts, without memoization as there.  A promise is     *)
(* named by the call of load() that made it.  The event loader               *)
(* (loaders/event.ts) is the same without batches.                           *)
EXTENDS Integers, FiniteSets, Sequences, SequencesExt

CONSTANTS
  Calls, Keys,     \* the calls; a key: an address and its hints
  AddressOf,       \* the address of a key
  MaxBatch, MaxClears, LastVersion,   \* maxBatchSize; the last two are bounds
  NoCall, NoKey

VARIABLES
  keyOf, loads,    \* the key of a call, and where it is
  promise,         \* "none", "queued", "batched", "resolved" or "over"
  awaits,          \* the promise a call waits for
  waiting, scheduled, ticks,   \* #queue, #scheduled and the pending microtasks
  inflight,        \* #inflight
  fetches,         \* the batches whose pool.fetch() runs, as sets of promises
  onRelays, index, \* the newest version of an address on the relays and in the index,
                   \* 0: there is none
  record,          \* fetchedAt: "none" when absent or stale, "miss" or "hit"
  found,           \* history: the last fetch of an address found a version
  denied,          \* history: calls that returned nothing, denied, while
                   \* the last fetch had found a version
  clears

loaderVars == <<keyOf, loads, promise, awaits, waiting, scheduled, ticks, inflight,
                fetches, onRelays, index, record, found, denied, clears>>

Styles == {"default", "force", "cache-only"}
Addresses == {AddressOf[k] : k \in Keys}
AddressOfCall(c) == AddressOf[keyOf[c]]
Unsettled(k) == {c \in Calls : keyOf[c] = k /\ promise[c] \in {"queued", "batched", "resolved"}}

Init ==
  /\ keyOf = [c \in Calls |-> NoKey] /\ loads = [c \in Calls |-> "idle"]
  /\ promise = [c \in Calls |-> "none"] /\ awaits = [c \in Calls |-> NoCall]
  /\ waiting = <<>> /\ scheduled = FALSE /\ ticks = 0
  /\ inflight = [k \in Keys |-> NoCall] /\ fetches = {}
  /\ onRelays = [a \in Addresses |-> 0] /\ index = [a \in Addresses |-> 0]
  /\ record = [a \in Addresses |-> "none"] /\ found = {} /\ denied = {} /\ clears = 0

-----------------------------------------------------------------------------
(* External: authors publish, the index evicts, records age or are trimmed.  *)
Publish(a) ==
  /\ onRelays[a] < LastVersion /\ onRelays' = [onRelays EXCEPT ![a] = @ + 1]
  /\ UNCHANGED <<keyOf, loads, promise, awaits, waiting, scheduled, ticks, inflight,
                 fetches, index, record, found, denied, clears>>

Evict(a) ==
  /\ index[a] # 0 /\ index' = [index EXCEPT ![a] = 0]
  /\ UNCHANGED <<keyOf, loads, promise, awaits, waiting, scheduled, ticks, inflight,
                 fetches, onRelays, record, found, denied, clears>>

Forget(a) ==
  /\ record[a] # "none" /\ record' = [record EXCEPT ![a] = "none"]
  /\ UNCHANGED <<keyOf, loads, promise, awaits, waiting, scheduled, ticks, inflight,
                 fetches, onRelays, index, found, denied, clears>>

-----------------------------------------------------------------------------
\* A fresh record spares the fetch, unless its winner was evicted.
Spares(a) == record[a] = "miss" \/ (record[a] = "hit" /\ index[a] # 0)

\* The loader answers from the index: what it is asked "cache-only" or spared.
Answered(c, k, style) ==
  /\ loads[c] = "idle" /\ loads' = [loads EXCEPT ![c] = "done"]
  /\ keyOf' = [keyOf EXCEPT ![c] = k]
  /\ \/ style = "cache-only" /\ UNCHANGED denied
     \/ /\ style = "default" /\ Spares(AddressOf[k])
        /\ denied' = IF index[AddressOf[k]] = 0 /\ AddressOf[k] \in found
                     THEN denied \cup {c} ELSE denied
  /\ UNCHANGED <<promise, awaits, waiting, scheduled, ticks, inflight, fetches, onRelays, index,
                 record, found, clears>>

\* load(): joins the promise in flight, or queues its key; a full queue is
\* dispatched at once.  Mutant: a load does not look for one in flight.
InFlight_Never(k) == NoCall
InFlight(k) == inflight[k]

\* #dispatch(): a whole queue at a time, which never holds more than a batch.
\* Mutant: the flag of the pending dispatch is not taken back.
Rescheduled_Stuck == scheduled
Rescheduled == FALSE

Dispatch(queue) ==
  /\ scheduled' = Rescheduled
  /\ waiting' = <<>>
  /\ fetches' = IF queue = <<>> THEN fetches ELSE fetches \cup {ToSet(queue)}
  /\ promise' = [c \in Calls |-> IF c \in ToSet(queue) THEN "batched" ELSE promise[c]]

Load(c, k, style) ==
  /\ loads[c] = "idle" /\ loads' = [loads EXCEPT ![c] = "waiting"]
  /\ keyOf' = [keyOf EXCEPT ![c] = k]
  /\ style = "force" \/ (style = "default" /\ ~Spares(AddressOf[k]))
  /\ \/ /\ InFlight(k) # NoCall
        /\ awaits' = [awaits EXCEPT ![c] = InFlight(k)]
        /\ UNCHANGED <<promise, waiting, scheduled, ticks, inflight, fetches>>
     \/ /\ InFlight(k) = NoCall
        /\ awaits' = [awaits EXCEPT ![c] = c] /\ inflight' = [inflight EXCEPT ![k] = c]
        /\ IF Len(waiting) + 1 >= MaxBatch
           THEN Dispatch(Append(waiting, c)) /\ UNCHANGED ticks
           ELSE /\ waiting' = Append(waiting, c) /\ promise' = [promise EXCEPT ![c] = "queued"]
                /\ scheduled' = TRUE /\ ticks' = IF scheduled THEN ticks ELSE ticks + 1
                /\ UNCHANGED fetches
  /\ UNCHANGED <<onRelays, index, record, found, denied, clears>>

\* The microtask.  After a full queue went early it may find an empty one.
Tick ==
  /\ ticks > 0 /\ ticks' = ticks - 1
  /\ Dispatch(waiting)
  /\ UNCHANGED <<keyOf, loads, awaits, inflight, onRelays, index, record, found,
                 denied, clears>>

\* pool.fetch() returns within its timeout with what some relays answered; its
\* events are in the index when the batch reads the winners and marks the keys.
Fetched(batch) ==
  /\ batch \in fetches /\ fetches' = fetches \ {batch}
  /\ \E got \in SUBSET {AddressOfCall(c) : c \in batch} :
       index' = [a \in Addresses |->
                   IF a \in got /\ onRelays[a] > index[a] THEN onRelays[a] ELSE index[a]]
  /\ LET asked == {AddressOfCall(c) : c \in batch}
         hit == {a \in asked : index'[a] # 0}
     IN /\ record' = [a \in Addresses |-> IF a \in hit THEN "hit"
                                          ELSE IF a \in asked THEN "miss" ELSE record[a]]
        /\ found' = (found \ asked) \cup hit
  /\ promise' = [c \in Calls |-> IF c \in batch THEN "resolved" ELSE promise[c]]
  /\ UNCHANGED <<keyOf, loads, awaits, waiting, scheduled, ticks, inflight, onRelays,
                 denied, clears>>

\* The batch function throws: DataLoader allows for it, pool.fetch() swallows
\* what its relays do.
FetchFails(batch) ==
  /\ batch \in fetches /\ fetches' = fetches \ {batch}
  /\ promise' = [c \in Calls |-> IF c \in batch THEN "resolved" ELSE promise[c]]
  /\ UNCHANGED <<keyOf, loads, awaits, waiting, scheduled, ticks, inflight, onRelays,
                 index, record, found, denied, clears>>

\* The finally block deletes the key whoever's promise is there; who awaits
\* the promise goes on.
Settle(c) ==
  /\ promise[c] = "resolved" /\ promise' = [promise EXCEPT ![c] = "over"]
  /\ inflight' = [inflight EXCEPT ![keyOf[c]] = NoCall]
  /\ loads' = [d \in Calls |-> IF awaits[d] = c THEN "done" ELSE loads[d]]
  /\ UNCHANGED <<keyOf, awaits, waiting, scheduled, ticks, fetches, onRelays, index, record,
                 found, denied, clears>>

\* clear(), which DataLoader offers and no loader calls yet.
Clear(k) ==
  /\ clears < MaxClears /\ clears' = clears + 1
  /\ inflight' = [inflight EXCEPT ![k] = NoCall]
  /\ UNCHANGED <<keyOf, loads, promise, awaits, waiting, scheduled, ticks, fetches,
                 onRelays, index, record, found, denied>>

Next == \/ \E a \in Addresses : Publish(a) \/ Evict(a) \/ Forget(a)
        \/ \E c \in Calls : Settle(c) \/ \E k \in Keys, style \in Styles :
                                           Answered(c, k, style) \/ Load(c, k, style)
        \/ \E batch \in fetches : Fetched(batch) \/ FetchFails(batch)
        \/ \E k \in Keys : Clear(k)
        \/ Tick

\* Microtasks run, and a fetch ends at the latest when it times out.
LoaderFairness ==
  /\ WF_loaderVars(Tick)
  /\ WF_loaderVars(\E batch \in fetches : Fetched(batch) \/ FetchFails(batch))
  /\ WF_loaderVars(\E c \in Calls : Settle(c))

Spec == Init /\ [][Next]_loaderVars /\ LoaderFairness

-----------------------------------------------------------------------------
(* Whoever waits for a load gets its answer, whatever batch it is in and     *)
(* however many dispatches are pending.                                      *)
LoadsSettle == \A c \in Calls : loads[c] = "waiting" ~> loads[c] = "done"

(* A key is fetched once at a time: each clear() allows at most one more     *)
(* request for it, although the first to end then deletes the entry of the   *)
(* second from #inflight.                                                    *)
Coalesced == \A k \in Keys : Cardinality(Unsettled(k)) <= 1 + clears

(* An author is never reported to have no event from memory alone when the   *)
(* last fetch found one (replaceable.ts:89: "a hit whose winner has since    *)
(* been evicted").                                                           *)
NoFalseMiss == denied = {}

(* Both: a load is neither repeated nor spared wrongly.                      *)
LoadsShared == Coalesced /\ NoFalseMiss

=============================================================================
