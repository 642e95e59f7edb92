------------------------ MODULE RelayRequests_proofs ------------------------
(***************************************************************************)
(* Theorems about RelayRequests, for every set of publishes, COUNTs,       *)
(* subscriptions, challenges and attempts, and every number of rounds.     *)
(***************************************************************************)
EXTENDS RelayRequests, TLAPS

\* #challenge is the challenge of this connection, as long as there is one.
ChallengeTracked ==
  /\ conn => challenge = issued
  /\ ~conn => issued = Nobody

\* #authPromise is the promise of a coroutine that still runs.
PromiseAlive == promise # Nobody => attempt[promise].stage # "idle"

\* A publish or a COUNT does not outlive its connection, and does not wait for
\* AUTH and for its answer at the same time.
OneWait ==
  \A r \in Tracked : /\ ~conn => state[r] \notin Pending
                     /\ Waiting(Current(r)) => state[r] # "sent"

IInv ==
  /\ TypeOK
  /\ ChallengeTracked
  /\ BeliefSound
  /\ PromiseAlive
  /\ OneWait
  /\ NoForgottenRequest

AttemptState == [stage : {"idle", "signing", "sent"}, ch : Challenges \cup {Nobody}]

\* The name an attempt is given is that of an idle one.
LEMMA FreshIdle ==
  ASSUME NEW att \in [Attempts -> AttemptState], Free(att) # {}
  PROVE  Fresh(att) \in Attempts /\ Fresh(att) # Nobody /\ att[Fresh(att)].stage = "idle"
  BY NobodyAssumption DEF Fresh, Free

LEMMA InitInv == Init => IInv
<1> SUFFICES ASSUME Init PROVE IInv
  OBVIOUS
<1>1. attempt \in [Attempts -> [stage : {"idle", "signing", "sent"}, ch : Challenges \cup {Nobody}]]
  BY DEF Init, Idle
<1>2. /\ state \in [Reqs -> {"new"} \cup Pending \cup Settled]
      /\ waitsFor \in [Entries -> Attempts \cup {Nobody}]
      /\ round \in [Entries -> 0..Rounds]
  BY RoundsAssumption DEF Init
<1>3. TypeOK
  BY <1>1, <1>2 DEF Init, TypeOK
<1>4. \A r \in Reqs : Current(r) \in Entries
  BY DEF Current, Entries
<1>5. OneWait /\ NoForgottenRequest
  BY <1>4 DEF Init, OneWait, NoForgottenRequest, Waiting, Pending, Tracked, Reqs
<1> QED
  BY <1>3, <1>5 DEF Init, IInv, ChallengeTracked, BeliefSound, PromiseAlive

\* What Finish() does to the requests: it leaves those alone whose entry has no
\* result, and a request settled or sent again is one whose entry has one.
Finished(T, F, asking) ==
  /\ state' \in [Reqs -> {"new"} \cup Pending \cup Settled]
  /\ timer' \subseteq {r \in Tracked : state'[r] = "sent"}
  /\ \A r \in Reqs : state'[r] = "auth" =>
       IF r \in asking THEN state[r] \in Pending => Current(r) \notin T \cup F
                       ELSE state[r] = "auth" /\ Current(r) \notin T \cup F
  /\ \A r \in Tracked :
       /\ state'[r] = "sent" => /\ r \in timer' \/ (state[r] = "sent" /\ r \notin timer)
                                /\ (state[r] = "sent" /\ r \notin asking) \/ (conn /\ Current(r) \in T)
                                /\ Current(r) \notin F
       /\ state'[r] = "authfailed" => state[r] = "authfailed" \/ Current(r) \in T \cup F
       /\ ~conn /\ state[r] \notin Pending /\ r \notin asking => state'[r] \notin Pending

LEMMA FinishRequests ==
  ASSUME NEW T \in SUBSET Entries, NEW F \in SUBSET Entries, NEW asking \in SUBSET Reqs,
         TypeOK, Finish(T, F, asking)
  PROVE  Finished(T, F, asking)
<1>1. \A r \in Reqs : /\ Current(r) \in Entries /\ Current(r)[1] = r /\ Current(r)[2] = "current"
  BY DEF Current, Entries
<1>2. \A k \in Entries : k[1] \in Reqs /\ (k[2] = "current" => k = Current(k[1]))
  BY DEF Current, Entries
<1>3. \A r \in Tracked : r \in Reqs /\ r \notin Subs
  BY RequestsAssumption DEF Tracked, Reqs
<1> DEFINE fails(r) == \E k \in F : k[1] = r /\ Acts(k)
           resends(r) == \E k \in T : k[1] = r /\ Acts(k)
<1>4. \A r \in Tracked : /\ fails(r) <=> Current(r) \in F /\ state[r] \in Pending
                         /\ resends(r) <=> Current(r) \in T /\ state[r] \in Pending
  BY <1>1, <1>2, <1>3 DEF Acts
<1>5. \A r \in Reqs : /\ fails(r) => state[r] \in Pending
                      /\ resends(r) => state[r] \in Pending
                      /\ Current(r) \in T /\ state[r] \in Pending => resends(r)
                      /\ Current(r) \in F /\ state[r] \in Pending => fails(r)
  BY <1>1, <1>2, <1>3 DEF Acts
<1>6. /\ state' = [r \in Reqs |-> IF fails(r) \/ (resends(r) /\ ~conn) THEN "authfailed"
                                  ELSE IF resends(r) THEN "sent"
                                  ELSE IF r \in asking THEN "auth" ELSE state[r]]
      /\ timer' = {r \in timer \cup {q \in Tracked : resends(q)} : state'[r] = "sent"}
  BY DEF Finish
<1>7. state \in [Reqs -> {"new"} \cup Pending \cup Settled] /\ timer \subseteq Tracked
  BY DEF TypeOK
<1> HIDE DEF fails, resends
<1> QED
  BY <1>3, <1>4, <1>5, <1>6, <1>7 DEF Finished, Pending, Settled

\* What Continue() does to the attempts and to the entries that wait for them: an
\* entry of W joins the attempt under way or fails, and those of T and F wait no
\* longer.
Continued(W, T, F, failed, att) ==
  /\ promise' \in Attempts \cup {Nobody}
  /\ attempt' \in [Attempts -> AttemptState]
  /\ waitsFor' \in [Entries -> Attempts \cup {Nobody}]
  /\ round' \in [Entries -> 0..Rounds]
  /\ PromiseAlive'
  /\ \A a \in Attempts : att[a].stage # "idle" => attempt'[a] = att[a]
  /\ F \subseteq failed /\ failed \subseteq F \cup W
  /\ \A k \in Entries :
       IF k \in W \ failed THEN waitsFor'[k] = promise' /\ promise' # Nobody
       ELSE IF k \in T \cup failed THEN waitsFor'[k] = Nobody
       ELSE waitsFor'[k] = waitsFor[k]

LEMMA ContinueWaits ==
  ASSUME NEW W \in SUBSET Entries, NEW T \in SUBSET Entries, NEW F \in SUBSET Entries,
         NEW asking \in SUBSET Reqs, NEW pr \in Attempts \cup {Nobody},
         NEW att \in [Attempts -> AttemptState],
         TypeOK, pr # Nobody => att[pr].stage # "idle", W \cap (T \cup F) = {},
         Continue(W, T, F, asking, pr, att)
  PROVE  \E failed \in SUBSET Entries :
            Finish(T, failed, asking) /\ Continued(W, T, F, failed, att)
<1> DEFINE signs == W # {} /\ pr = Nobody /\ answered' # challenge
           b == IF signs THEN Fresh(att) ELSE pr
           joined == IF b = Nobody THEN {} ELSE W
           failed == F \cup (W \ joined)
<1>1. signs => b \in Attempts /\ b # Nobody /\ att[b].stage = "idle"
  BY FreshIdle DEF Continue
<1>2. /\ promise' = b
      /\ attempt' = IF signs THEN [att EXCEPT ![b] = [stage |-> "signing", ch |-> challenge]] ELSE att
      /\ waitsFor' = [k \in Entries |-> IF k \in joined THEN b
                                        ELSE IF k \in T \cup failed THEN Nobody ELSE waitsFor[k]]
      /\ Finish(T, failed, asking)
  BY DEF Continue
<1>3. round' \in [Entries -> 0..Rounds]
  BY RoundsAssumption DEF Continue, TypeOK
<1>4. /\ promise' \in Attempts \cup {Nobody}
      /\ attempt' \in [Attempts -> AttemptState]
      /\ waitsFor' \in [Entries -> Attempts \cup {Nobody}]
      /\ PromiseAlive'
      /\ \A a \in Attempts : att[a].stage # "idle" => attempt'[a] = att[a]
  BY <1>1, <1>2 DEF TypeOK, AttemptState, PromiseAlive
<1>5. failed \in SUBSET Entries
  OBVIOUS
<1>6. Continued(W, T, F, failed, att)
  BY <1>1, <1>2, <1>3, <1>4 DEF Continued
<1> QED
  BY <1>2, <1>5, <1>6

\* Continue() preserves the part of the invariant that is about waiting, if it is
\* given every entry whose attempt is over; a request it fails has just asked.
WaitsKept(asking) ==
  /\ promise' \in Attempts \cup {Nobody}
  /\ attempt' \in [Attempts -> AttemptState]
  /\ waitsFor' \in [Entries -> Attempts \cup {Nobody}]
  /\ round' \in [Entries -> 0..Rounds]
  /\ state' \in [Reqs -> {"new"} \cup Pending \cup Settled]
  /\ timer' \subseteq {r \in Tracked : state'[r] = "sent"}
  /\ (PromiseAlive /\ OneWait /\ NoForgottenRequest)'
  /\ \A r \in Tracked : state[r] = "sent" /\ state'[r] = "authfailed" => r \in asking

LEMMA ContinueInv ==
  ASSUME IInv, NEW W \in SUBSET Entries, NEW T \in SUBSET Entries, NEW F \in SUBSET Entries,
         NEW asking \in SUBSET Reqs, NEW pr \in Attempts \cup {Nobody},
         NEW att \in [Attempts -> AttemptState],
         pr # Nobody => att[pr].stage # "idle",
         W \cap (T \cup F) = {},
         \A k \in Entries \ (W \cup T \cup F) : waitsFor[k] # Nobody => att[waitsFor[k]].stage # "idle",
         \A r \in asking : conn /\ state[r] \in Pending /\ Current(r) \in W \cup T \cup F,
         \A r \in Reqs : Current(r) \in W \cup T \cup F => Waiting(Current(r)) \/ r \in asking,
         Continue(W, T, F, asking, pr, att),
         conn' = conn
  PROVE  WaitsKept(asking)
<1>1. TypeOK /\ OneWait /\ NoForgottenRequest
  BY DEF IInv
<1>2. PICK failed \in SUBSET Entries :
        Finish(T, failed, asking) /\ Continued(W, T, F, failed, att)
  BY <1>1, ContinueWaits
<1>3. Finished(T, failed, asking)
  BY <1>1, <1>2, FinishRequests
<1>4. \A r \in Reqs : Current(r) \in Entries
  BY DEF Current, Entries
<1>5. \A r \in Tracked : r \in Reqs
  BY DEF Reqs
<1>6. OneWait'
  BY <1>1, <1>2, <1>3, <1>4, <1>5 DEF Continued, Finished, OneWait, Waiting, Pending, TypeOK, Settled
<1>7. NoForgottenRequest'
  <2>1. \A r \in Tracked : state'[r] = "sent" => r \in timer'
    BY <1>1, <1>2, <1>3 DEF Finished, NoForgottenRequest
  <2>2. ASSUME NEW r \in Reqs, state'[r] = "auth", conn' PROVE waitsFor'[Current(r)] # Nobody
    BY <1>1, <1>2, <1>3, <1>4, <2>2 DEF Continued, Finished, NoForgottenRequest, Waiting
  <2>3. ASSUME NEW k \in Entries, waitsFor'[k] # Nobody PROVE attempt'[waitsFor'[k]].stage # "idle"
    BY <1>2, <2>3 DEF Continued, PromiseAlive, TypeOK
  <2> QED
    BY <2>1, <2>2, <2>3 DEF NoForgottenRequest, Waiting
<1>8. \A r \in Tracked : state[r] = "sent" /\ state'[r] = "authfailed" => r \in asking
  BY <1>1, <1>2, <1>3, <1>4, <1>5 DEF Continued, Finished, OneWait, Waiting
<1> QED
  BY <1>2, <1>3, <1>6, <1>7, <1>8 DEF Continued, Finished, WaitsKept

\* An attempt that settles, with all that its waiters do next.
LEMMA SettleInv ==
  ASSUME IInv, NEW a \in Attempts, NEW result \in {"ok", "no", "nosigner", "threw"},
         Settle(a, result), conn' = conn, issued' = issued, relayAuthed' \in BOOLEAN,
         relayAuthed => relayAuthed', result = "ok" => conn /\ relayAuthed'
  PROVE  IInv' /\ \A r \in Tracked : state[r] = "sent" => state'[r] # "authfailed"
<1>1. TypeOK /\ ChallengeTracked /\ BeliefSound /\ PromiseAlive /\ OneWait /\ NoForgottenRequest
  BY DEF IInv
<1> DEFINE ch == attempt[a].ch
           K == {k \in Entries : waitsFor[k] = a}
           att0 == [attempt EXCEPT ![a] = Idle]
           pr0 == IF promise = a THEN Nobody ELSE promise
<1>2. /\ challenge' = challenge /\ authRetried' = authRetried
      /\ authed' = IF result = "ok" /\ StillCurrent(ch) THEN ch ELSE authed
      /\ IF result \in {"ok", "no"} /\ StillCurrent(ch)
         THEN answered' = ch /\ answeredOk' = (result = "ok")
         ELSE UNCHANGED <<answered, answeredOk>>
  BY DEF Settle
<1>3. PICK T \in SUBSET K, W \in SUBSET K, pr \in {pr0}, att \in {att0} :
        W \cap T = {} /\ Continue(W, T, K \ (T \cup W), {}, pr, att)
  BY DEF Settle
<1>4. PICK F \in SUBSET K : F = K \ (T \cup W)
  OBVIOUS
<1>5. /\ pr \in Attempts \cup {Nobody} /\ att \in [Attempts -> AttemptState]
      /\ pr # Nobody => att[pr].stage # "idle"
      /\ \A b \in Attempts \ {a} : att[b] = attempt[b]
  BY <1>1, NobodyAssumption DEF TypeOK, PromiseAlive, AttemptState, Idle
<1>6. /\ W \in SUBSET Entries /\ T \in SUBSET Entries /\ F \in SUBSET Entries
      /\ W \cap (T \cup F) = {}
      /\ Continue(W, T, F, {}, pr, att)
      /\ \A k \in Entries \ (W \cup T \cup F) : waitsFor[k] # a
      /\ \A k \in W \cup T \cup F : Waiting(k)
  BY <1>3, <1>4, NobodyAssumption DEF Waiting
<1>7. \A k \in Entries \ (W \cup T \cup F) : waitsFor[k] # Nobody => att[waitsFor[k]].stage # "idle"
  BY <1>1, <1>5, <1>6 DEF TypeOK, NoForgottenRequest, Waiting
<1> HIDE DEF K, att0, pr0
<1>8. WaitsKept({})
  BY <1>5, <1>6, <1>7, ContinueInv
<1>9. (ChallengeTracked /\ BeliefSound)'
  BY <1>1, <1>2 DEF ChallengeTracked, BeliefSound, StillCurrent
<1>10. TypeOK'
  BY <1>1, <1>2, <1>8 DEF WaitsKept, TypeOK, AttemptState, StillCurrent
<1> QED
  BY <1>8, <1>9, <1>10 DEF WaitsKept, IInv

\* New entries for the requests R: none of them waits, and nobody waits for an
\* attempt that was not waited for before.
LEMMA RenewWaits ==
  ASSUME NEW R \in SUBSET Reqs, TypeOK, Renew(R)
  PROVE  /\ waitsFor' \in [Entries -> Attempts \cup {Nobody}]
         /\ round' \in [Entries -> 0..Rounds]
         /\ \A r \in R : waitsFor'[Current(r)] = Nobody
         /\ \A r \in Reqs \ R : waitsFor'[Current(r)] = waitsFor[Current(r)]
         /\ \A k \in Entries : \/ waitsFor'[k] = Nobody
                               \/ \E j \in Entries : waitsFor'[k] = waitsFor[j]
<1> DEFINE old == {r \in R : Waiting(Current(r))}
           aged(f, zero) == [k \in Entries |-> IF k[1] \notin old THEN f[k]
                                              ELSE IF k[2] = "old" THEN f[Current(k[1])] ELSE zero]
<1>1. waitsFor' = aged(waitsFor, Nobody) /\ round' = aged(round, 0)
  BY DEF Renew
<1>2. \A r \in Reqs : Current(r) \in Entries /\ Current(r)[1] = r /\ Current(r)[2] = "current"
  BY DEF Current, Entries
<1>3. \A r \in old : Current(r) \in Entries
  BY <1>2
<1>4. /\ waitsFor \in [Entries -> Attempts \cup {Nobody}]
      /\ round \in [Entries -> 0..Rounds] /\ 0 \in 0..Rounds
  BY RoundsAssumption DEF TypeOK
<1>5. \A r \in R : r \notin old => waitsFor[Current(r)] = Nobody
  BY DEF Waiting
<1> HIDE DEF old
<1>6. /\ waitsFor' \in [Entries -> Attempts \cup {Nobody}]
      /\ round' \in [Entries -> 0..Rounds]
  BY <1>1, <1>3, <1>4
<1>7. /\ \A r \in R : waitsFor'[Current(r)] = Nobody
      /\ \A r \in Reqs \ R : waitsFor'[Current(r)] = waitsFor[Current(r)]
  BY <1>1, <1>2, <1>5 DEF old
<1>8. \A k \in Entries : \/ waitsFor'[k] = Nobody
                         \/ \E j \in Entries : waitsFor'[k] = waitsFor[j]
  BY <1>1, <1>3
<1> QED
  BY <1>6, <1>7, <1>8

\* Only a request's own retry fails it: the body of StaleRetryHarmless.
OwnRetry ==
  \A r \in Tracked : state[r] = "sent" /\ state'[r] = "authfailed"
                       => r \notin authRetried /\ r \in authRetried'

\* Every call, timer and message preserves the invariant.
LEMMA StepInv == IInv /\ [Next]_vars => IInv' /\ OwnRetry
<1> SUFFICES ASSUME IInv, [Next]_vars PROVE IInv' /\ OwnRetry
  OBVIOUS
<1> USE NobodyAssumption, RequestsAssumption
<1>a. TypeOK /\ ChallengeTracked /\ BeliefSound /\ PromiseAlive /\ OneWait /\ NoForgottenRequest
  BY DEF IInv
<1>b. \A r \in Reqs : Current(r) \in Entries
  BY DEF Current, Entries
<1>c. \A r \in Tracked : r \in Reqs /\ r \notin Subs
  BY DEF Tracked, Reqs
<1>1. ASSUME NEW r \in Reqs, Request(r) PROVE IInv' /\ OwnRetry
  <2>1. /\ r \in Tracked /\ conn /\ Renew({r}) /\ authRetried' = authRetried \ {r}
        /\ UNCHANGED <<conn, issued, relayAuthed, authVars, attempt>>
        /\ \/ state' = [state EXCEPT ![r] = "sent"] /\ timer' = timer \cup {r}
           \/ state' = [state EXCEPT ![r] = "done"] /\ timer' = timer
    BY <1>1 DEF Request
  <2>2. /\ waitsFor' \in [Entries -> Attempts \cup {Nobody}]
        /\ round' \in [Entries -> 0..Rounds]
        /\ waitsFor'[Current(r)] = Nobody
        /\ \A q \in Reqs \ {r} : waitsFor'[Current(q)] = waitsFor[Current(q)]
        /\ \A k \in Entries : \/ waitsFor'[k] = Nobody
                              \/ \E j \in Entries : waitsFor'[k] = waitsFor[j]
    BY <2>1, <1>a, RenewWaits
  <2>3. state[r] \notin Pending
    BY <1>1 DEF Request
  <2>4. TypeOK'
    BY <2>1, <2>2, <2>3, <1>a, <1>c DEF TypeOK, authVars, Pending, Settled
  <2>5. ChallengeTracked' /\ BeliefSound' /\ PromiseAlive'
    BY <2>1, <1>a DEF ChallengeTracked, BeliefSound, PromiseAlive, authVars
  <2>6. OneWait' /\ OwnRetry
    BY <2>1, <2>2, <1>a, <1>c DEF OneWait, OwnRetry, Waiting, Pending, TypeOK
  <2>7. NoForgottenRequest'
    BY <2>1, <2>2, <1>a, <1>c DEF NoForgottenRequest, Waiting, TypeOK
  <2> QED
    BY <2>4, <2>5, <2>6, <2>7 DEF IInv
<1>2. ASSUME NEW r \in Reqs, End(r) PROVE IInv' /\ OwnRetry
  <2>1. /\ state' = [state EXCEPT ![r] = "done"] /\ timer' = timer \ {r}
        /\ UNCHANGED <<conn, issued, relayAuthed, authVars, attempt, authRetried, retryVars>>
    BY <1>2 DEF End
  <2>2. TypeOK'
    BY <2>1, <1>a, <1>c DEF TypeOK, authVars, retryVars, Settled
  <2>3. OneWait' /\ OwnRetry
    BY <2>1, <1>a, <1>c DEF OneWait, OwnRetry, Waiting, Pending, TypeOK, retryVars
  <2>4. NoForgottenRequest'
    BY <2>1, <1>a, <1>c DEF NoForgottenRequest, Waiting, TypeOK, retryVars
  <2> QED
    BY <2>1, <2>2, <2>3, <2>4, <1>a DEF IInv, ChallengeTracked, BeliefSound, PromiseAlive, authVars
<1>3. ASSUME NEW r \in Reqs, RecvAuthRequired(r) PROVE IInv' /\ OwnRetry
  <2>1. /\ conn /\ state[r] = "sent" /\ r \notin authRetried /\ ~Waiting(Current(r))
        /\ authRetried' = authRetried \cup {r}
        /\ UNCHANGED <<conn, issued, relayAuthed, challenge, authed, answered, answeredOk>>
    BY <1>3 DEF RecvAuthRequired
  <2>2. PICK W \in SUBSET {Current(r)}, T \in SUBSET {Current(r)}, F \in SUBSET {Current(r)} :
          /\ Continue(W, T, F, {r}, promise, attempt)
          /\ W \cap (T \cup F) = {} /\ Current(r) \in W \cup T \cup F
    BY <1>3 DEF RecvAuthRequired
  <2>3. /\ W \in SUBSET Entries /\ T \in SUBSET Entries /\ F \in SUBSET Entries
        /\ {r} \in SUBSET Reqs /\ promise \in Attempts \cup {Nobody}
        /\ attempt \in [Attempts -> AttemptState]
        /\ promise # Nobody => attempt[promise].stage # "idle"
        /\ \A k \in Entries \ (W \cup T \cup F) : waitsFor[k] # Nobody => attempt[waitsFor[k]].stage # "idle"
        /\ \A q \in {r} : conn /\ state[q] \in Pending /\ Current(q) \in W \cup T \cup F
    BY <2>1, <2>2, <1>a, <1>b DEF TypeOK, AttemptState, PromiseAlive, NoForgottenRequest, Waiting, Pending
  <2>4. \A q \in Reqs : Current(q) \in W \cup T \cup F => Waiting(Current(q)) \/ q \in {r}
    BY <2>2 DEF Current
  <2>5. WaitsKept({r})
    BY <2>1, <2>2, <2>3, <2>4, ContinueInv
  <2>6. TypeOK'
    BY <2>1, <2>5, <1>a DEF WaitsKept, TypeOK, AttemptState
  <2> QED
    BY <2>1, <2>5, <2>6, <1>a DEF WaitsKept, IInv, ChallengeTracked, BeliefSound, OwnRetry
<1>4. ASSUME NEW a \in Attempts, AuthCall(a) PROVE IInv' /\ OwnRetry
  <2>1. /\ promise = Nobody /\ attempt[a].stage = "idle" /\ promise' = a
        /\ attempt' = [attempt EXCEPT ![a] = [stage |-> "signing", ch |-> challenge]]
        /\ UNCHANGED <<conn, issued, relayAuthed, challenge, authed, answered, answeredOk, reqVars, retryVars>>
    BY <1>4 DEF AuthCall, Free
  <2>2. TypeOK' /\ PromiseAlive'
    BY <2>1, <1>a DEF TypeOK, PromiseAlive, reqVars, retryVars
  <2>3. NoForgottenRequest' /\ OneWait' /\ OwnRetry
    BY <2>1, <1>a DEF NoForgottenRequest, OneWait, OwnRetry, Waiting, reqVars, retryVars, TypeOK
  <2> QED
    BY <2>1, <2>2, <2>3, <1>a DEF IInv, ChallengeTracked, BeliefSound
<1>5. ASSUME NEW a \in Attempts, Signed(a) PROVE IInv' /\ OwnRetry
  <2>1. CASE conn
    <3>1. /\ attempt[a].stage = "signing" /\ attempt' = [attempt EXCEPT ![a].stage = "sent"]
          /\ UNCHANGED <<conn, issued, relayAuthed, authVars, reqVars, retryVars>>
      BY <1>5, <2>1 DEF Signed
    <3>2. TypeOK' /\ PromiseAlive'
      BY <3>1, <1>a DEF TypeOK, PromiseAlive, authVars, reqVars, retryVars
    <3>3. NoForgottenRequest' /\ OneWait' /\ OwnRetry
      BY <3>1, <1>a DEF NoForgottenRequest, OneWait, OwnRetry, Waiting, reqVars, retryVars, TypeOK
    <3> QED
      BY <3>1, <3>2, <3>3, <1>a DEF IInv, ChallengeTracked, BeliefSound, authVars
  <2>2. CASE ~conn
    BY <1>5, <2>2, <1>a, SettleInv DEF Signed, OwnRetry, TypeOK
  <2> QED
    BY <2>1, <2>2
<1>6. ASSUME NEW a \in Attempts, NotSigned(a) \/ AuthTimeout(a) PROVE IInv' /\ OwnRetry
  BY <1>6, SettleInv, <1>a DEF NotSigned, AuthTimeout, OwnRetry, TypeOK
<1>7. ASSUME NEW a \in Attempts, NEW ok \in BOOLEAN, RecvAuthOk(a, ok) PROVE IInv' /\ OwnRetry
  <2>1. /\ conn /\ conn' = conn /\ issued' = issued
        /\ relayAuthed' = (relayAuthed \/ ok)
    BY <1>7 DEF RecvAuthOk
  <2>2. PICK result \in {"ok", "no"} : Settle(a, result) /\ (result = "ok" => ok)
    BY <1>7 DEF RecvAuthOk
  <2>3. relayAuthed' \in BOOLEAN /\ (relayAuthed => relayAuthed') /\ (result = "ok" => conn /\ relayAuthed')
    BY <2>1, <2>2, <1>a DEF TypeOK
  <2> QED
    BY <2>1, <2>2, <2>3, SettleInv DEF OwnRetry
<1>8. ASSUME NEW ch \in Challenges, RecvAuth(ch) PROVE IInv' /\ OwnRetry
  BY <1>8, <1>a DEF RecvAuth, IInv, TypeOK, ChallengeTracked, BeliefSound, PromiseAlive, OneWait,
     NoForgottenRequest, OwnRetry, authVars, reqVars, retryVars, Waiting
<1>9. ASSUME ResetAuth PROVE IInv' /\ OwnRetry
  BY <1>9, <1>a DEF ResetAuth, IInv, TypeOK, ChallengeTracked, BeliefSound, PromiseAlive, OneWait,
     NoForgottenRequest, OwnRetry, authVars, reqVars, retryVars, Waiting
<1>10. ASSUME SocketDies PROVE IInv' /\ OwnRetry
  <2> DEFINE dead == {a \in Attempts : attempt[a].stage = "sent"}
             K == {k \in Entries : waitsFor[k] \in dead}
  <2>1. /\ conn /\ ~conn' /\ issued' = Nobody /\ relayAuthed' = FALSE
        /\ attempt' = [a \in Attempts |-> IF a \in dead THEN Idle ELSE attempt[a]]
        /\ promise' = IF promise \in dead THEN Nobody ELSE promise
        /\ waitsFor' = [k \in Entries |-> IF k \in K THEN Nobody ELSE waitsFor[k]]
        /\ round' = [k \in Entries |-> IF k \in K THEN 0 ELSE round[k]]
        /\ state' = [r \in Reqs |->
             IF state[r] \in Pending /\ (r \in Tracked \/ \E k \in K : k[1] = r) THEN "done" ELSE state[r]]
        /\ timer' = {}
        /\ UNCHANGED <<challenge, authed, answered, answeredOk, authRetried>>
    BY <1>10 DEF SocketDies
  <2>2. state' \in [Reqs -> {"new"} \cup Pending \cup Settled]
    BY <2>1, <1>a DEF TypeOK, Settled
  <2>3. /\ attempt' \in [Attempts -> [stage : {"idle", "signing", "sent"}, ch : Challenges \cup {Nobody}]]
        /\ promise' \in Attempts \cup {Nobody} /\ conn' \in BOOLEAN
    <3>1. Idle \in [stage : {"idle", "signing", "sent"}, ch : Challenges \cup {Nobody}]
      BY DEF Idle
    <3>2. promise' \in Attempts \cup {Nobody} /\ conn' \in BOOLEAN
      BY <2>1, <1>a, <1>10 DEF TypeOK, SocketDies
    <3> QED
      BY <2>1, <3>1, <3>2, <1>a DEF TypeOK
  <2>4. /\ waitsFor' \in [Entries -> Attempts \cup {Nobody}]
        /\ round' \in [Entries -> 0..Rounds]
    BY <2>1, <1>a, RoundsAssumption DEF TypeOK
  <2>5. TypeOK'
    BY <2>1, <2>2, <2>3, <2>4, <1>a DEF TypeOK
  <2>6. \A r \in Tracked : state'[r] \notin Pending
    BY <2>1, <1>c DEF Pending
  <2>7. OneWait' /\ OwnRetry /\ PromiseAlive'
    BY <2>1, <2>6, <1>a, <1>c DEF OneWait, OwnRetry, PromiseAlive, Pending, TypeOK
  <2>8. NoForgottenRequest'
    BY <2>1, <2>6, <1>a DEF NoForgottenRequest, Waiting, Pending, TypeOK
  <2> QED
    BY <2>1, <2>5, <2>7, <2>8 DEF IInv, ChallengeTracked, BeliefSound
<1>11. ASSUME Open PROVE IInv' /\ OwnRetry
  <2> DEFINE replayed == {s \in Subs : state[s] \in {"new"} \cup Pending}
  <2>1. /\ ~conn /\ conn' /\ ResetConnection /\ Renew(replayed)
        /\ state' = [r \in Reqs |-> IF r \in replayed THEN "sent" ELSE state[r]]
        /\ authRetried' = authRetried \ replayed
        /\ UNCHANGED <<issued, relayAuthed, attempt, timer>>
    BY <1>11 DEF Open
  <2>2. replayed \in SUBSET Reqs
    BY DEF Reqs
  <2>3. /\ waitsFor' \in [Entries -> Attempts \cup {Nobody}]
        /\ round' \in [Entries -> 0..Rounds]
        /\ \A q \in Reqs \ replayed : waitsFor'[Current(q)] = waitsFor[Current(q)]
        /\ \A k \in Entries : \/ waitsFor'[k] = Nobody
                              \/ \E j \in Entries : waitsFor'[k] = waitsFor[j]
    BY <2>1, <2>2, <1>a, RenewWaits
  <2>4. \A r \in Tracked : r \notin replayed /\ state'[r] = state[r]
    BY <2>1, <1>c
  <2>5. state' \in [Reqs -> {"new"} \cup Pending \cup Settled] /\ conn' \in BOOLEAN
    BY <2>1, <1>a, <1>11 DEF TypeOK, Pending, Open
  <2>6. TypeOK'
    BY <2>1, <2>3, <2>4, <2>5, <1>a, <1>c DEF TypeOK, ResetConnection
  <2>7. OneWait' /\ OwnRetry
    BY <2>1, <2>3, <2>4, <1>a, <1>c DEF OneWait, OwnRetry, Waiting
  <2>8. \A r \in Reqs : state'[r] # "auth"
    <3>1. \A r \in Reqs : r \in Tracked \/ r \in Subs
      BY DEF Reqs
    <3>2. \A r \in Tracked : state[r] \notin Pending
      BY <2>1, <1>a DEF OneWait
    <3> QED
      BY <2>1, <2>4, <3>1, <3>2 DEF Pending
  <2>9. NoForgottenRequest'
    BY <2>1, <2>3, <2>4, <2>8, <1>a, <1>c DEF NoForgottenRequest, Waiting, TypeOK
  <2> QED
    BY <2>1, <2>6, <2>7, <2>9, <1>a DEF IInv, ChallengeTracked, BeliefSound, PromiseAlive, ResetConnection
<1>12. ASSUME UNCHANGED vars PROVE IInv' /\ OwnRetry
  BY <1>12, <1>a DEF vars, IInv, TypeOK, ChallengeTracked, BeliefSound, PromiseAlive, OneWait,
     NoForgottenRequest, OwnRetry, authVars, reqVars, retryVars, Waiting
<1> QED
  BY <1>1, <1>2, <1>3, <1>4, <1>5, <1>6, <1>7, <1>8, <1>9, <1>10, <1>11, <1>12
     DEF Next, Timeout, Abort, RecvAnswer

\* The invariant holds for ever.
LEMMA Invariant == Spec => []IInv
  BY InitInv, StepInv, PTL DEF Spec

\* Type correctness.
THEOREM RequestsType == Spec => []TypeOK
  BY Invariant, PTL DEF IInv

\* What the client takes for authenticated the relay takes for authenticated, for
\* the challenge it issued last on this connection, with any number of challenges
\* and of AUTH attempts in flight.
THEOREM BeliefIsSound == Spec => []BeliefSound
  BY Invariant, PTL DEF IInv

\* A request that was sent has its timer armed, and one that waits for AUTH waits
\* for an attempt that still runs: none is forgotten.
THEOREM NothingForgotten == Spec => []NoForgottenRequest
  BY Invariant, PTL DEF IInv

\* The authRetry() of an earlier publish never fails a later one of the same event.
THEOREM OnlyOwnRetryFails == Spec => StaleRetryHarmless
<1>1. IInv /\ [Next]_vars =>
        [\A r \in Tracked : state[r] = "sent" /\ state'[r] = "authfailed"
                              => r \notin authRetried /\ r \in authRetried']_vars
  BY StepInv DEF OwnRetry
<1> QED
  BY <1>1, Invariant, PTL DEF Spec, StaleRetryHarmless
=============================================================================
