---------------------------- MODULE MonitorProofs ----------------------------
(***************************************************************************)
(* The safety of the shared resolution and of the handler that drives it,  *)
(* for any set of callers, keys and resolver answers and any number of     *)
(* slots.  The handler only ever drives the pool through its operations,   *)
(* so it inherits the pool's theorems, and the keys it passes keep         *)
(* accounts, servers and forced retries apart.                             *)
(***************************************************************************)
EXTENDS MonitorHandler, FiniteSetTheorems, TLAPS

(***************************************************************************)
(* The pool.                                                               *)
(***************************************************************************)

----------------------------------------------------------------------------
(* Facts about the sets that are counted *)

LEMMA WaitersFinite == IsFiniteSet(Waiters)
BY SharedResolutionAssumption

LEMMA CountedSetsFinite ==
  /\ IsFiniteSet(Occupied)
  /\ \A c : IsFiniteSet(WaitingOn(c))
<1>1. Occupied \in SUBSET Waiters
  BY DEF Occupied
<1>2. \A c : WaitingOn(c) \in SUBSET Waiters
  BY DEF WaitingOn
<1>3. QED
  BY <1>1, <1>2, WaitersFinite, FS_Subset

LEMMA InitPoolInv == PoolInit => PoolInv
<1> SUFFICES ASSUME PoolInit PROVE PoolInv
  OBVIOUS
<1> USE DEF PoolInit
<1>1. PoolTypeOK
  BY DEF PoolTypeOK, CtxStates
<1>2. CallsAreStarted
  BY DEF CallsAreStarted
<1>3. RegisteredIsPending /\ WaitersAreCounted
  BY DEF RegisteredIsPending, WaitersAreCounted
<1>4. LiveWorkIsRegistered /\ NobodyWaitsForAbandoned
  BY DEF LiveWorkIsRegistered, NobodyWaitsForAbandoned
<1>5. CancelledWorkIsUnheard /\ CancellationIsOwn
  BY DEF CancelledWorkIsUnheard, CancellationIsOwn, Pending
<1>6. SlotsAreWorkers
  <2>1. Occupied = {}
    BY DEF Occupied
  <2>2. QED
    BY <2>1, FS_EmptySet, SharedResolutionAssumption DEF SlotsAreWorkers
<1>7. QED
  BY <1>1, <1>2, <1>3, <1>4, <1>5, <1>6 DEF PoolInv

----------------------------------------------------------------------------
(* One lemma per action *)

LEMMA ContextStep ==
  ASSUME PoolInv, NEW r \in Requests,
         PassDeadline(r) \/ FireDeadline(r) \/ CancelRequest(r)
  PROVE  PoolInv'
<1> USE DEF PoolInv, callVars
<1>1. /\ UNCHANGED <<phase, joined, got, calls, key, waiters, worker, workCtx, result, workers>>
      /\ \E s \in {"due", "expired", "canceled"} : ctx' = [ctx EXCEPT ![r] = s]
      /\ ctx[r] # "canceled"
  BY DEF PassDeadline, FireDeadline, CancelRequest
<1>2. PoolTypeOK'
  BY <1>1 DEF PoolTypeOK, CtxStates
<1>3. CancellationIsOwn'
  BY <1>1 DEF CancellationIsOwn, PoolTypeOK
<1>4. CallsAreStarted' /\ RegisteredIsPending' /\ LiveWorkIsRegistered'
  BY <1>1 DEF CallsAreStarted, RegisteredIsPending, LiveWorkIsRegistered, Registered
<1>5. Occupied' = Occupied /\ \A c : WaitingOn(c)' = WaitingOn(c)
  BY <1>1 DEF Occupied, WaitingOn
<1>6. NobodyWaitsForAbandoned' /\ CancelledWorkIsUnheard'
  BY <1>1, <1>5 DEF NobodyWaitsForAbandoned, CancelledWorkIsUnheard, Registered
<1>7. SlotsAreWorkers' /\ WaitersAreCounted'
  BY <1>1, <1>5 DEF SlotsAreWorkers, WaitersAreCounted
<1>8. QED
  BY <1>2, <1>3, <1>4, <1>6, <1>7

\* Leaving without touching any call: too late, refused, or with a published
\* result.
LEMMA LeaveStep ==
  ASSUME PoolInv, NEW w \in Waiters, NEW outcome \in Results \cup {Pending},
         Leave(w, outcome), UNCHANGED callVars,
         outcome.err = "canceled" => ctx[RequestOf(w)] = "canceled",
         phase[w] = "waiting" => ~Registered(joined[w])
  PROVE  PoolInv'
<1> USE DEF PoolInv, callVars, Leave
<1>1. PoolTypeOK'
  BY DEF PoolTypeOK
<1>2. CancellationIsOwn'
  BY DEF CancellationIsOwn, PoolTypeOK
<1>3. CallsAreStarted' /\ RegisteredIsPending' /\ LiveWorkIsRegistered'
  BY DEF CallsAreStarted, RegisteredIsPending, LiveWorkIsRegistered, Registered, PoolTypeOK
<1>4. Occupied' = Occupied /\ \A c : WaitingOn(c)' = WaitingOn(c) \ {w}
  BY DEF Occupied, WaitingOn, PoolTypeOK
<1>5. NobodyWaitsForAbandoned' /\ CancelledWorkIsUnheard'
  BY <1>4 DEF NobodyWaitsForAbandoned, CancelledWorkIsUnheard, Registered, PoolTypeOK
<1>6. SlotsAreWorkers'
  BY <1>4 DEF SlotsAreWorkers
<1>7. WaitersAreCounted'
  <2> SUFFICES ASSUME NEW k \in ResolveKeys, calls[k] # NoCall
               PROVE  waiters[calls[k]] = Cardinality(WaitingOn(calls[k]))'
    BY DEF WaitersAreCounted
  <2>1. Registered(calls[k])
    BY DEF Registered, RegisteredIsPending
  <2>2. w \notin WaitingOn(calls[k])
    BY <2>1 DEF WaitingOn
  <2>3. QED
    BY <1>4, <2>2 DEF WaitersAreCounted
<1>8. QED
  BY <1>1, <1>2, <1>3, <1>5, <1>6, <1>7

LEMMA StartCallStep ==
  ASSUME PoolInv, NEW w \in Waiters, NEW k \in ResolveKeys,
         phase[w] = "out", StartCall(w, k)
  PROVE  PoolInv'
<1> USE DEF PoolInv, StartCall, SlotTaken
<1>1. PoolTypeOK'
  BY DEF PoolTypeOK
<1>2. worker[w] = "none" /\ workCtx[w] = "live"
  BY DEF CallsAreStarted
<1>3. \A c \in Waiters : worker[c] # "none" => c # w
  BY <1>2
<1>4. CallsAreStarted'
  BY <1>2 DEF CallsAreStarted, PoolTypeOK
<1>5. RegisteredIsPending'
  BY <1>3 DEF RegisteredIsPending, PoolTypeOK
<1>6. \A c \in Waiters : c # w /\ worker[c] # "none" =>
         (Registered(c)' <=> Registered(c))
  BY SharedResolutionAssumption DEF Registered, PoolTypeOK, CallsAreStarted
<1>7. Registered(w)'
  BY DEF Registered, PoolTypeOK
<1>8. LiveWorkIsRegistered'
  BY <1>2, <1>6, <1>7 DEF LiveWorkIsRegistered, PoolTypeOK
<1>9. NobodyWaitsForAbandoned'
  BY <1>6, <1>7 DEF NobodyWaitsForAbandoned, CallsAreStarted, PoolTypeOK
<1>10. \A c \in Waiters : WaitingOn(c)' = IF c = w THEN {w} ELSE WaitingOn(c)
  BY <1>2 DEF WaitingOn, CallsAreStarted, PoolTypeOK
<1>11. CancelledWorkIsUnheard'
  BY <1>6, <1>10 DEF CancelledWorkIsUnheard, PoolTypeOK
<1>12. CancellationIsOwn'
  BY DEF CancellationIsOwn
<1>13. SlotsAreWorkers'
  <2>1. Occupied' = Occupied \cup {w} /\ w \notin Occupied
    BY <1>2 DEF Occupied, PoolTypeOK
  <2>2. workers' = Cardinality(Occupied')
    BY <2>1, CountedSetsFinite, FS_AddElement DEF SlotsAreWorkers
  <2>3. QED
    BY <2>2, SharedResolutionAssumption DEF SlotsAreWorkers, FreeSlot, PoolTypeOK
<1>14. WaitersAreCounted'
  <2>1. \A j \in ResolveKeys : j # k /\ calls[j] # NoCall => calls[j] # w /\ calls[j] \in Waiters
    BY <1>2 DEF RegisteredIsPending, PoolTypeOK
  <2>2. Cardinality({w}) = 1
    BY FS_Singleton
  <2>3. QED
    BY <1>10, <2>1, <2>2 DEF WaitersAreCounted, PoolTypeOK
<1>15. QED
  BY <1>1, <1>4, <1>5, <1>8, <1>9, <1>11, <1>12, <1>13, <1>14

LEMMA JoinCallStep ==
  ASSUME PoolInv, NEW w \in Waiters, NEW k \in ResolveKeys,
         phase[w] = "out", JoinCall(w, k)
  PROVE  PoolInv'
<1> DEFINE c == calls[k]
<1> USE DEF PoolInv, JoinCall, CountJoiner
<1>1. c \in Waiters /\ worker[c] \in {"running", "returned"} /\ key[c] = k /\ Registered(c)
  BY DEF PoolTypeOK, RegisteredIsPending, Registered
<1>2. PoolTypeOK'
  BY <1>1 DEF PoolTypeOK
<1>3. CallsAreStarted' /\ RegisteredIsPending'
  BY <1>1 DEF CallsAreStarted, RegisteredIsPending, PoolTypeOK
<1>4. LiveWorkIsRegistered' /\ NobodyWaitsForAbandoned'
  BY <1>1 DEF LiveWorkIsRegistered, NobodyWaitsForAbandoned, Registered, PoolTypeOK
<1>5. \A d \in Waiters : WaitingOn(d)' = IF d = c THEN WaitingOn(c) \cup {w} ELSE WaitingOn(d)
  BY <1>1 DEF WaitingOn, PoolTypeOK
<1>6. CancelledWorkIsUnheard'
  BY <1>1, <1>5 DEF CancelledWorkIsUnheard, Registered
<1>7. CancellationIsOwn'
  BY DEF CancellationIsOwn
<1>8. SlotsAreWorkers'
  <2>1. Occupied' = Occupied
    BY DEF Occupied
  <2>2. QED
    BY <2>1 DEF SlotsAreWorkers
<1>9. WaitersAreCounted'
  <2>1. w \notin WaitingOn(c)
    BY DEF WaitingOn
  <2>2. Cardinality(WaitingOn(c) \cup {w}) = Cardinality(WaitingOn(c)) + 1
    BY <2>1, CountedSetsFinite, FS_AddElement
  <2>3. \A j \in ResolveKeys : calls[j] # NoCall => calls[j] \in Waiters
    BY DEF PoolTypeOK
  <2>4. QED
    BY <1>1, <1>5, <2>2, <2>3 DEF WaitersAreCounted, PoolTypeOK
<1>10. QED
  BY <1>2, <1>3, <1>4, <1>6, <1>7, <1>8, <1>9

\* A caller leaves a registered call, which stays registered.
LEMMA ReleaseOneStep ==
  ASSUME PoolInv, NEW w \in Waiters, NEW outcome \in Results,
         phase[w] = "waiting", Leave(w, outcome), ReleaseOne(w),
         outcome.err = "canceled" => ctx[RequestOf(w)] = "canceled"
  PROVE  PoolInv'
<1> DEFINE c == joined[w]
<1> USE DEF PoolInv, Leave, ReleaseOne
<1>1. c \in Waiters /\ key[c] \in ResolveKeys /\ Registered(c) /\ waiters[c] \in Nat \ {0}
  BY DEF PoolTypeOK, CallsAreStarted
<1>2. PoolTypeOK'
  BY <1>1 DEF PoolTypeOK
<1>3. CallsAreStarted' /\ RegisteredIsPending' /\ LiveWorkIsRegistered'
  BY DEF CallsAreStarted, RegisteredIsPending, LiveWorkIsRegistered, Registered, PoolTypeOK
<1>4. Occupied' = Occupied
  BY DEF Occupied
<1>5. \A d \in Waiters : WaitingOn(d)' = WaitingOn(d) \ {w}
  BY DEF WaitingOn, PoolTypeOK
<1>6. NobodyWaitsForAbandoned' /\ CancelledWorkIsUnheard'
  BY <1>5 DEF NobodyWaitsForAbandoned, CancelledWorkIsUnheard, Registered, PoolTypeOK
<1>7. CancellationIsOwn'
  BY DEF CancellationIsOwn, PoolTypeOK
<1>8. SlotsAreWorkers'
  BY <1>4 DEF SlotsAreWorkers
<1>9. WaitersAreCounted'
  <2> SUFFICES ASSUME NEW k \in ResolveKeys, NEW d \in Waiters, calls[k] = d
               PROVE  waiters'[d] = Cardinality(WaitingOn(d)')
    BY DEF WaitersAreCounted, PoolTypeOK
  <2>1. waiters[d] = Cardinality(WaitingOn(d))
    BY SharedResolutionAssumption DEF WaitersAreCounted
  <2>2. CASE d = c
    <3>1. w \in WaitingOn(c)
      BY DEF WaitingOn
    <3>2. Cardinality(WaitingOn(c) \ {w}) = Cardinality(WaitingOn(c)) - 1
      BY <3>1, CountedSetsFinite, FS_RemoveElement
    <3>3. QED
      BY <1>1, <1>5, <2>1, <2>2, <3>2 DEF PoolTypeOK
  <2>3. CASE d # c
    <3>1. WaitingOn(d) \ {w} = WaitingOn(d)
      BY <2>3 DEF WaitingOn
    <3>2. QED
      BY <1>1, <1>5, <2>1, <2>3, <3>1 DEF PoolTypeOK
  <2>4. QED
    BY <2>2, <2>3
<1>10. QED
  BY <1>2, <1>3, <1>6, <1>7, <1>8, <1>9

\* The deadline of the last caller: the count says that nobody else waits.
LEMMA ReleaseLastStep ==
  ASSUME PoolInv, NEW w \in Waiters, NEW outcome \in Results,
         phase[w] = "waiting", Leave(w, outcome), ReleaseLast(w),
         outcome.err = "canceled" => ctx[RequestOf(w)] = "canceled"
  PROVE  PoolInv'
<1> DEFINE c == joined[w]
           k == key[c]
<1> USE DEF PoolInv, Leave, ReleaseLast
<1>1. c \in Waiters /\ k \in ResolveKeys /\ calls[k] = c
  BY DEF PoolTypeOK, CallsAreStarted, Registered
<1>2. waiters[c] = 1 /\ calls' = [calls EXCEPT ![k] = NoCall]
  BY DEF AbandonsWork, ForgetCall
<1>3. WaitingOn(c) = {w}
  <2>1. Cardinality(WaitingOn(c)) = 1
    BY <1>1, <1>2, SharedResolutionAssumption DEF WaitersAreCounted
  <2>2. w \in WaitingOn(c)
    BY DEF WaitingOn
  <2>3. QED
    BY <2>1, <2>2, CountedSetsFinite, FS_Singleton
<1>4. PoolTypeOK'
  BY <1>1, <1>2 DEF PoolTypeOK
<1>5. c # NoCall /\ \A j \in ResolveKeys : j # k => calls[j] # c
  BY <1>1, SharedResolutionAssumption DEF RegisteredIsPending
<1>6. \A d \in Waiters : d # c => WaitingOn(d)' = WaitingOn(d)
  BY DEF WaitingOn, PoolTypeOK
<1>7. WaitingOn(c)' = {}
  BY <1>3 DEF WaitingOn, PoolTypeOK
<1>8. \A d \in Waiters : worker[d] # "none" =>
         (Registered(d)' <=> Registered(d) /\ d # c)
  BY <1>1, <1>2, <1>5, SharedResolutionAssumption DEF Registered, PoolTypeOK, CallsAreStarted
<1>9. CallsAreStarted'
  BY <1>1 DEF CallsAreStarted, PoolTypeOK, RegisteredIsPending
<1>10. RegisteredIsPending'
  BY <1>1, <1>2 DEF RegisteredIsPending, PoolTypeOK
<1>11. LiveWorkIsRegistered'
  BY <1>1, <1>8 DEF LiveWorkIsRegistered, PoolTypeOK
<1>12. NobodyWaitsForAbandoned'
  BY <1>3, <1>7, <1>8 DEF NobodyWaitsForAbandoned, CallsAreStarted, PoolTypeOK, WaitingOn
<1>13. CancelledWorkIsUnheard'
  BY <1>6, <1>7, <1>8 DEF CancelledWorkIsUnheard, PoolTypeOK
<1>14. CancellationIsOwn'
  BY DEF CancellationIsOwn, PoolTypeOK
<1>15. SlotsAreWorkers'
  <2>1. Occupied' = Occupied
    BY DEF Occupied
  <2>2. QED
    BY <2>1 DEF SlotsAreWorkers
<1>16. WaitersAreCounted'
  <2> SUFFICES ASSUME NEW j \in ResolveKeys, NEW d \in Waiters, calls'[j] = d
               PROVE  waiters'[d] = Cardinality(WaitingOn(d)')
    BY <1>4 DEF WaitersAreCounted, PoolTypeOK
  <2>1. calls[j] = d /\ d # c
    BY <1>1, <1>2, <1>5, SharedResolutionAssumption DEF PoolTypeOK
  <2>2. waiters[d] = Cardinality(WaitingOn(d))
    BY <2>1, SharedResolutionAssumption DEF WaitersAreCounted
  <2>3. QED
    BY <1>1, <1>6, <2>1, <2>2 DEF PoolTypeOK
<1>17. QED
  BY <1>4, <1>9, <1>10, <1>11, <1>12, <1>13, <1>14, <1>15, <1>16

LEMMA EnterStep ==
  ASSUME PoolInv, NEW w \in Waiters, NEW k \in ResolveKeys, Enter(w, k)
  PROVE  PoolInv'
<1>1. CASE EnterTooLate(w)
  <2>1. Failure(TerminalError(RequestOf(w))) \in Results
    BY DEF Failure, Results, Errors, TerminalError
  <2>2. QED
    BY <1>1, <2>1, LeaveStep DEF EnterTooLate, Enter, Failure, TerminalError
<1>2. CASE Refuse(w, k)
  <2>1. Failure("capacity") \in Results
    BY DEF Failure, Results, Errors
  <2>2. QED
    BY <1>2, <2>1, LeaveStep DEF Refuse, Enter, Failure
<1>3. QED
  BY <1>1, <1>2, StartCallStep, JoinCallStep DEF Enter

LEMMA ReceiveStep ==
  ASSUME PoolInv, NEW w \in Waiters, Receive(w)
  PROVE  PoolInv'
<1> USE DEF PoolInv, Receive
<1>1. joined[w] \in Waiters /\ key[joined[w]] \in ResolveKeys
  BY DEF CallsAreStarted
<1>2. ~Registered(joined[w])
  BY <1>1, SharedResolutionAssumption DEF Registered, RegisteredIsPending
<1>3. result[joined[w]] \in Results \cup {Pending}
  BY <1>1 DEF PoolTypeOK
<1>4. w \in WaitingOn(joined[w])
  BY DEF WaitingOn
<1>5. result[joined[w]].err # "canceled"
  BY <1>1, <1>4 DEF CancelledWorkIsUnheard
<1>6. QED
  BY <1>2, <1>3, <1>5, LeaveStep

LEMMA GiveUpStep ==
  ASSUME PoolInv, NEW w \in Waiters, GiveUp(w)
  PROVE  PoolInv'
<1> USE DEF PoolInv, GiveUp
<1> DEFINE outcome == Failure(TerminalError(RequestOf(w)))
<1>1. outcome \in Results
  BY DEF Failure, Results, Errors, TerminalError
<1>2. outcome.err = "canceled" => ctx[RequestOf(w)] = "canceled"
  BY DEF Failure, TerminalError
<1>3. CASE ReleaseNothing(w)
  <2>1. joined[w] \in Waiters /\ key[joined[w]] \in ResolveKeys
    BY DEF CallsAreStarted
  <2>2. w \in WaitingOn(joined[w]) /\ IsFiniteSet(WaitingOn(joined[w]))
    BY CountedSetsFinite DEF WaitingOn
  <2>3. Cardinality(WaitingOn(joined[w])) # 0
    BY <2>2, FS_EmptySet
  <2>4. ~Registered(joined[w])
    BY <1>3, <2>1, <2>3, SharedResolutionAssumption
       DEF ReleaseNothing, Registered, WaitersAreCounted
  <2>5. QED
    BY <1>1, <1>2, <1>3, <2>4, LeaveStep DEF ReleaseNothing
<1>4. QED
  BY <1>1, <1>2, <1>3, ReleaseOneStep, ReleaseLastStep

LEMMA ResolverReturnsStep ==
  ASSUME PoolInv, NEW c \in Waiters, NEW a \in Answers, ResolverReturns(c, a)
  PROVE  PoolInv'
<1> USE DEF PoolInv, ResolverReturns
<1>1. PoolTypeOK'
  BY SharedResolutionAssumption DEF PoolTypeOK
<1>2. CallsAreStarted' /\ RegisteredIsPending'
  BY DEF CallsAreStarted, RegisteredIsPending, PoolTypeOK
<1>3. \A d \in Waiters : WaitingOn(d)' = WaitingOn(d) /\ (Registered(d)' <=> Registered(d))
  BY DEF WaitingOn, Registered
<1>4. LiveWorkIsRegistered' /\ NobodyWaitsForAbandoned'
  BY <1>3 DEF LiveWorkIsRegistered, NobodyWaitsForAbandoned, CallsAreStarted, PoolTypeOK
<1>5. CancelledWorkIsUnheard'
  <2>1. a.err = "canceled" => ~Registered(c)
    BY DEF AnswersOf, LiveWorkIsRegistered
  <2>2. a.err = "canceled" => WaitingOn(c) = {}
    BY <2>1 DEF NobodyWaitsForAbandoned, WaitingOn
  <2>3. QED
    BY <1>3, <2>1, <2>2 DEF CancelledWorkIsUnheard, PoolTypeOK
<1>6. CancellationIsOwn'
  BY DEF CancellationIsOwn
<1>7. SlotsAreWorkers'
  <2>1. Occupied' = Occupied
    BY DEF Occupied, PoolTypeOK
  <2>2. QED
    BY <2>1 DEF SlotsAreWorkers
<1>8. WaitersAreCounted'
  BY <1>3 DEF WaitersAreCounted, PoolTypeOK
<1>9. QED
  BY <1>1, <1>2, <1>4, <1>5, <1>6, <1>7, <1>8

LEMMA PublishingStep ==
  ASSUME PoolInv, NEW c \in Waiters, Publish(c)
  PROVE  PoolInv'
<1> USE DEF PoolInv, Publish
<1>1. key[c] \in ResolveKeys
  BY DEF CallsAreStarted
<1>2. calls' \in [ResolveKeys -> Waiters \cup {NoCall}]
  BY DEF Unregister, PoolTypeOK
<1>3. \A k \in ResolveKeys : /\ calls'[k] # NoCall => calls'[k] = calls[k]
                             /\ calls'[k] # c \/ c = NoCall
                             /\ calls[k] # c => calls'[k] = calls[k]
  BY <1>1, SharedResolutionAssumption DEF Unregister, Registered, PoolTypeOK, RegisteredIsPending
<1>4. c \in Occupied
  BY DEF Occupied
<1>5. Cardinality(Occupied) \in Nat /\ Cardinality(Occupied \ {c}) = Cardinality(Occupied) - 1
  BY <1>4, CountedSetsFinite, FS_RemoveElement, FS_CardinalityType
<1>6. Cardinality(Occupied \ {c}) \in Nat
  BY CountedSetsFinite, FS_RemoveElement, FS_CardinalityType
<1>7. workers' = Cardinality(Occupied \ {c}) /\ workers' \in Nat
  BY <1>5, <1>6 DEF SlotsAfter, SlotsAreWorkers
<1>8. PoolTypeOK'
  BY <1>2, <1>7 DEF PoolTypeOK
<1>9. CallsAreStarted'
  BY DEF CallsAreStarted, PoolTypeOK
<1>10. RegisteredIsPending'
  BY <1>3, SharedResolutionAssumption DEF RegisteredIsPending, PoolTypeOK
<1>11. \A d \in Waiters : worker[d] # "none" =>
          (Registered(d)' <=> Registered(d) /\ d # c)
  BY <1>3, SharedResolutionAssumption DEF Registered, CallsAreStarted
<1>12. LiveWorkIsRegistered' /\ NobodyWaitsForAbandoned'
  BY <1>11 DEF LiveWorkIsRegistered, NobodyWaitsForAbandoned, CallsAreStarted, PoolTypeOK
<1>13. \A d \in Waiters : WaitingOn(d)' = WaitingOn(d)
  BY DEF WaitingOn
<1>14. CancelledWorkIsUnheard' /\ CancellationIsOwn'
  BY <1>11, <1>13 DEF CancelledWorkIsUnheard, CancellationIsOwn, PoolTypeOK
<1>15. SlotsAreWorkers'
  <2>1. Occupied' = Occupied \ {c}
    BY DEF Occupied, PoolTypeOK
  <2>2. QED
    BY <1>5, <1>7, <2>1, SharedResolutionAssumption DEF SlotsAreWorkers
<1>16. WaitersAreCounted'
  BY <1>3, <1>13, <1>2, SharedResolutionAssumption DEF WaitersAreCounted
<1>17. QED
  BY <1>8, <1>9, <1>10, <1>12, <1>14, <1>15, <1>16

LEMMA TimingOutStep ==
  ASSUME PoolInv, NEW c \in Waiters, WorkTimeout(c)
  PROVE  PoolInv'
<1> USE DEF PoolInv, WorkTimeout
<1>1. PoolTypeOK' /\ CallsAreStarted' /\ RegisteredIsPending'
  BY DEF PoolTypeOK, CallsAreStarted, RegisteredIsPending
<1>2. \A d \in Waiters : WaitingOn(d)' = WaitingOn(d) /\ (Registered(d)' <=> Registered(d))
  BY DEF WaitingOn, Registered
<1>3. LiveWorkIsRegistered' /\ NobodyWaitsForAbandoned'
  BY <1>2 DEF LiveWorkIsRegistered, NobodyWaitsForAbandoned, CallsAreStarted, PoolTypeOK
<1>4. CancelledWorkIsUnheard' /\ CancellationIsOwn'
  BY <1>2 DEF CancelledWorkIsUnheard, CancellationIsOwn
<1>5. SlotsAreWorkers'
  <2>1. Occupied' = Occupied
    BY DEF Occupied
  <2>2. QED
    BY <2>1 DEF SlotsAreWorkers
<1>6. WaitersAreCounted'
  BY <1>2 DEF WaitersAreCounted, PoolTypeOK
<1>7. QED
  BY <1>1, <1>3, <1>4, <1>5, <1>6

----------------------------------------------------------------------------

LEMMA PoolInvIsInductive == PoolInv /\ [PoolNext]_poolVars => PoolInv'
<1> SUFFICES ASSUME PoolInv, [PoolNext]_poolVars PROVE PoolInv'
  OBVIOUS
<1>1. ASSUME NEW r \in Requests, PassDeadline(r) \/ FireDeadline(r) \/ CancelRequest(r)
      PROVE  PoolInv'
  BY <1>1, ContextStep
<1>2. ASSUME NEW w \in Waiters, NEW k \in ResolveKeys, Enter(w, k)
      PROVE  PoolInv'
  BY <1>2, EnterStep
<1>3. ASSUME NEW w \in Waiters, Receive(w) \/ GiveUp(w)
      PROVE  PoolInv'
  BY <1>3, ReceiveStep, GiveUpStep
<1>4. ASSUME NEW w \in Waiters, WorkerStep(w)
      PROVE  PoolInv'
  BY <1>4, ResolverReturnsStep, PublishingStep, TimingOutStep DEF WorkerStep
<1>5. CASE UNCHANGED poolVars
  <2>1. PoolTypeOK' /\ CallsAreStarted' /\ RegisteredIsPending' /\ LiveWorkIsRegistered'
    BY <1>5 DEF PoolInv, poolVars, PoolTypeOK, CallsAreStarted, RegisteredIsPending,
                LiveWorkIsRegistered, Registered
  <2>2. NobodyWaitsForAbandoned' /\ CancelledWorkIsUnheard' /\ CancellationIsOwn'
    BY <1>5 DEF PoolInv, poolVars, NobodyWaitsForAbandoned, CancelledWorkIsUnheard,
                CancellationIsOwn, Registered, WaitingOn
  <2>3. SlotsAreWorkers' /\ WaitersAreCounted'
    BY <1>5 DEF PoolInv, poolVars, SlotsAreWorkers, WaitersAreCounted, Occupied, WaitingOn
  <2>4. QED
    BY <2>1, <2>2, <2>3 DEF PoolInv
<1>6. QED
  BY <1>1, <1>2, <1>3, <1>4, <1>5 DEF PoolNext

\* The pool's inductive invariant holds whatever callers, keys and answers it
\* is given: the one argument behind the theorems that follow.
THEOREM PoolSafety == PoolSpec => []PoolInv
<1>1. QED
  BY InitPoolInv, PoolInvIsInductive, PTL DEF PoolSpec

\* Slots are conserved: the channel of workers holds one token per resolver
\* goroutine that has not published, and never more than its capacity.
THEOREM SlotsConserved == PoolSpec => []SlotsAreWorkers
<1>1. PoolInv => SlotsAreWorkers
  BY DEF PoolInv
<1>2. QED
  BY <1>1, PoolSafety, PTL

\* Nobody waits in vain: a caller's call is registered or has published.
THEOREM NoLostWaiter == PoolSpec => []NobodyWaitsForAbandoned
<1>1. PoolInv => NobodyWaitsForAbandoned
  BY DEF PoolInv
<1>2. QED
  BY <1>1, PoolSafety, PTL

\* At most one uncancelled resolver runs per key, and it can be joined.
THEOREM SingleFlight == PoolSpec => []LiveWorkIsRegistered
<1>1. PoolInv => LiveWorkIsRegistered
  BY DEF PoolInv
<1>2. QED
  BY <1>1, PoolSafety, PTL

\* The count that decides whether an expiring caller cancels the shared work
\* is the number of callers in their select.
THEOREM CountIsExact == PoolSpec => []WaitersAreCounted
<1>1. PoolInv => WaitersAreCounted
  BY DEF PoolInv
<1>2. QED
  BY <1>1, PoolSafety, PTL

\* No caller is ever told of a cancellation that is not its own client's.
THEOREM NoBorrowedCancellation == PoolSpec => []CancellationIsOwn
<1>1. PoolInv => CancellationIsOwn
  BY DEF PoolInv
<1>2. QED
  BY <1>1, PoolSafety, PTL

\* A call found in the map has a goroutine that has still to publish, under the
\* very key it was found with: nobody joins work that is over, or another's.
THEOREM RegisteredWorkIsPending == PoolSpec => []RegisteredIsPending
<1>1. PoolInv => RegisteredIsPending
  BY DEF PoolInv
<1>2. QED
  BY <1>1, PoolSafety, PTL

\* The pool's state keeps its types; no counter leaves the naturals, so the
\* receive that frees a slot never blocks on an empty channel.
THEOREM PoolTypes == PoolSpec => []PoolTypeOK
<1>1. PoolInv => PoolTypeOK
  BY DEF PoolInv
<1>2. QED
  BY <1>1, PoolSafety, PTL

(***************************************************************************)
(* The handler.                                                            *)
(***************************************************************************)
LEMMA AttemptsAreWaiters ==
  ASSUME NEW r \in Requests, NEW a \in Attempts
  PROVE  <<r, a>> \in Waiters /\ RequestOf(<<r, a>>) = r
BY DEF Waiters, RequestOf

LEMMA KeysAreKeys ==
  ASSUME NEW r \in Requests, NEW a \in {1, 2}, selector[r] \in Selectors
  PROVE  KeyOf(r, a) \in ResolveKeys
BY HandlerAssumption DEF KeyOf, ResolveKeys

\* A selector is known from the moment a request is accepted.
SelectorsKnown ==
  /\ stage \in [Requests -> Stages]
  /\ selector \in [Requests -> Selectors \cup {NoSelector}]
  /\ \A r \in Requests : stage[r] \in {"first", "backoff", "second"} => selector[r] \in Selectors

OwnKey(w) == KeyOf(RequestOf(w), w[2])

\* A request that is still idle has entered no resolution; later, the call an
\* attempt leads or joins carries the attempt's key.
KeysAreOwn ==
  \A w \in Waiters :
    /\ stage[RequestOf(w)] = "idle" => key[w] = NoCall /\ joined[w] = NoCall
    /\ key[w] # NoCall => key[w] = OwnKey(w)
    /\ joined[w] # NoCall => /\ joined[w] \in Waiters
                             /\ key[joined[w]] \in ResolveKeys
                             /\ key[joined[w]] = OwnKey(w)

SharingInv == PoolInv /\ SelectorsKnown /\ KeysAreOwn

----------------------------------------------------------------------------

\* Steps of the handler are steps of the pool or leave it alone.
LEMMA StepsOfThePool == SharingInv /\ [Next]_vars => [PoolNext]_poolVars
<1> SUFFICES ASSUME SharingInv, [Next]_vars PROVE [PoolNext]_poolVars
  OBVIOUS
<1>1. ASSUME NEW r \in Requests, ResolveFirst(r) \/ ResolveAgain(r)
      PROVE  PoolNext
  <2>1. KeyOf(r, 1) \in ResolveKeys /\ KeyOf(r, 2) \in ResolveKeys
    BY <1>1, KeysAreKeys DEF ResolveFirst, ResolveAgain, SharingInv, SelectorsKnown
  <2>2. <<r, 1>> \in Waiters /\ <<r, 2>> \in Waiters
    BY AttemptsAreWaiters, HandlerAssumption
  <2>3. QED
    BY <1>1, <2>1, <2>2 DEF ResolveFirst, ResolveAgain, PoolNext
<1>2. ASSUME NEW r \in Requests, Answered(r)
      PROVE  PoolNext
  <2>1. PICK a \in Attempts : Receive(<<r, a>>) \/ GiveUp(<<r, a>>)
    BY <1>2 DEF Answered
  <2>2. QED
    BY <2>1, AttemptsAreWaiters DEF PoolNext
<1>3. ASSUME NEW r \in Requests, ContextEnds(r)
      PROVE  PoolNext
  BY <1>3 DEF ContextEnds, PoolNext
<1>4. ASSUME NEW c \in Waiters, Worker(c)
      PROVE  PoolNext
  BY <1>4 DEF Worker, PoolNext
<1>5. ASSUME NEW r \in Requests,
             RejectRequest(r) \/ AcceptRequest(r) \/ StartBackoff(r) \/ StartRetry(r)
               \/ Conclude(r) \/ HealthReturns(r)
      PROVE  UNCHANGED poolVars
  BY <1>5 DEF RejectRequest, AcceptRequest, StartBackoff, StartRetry, Conclude, HealthReturns
<1>6. CASE UNCHANGED vars
  BY <1>6 DEF vars
<1>7. QED
  BY <1>1, <1>2, <1>3, <1>4, <1>5, <1>6 DEF Next, Handle

LEMMA SelectorsKnownStep == SelectorsKnown /\ [Next]_vars => SelectorsKnown'
<1> SUFFICES ASSUME SelectorsKnown, [Next]_vars PROVE SelectorsKnown'
  OBVIOUS
<1> USE DEF SelectorsKnown, Stages
<1>1. ASSUME NEW r \in Requests, RejectRequest(r) PROVE SelectorsKnown'
  BY <1>1 DEF RejectRequest
<1>2. ASSUME NEW r \in Requests, AcceptRequest(r) PROVE SelectorsKnown'
  BY <1>2 DEF AcceptRequest
<1>3. ASSUME NEW r \in Requests,
             ResolveFirst(r) \/ ResolveAgain(r) \/ Answered(r) \/ ContextEnds(r)
      PROVE  SelectorsKnown'
  BY <1>3 DEF ResolveFirst, ResolveAgain, Answered, ContextEnds, handlerVars
<1>4. ASSUME NEW r \in Requests, StartBackoff(r) \/ StartRetry(r) PROVE SelectorsKnown'
  BY <1>4 DEF StartBackoff, StartRetry
<1>5. ASSUME NEW r \in Requests, Conclude(r) PROVE SelectorsKnown'
  BY <1>5 DEF Conclude, ConcludeDiscoveryFailed, ConcludeConfiguration, ConcludeNoClient,
              ConcludeResolved, Fail, Respond
<1>6. ASSUME NEW r \in Requests, HealthReturns(r) PROVE SelectorsKnown'
  BY <1>6 DEF HealthReturns, Fail, Respond
<1>7. ASSUME NEW c \in Waiters, Worker(c) PROVE SelectorsKnown'
  BY <1>7 DEF Worker, handlerVars
<1>8. CASE UNCHANGED vars
  BY <1>8 DEF vars, handlerVars
<1>9. QED
  BY <1>1, <1>2, <1>3, <1>4, <1>5, <1>6, <1>7, <1>8 DEF Next, Handle

\* Requests that are past "idle" keep their selector, and so their keys.
LEMMA OwnKeysStay ==
  ASSUME SharingInv, [Next]_vars, NEW w \in Waiters, stage[RequestOf(w)] # "idle"
  PROVE  OwnKey(w)' = OwnKey(w) /\ stage'[RequestOf(w)] # "idle"
<1> DEFINE r == RequestOf(w)
<1>1. r \in Requests /\ stage \in [Requests -> Stages]
      /\ selector \in [Requests -> Selectors \cup {NoSelector}]
  BY DEF SharingInv, SelectorsKnown, Waiters, RequestOf
<1>2. selector'[r] = selector[r] /\ stage'[r] # "idle"
  <2> USE <1>1
  <2>1. ASSUME NEW q \in Requests, RejectRequest(q) \/ AcceptRequest(q)
        PROVE  selector'[r] = selector[r] /\ stage'[r] # "idle"
    BY <2>1 DEF RejectRequest, AcceptRequest
  <2>2. ASSUME NEW q \in Requests, Handle(q) \/ ContextEnds(q)
        PROVE  selector'[r] = selector[r] /\ stage'[r] # "idle"
    BY <2>2 DEF Handle, ResolveFirst, ResolveAgain, Answered, StartBackoff, StartRetry, Conclude,
                ConcludeDiscoveryFailed, ConcludeConfiguration, ConcludeNoClient,
                ConcludeResolved, HealthReturns, Fail, Respond, ContextEnds, handlerVars
  <2>3. ASSUME NEW c \in Waiters, Worker(c)
        PROVE  selector'[r] = selector[r] /\ stage'[r] # "idle"
    BY <2>3 DEF Worker, handlerVars
  <2>4. CASE UNCHANGED vars
    BY <2>4 DEF vars, handlerVars
  <2>5. QED
    BY <2>1, <2>2, <2>3, <2>4 DEF Next
<1>3. QED
  BY <1>2 DEF OwnKey, KeyOf

\* An attempt that enters leads or joins a call of its own key.
LEMMA KeysOnEntry ==
  ASSUME SharingInv, NEW w \in Waiters, OwnKey(w) \in ResolveKeys, Enter(w, OwnKey(w)),
         NEW v \in Waiters
  PROVE  /\ key'[v] = key[v] \/ (v = w /\ key'[v] = OwnKey(v))
         /\ joined'[v] = joined[v] \/ (/\ v = w
                                       /\ joined'[v] \in Waiters
                                       /\ key'[joined'[v]] = OwnKey(v))
<1> USE DEF SharingInv, PoolInv, PoolTypeOK
<1>1. CASE EnterTooLate(w) \/ Refuse(w, OwnKey(w))
  BY <1>1 DEF EnterTooLate, Refuse, Leave, callVars
<1>2. CASE StartCall(w, OwnKey(w))
  BY <1>2 DEF StartCall
<1>3. CASE JoinCall(w, OwnKey(w))
  BY <1>3 DEF JoinCall, RegisteredIsPending
<1>4. QED
  BY <1>1, <1>2, <1>3 DEF Enter

LEMMA KeysStep ==
  ASSUME SharingInv, [Next]_vars, NEW v \in Waiters
  PROVE  /\ \/ key'[v] = key[v]
            \/ stage[RequestOf(v)] # "idle" /\ key'[v] = OwnKey(v)
         /\ \/ joined'[v] = joined[v]
            \/ /\ stage[RequestOf(v)] # "idle"
               /\ joined'[v] \in Waiters
               /\ key'[joined'[v]] = OwnKey(v)
               /\ OwnKey(v) \in ResolveKeys
<1> DEFINE Unmoved == key' = key /\ joined' = joined
           Entered(w) == /\ stage[RequestOf(w)] # "idle"
                         /\ OwnKey(w) \in ResolveKeys
                         /\ Enter(w, OwnKey(w))
<1>1. ASSUME NEW r \in Requests, ResolveFirst(r) \/ ResolveAgain(r)
      PROVE  \E w \in Waiters : Entered(w)
  <2>1. ASSUME NEW a \in {1, 2}, stage[r] # "idle", selector[r] \in Selectors,
               Enter(<<r, a>>, KeyOf(r, a))
        PROVE  \E w \in Waiters : Entered(w)
    <3>1. <<r, a>> \in Waiters /\ RequestOf(<<r, a>>) = r /\ OwnKey(<<r, a>>) = KeyOf(r, a)
      BY AttemptsAreWaiters, HandlerAssumption DEF OwnKey
    <3>2. QED
      BY <2>1, <3>1, KeysAreKeys
  <2>2. QED
    BY <1>1, <2>1 DEF ResolveFirst, ResolveAgain, SharingInv, SelectorsKnown
<1>2. ASSUME NEW r \in Requests, ~(ResolveFirst(r) \/ ResolveAgain(r)),
             RejectRequest(r) \/ AcceptRequest(r) \/ Handle(r) \/ ContextEnds(r)
      PROVE  Unmoved
  BY <1>2 DEF RejectRequest, AcceptRequest, Handle, Answered, StartBackoff, StartRetry, Conclude,
              HealthReturns, ContextEnds, poolVars, callVars, Receive, GiveUp, Leave,
              ReleaseNothing, ReleaseOne, ReleaseLast, PassDeadline, FireDeadline, CancelRequest
<1>3. ASSUME NEW c \in Waiters, Worker(c)
      PROVE  Unmoved
  BY <1>3 DEF Worker, WorkerStep, ResolverReturns, Publish, WorkTimeout
<1>4. CASE UNCHANGED vars
  BY <1>4 DEF vars, poolVars
<1>5. ASSUME NEW w \in Waiters, Entered(w)
      PROVE  /\ key'[v] = key[v] \/ (stage[RequestOf(v)] # "idle" /\ key'[v] = OwnKey(v))
             /\ joined'[v] = joined[v] \/ (/\ stage[RequestOf(v)] # "idle"
                                           /\ joined'[v] \in Waiters
                                           /\ key'[joined'[v]] = OwnKey(v)
                                           /\ OwnKey(v) \in ResolveKeys)
  BY <1>5, KeysOnEntry
<1>6. QED
  BY <1>1, <1>2, <1>3, <1>4, <1>5 DEF Next, Handle

LEMMA KeysAreOwnStep ==
  ASSUME SharingInv, [Next]_vars
  PROVE  KeysAreOwn'
<1> SUFFICES ASSUME NEW v \in Waiters
             PROVE  /\ stage'[RequestOf(v)] = "idle" => key'[v] = NoCall /\ joined'[v] = NoCall
                    /\ key'[v] # NoCall => key'[v] = OwnKey(v)'
                    /\ joined'[v] # NoCall => /\ joined'[v] \in Waiters
                                              /\ key'[joined'[v]] \in ResolveKeys
                                              /\ key'[joined'[v]] = OwnKey(v)'
  BY DEF KeysAreOwn
<1> USE DEF SharingInv, KeysAreOwn
<1>1. CASE stage[RequestOf(v)] = "idle"
  BY <1>1, KeysStep
<1>2. CASE stage[RequestOf(v)] # "idle"
  <2>1. OwnKey(v)' = OwnKey(v) /\ stage'[RequestOf(v)] # "idle"
    BY <1>2, OwnKeysStay
  <2>2. key'[v] # NoCall => key'[v] = OwnKey(v)
    BY KeysStep
  <2>3. joined[v] # NoCall => key'[joined[v]] = key[joined[v]]
    <3> SUFFICES ASSUME joined[v] # NoCall PROVE key'[joined[v]] = key[joined[v]]
      OBVIOUS
    <3>1. joined[v] \in Waiters /\ key[joined[v]] # NoCall
      BY SharedResolutionAssumption
    <3>2. QED
      BY <3>1, KeysStep
  <2>4. QED
    BY <2>1, <2>2, <2>3, KeysStep
<1>3. QED
  BY <1>1, <1>2

----------------------------------------------------------------------------

LEMMA SharingInvHolds == Spec => []SharingInv
<1>1. Init => SharingInv
  BY InitPoolInv DEF Init, PoolInit, SharingInv, SelectorsKnown, KeysAreOwn, Stages, Waiters,
                     RequestOf
<1>2. SharingInv /\ [Next]_vars => SharingInv'
  BY StepsOfThePool, PoolInvIsInductive, SelectorsKnownStep, KeysAreOwnStep DEF SharingInv
<1>3. QED
  BY <1>1, <1>2, PTL DEF Spec

\* The handler drives the pool only through its operations: whatever is proved
\* of PoolSpec holds of the running monitor.
THEOREM HandlerRunsThePool == Spec => PoolSpec
<1>1. Init => PoolInit
  BY DEF Init
<1>2. QED
  BY <1>1, SharingInvHolds, StepsOfThePool, PTL DEF Spec, PoolSpec

\* Under the handler, whatever requests arrive, retry, expire or are cancelled,
\* the workers channel holds a token per unfinished resolver and no more than
\* its capacity.
THEOREM HandlerKeepsSlots == Spec => []SlotsAreWorkers
<1>1. QED
  BY HandlerRunsThePool, SlotsConserved, PTL

\* An attempt only shares the work of attempts for the same account and
\* server, and a forced retry only that of forced retries.
THEOREM RetriesKeepTheirKey == Spec => []SharesOnlySameKey
<1>1. SharingInv => SharesOnlySameKey
  <2> SUFFICES ASSUME SharingInv, NEW r \in Requests, NEW a \in Attempts,
                      joined[<<r, a>>] # NoCall
               PROVE  /\ selector[RequestOf(joined[<<r, a>>])] = selector[r]
                      /\ HasRetryResolve => joined[<<r, a>>][2] = a
    BY DEF SharesOnlySameKey
  <2> DEFINE leader == joined[<<r, a>>]
  <2>1. <<r, a>> \in Waiters /\ RequestOf(<<r, a>>) = r
    BY AttemptsAreWaiters
  <2>2. leader \in Waiters /\ key[leader] # NoCall /\ key[leader] = OwnKey(<<r, a>>)
    BY <2>1, SharedResolutionAssumption DEF SharingInv, KeysAreOwn
  <2>3. OwnKey(leader) = OwnKey(<<r, a>>)
    BY <2>2 DEF SharingInv, KeysAreOwn
  <2>4. QED
    BY <2>1, <2>2, <2>3, HandlerAssumption DEF OwnKey, KeyOf, Waiters
<1>2. QED
  BY <1>1, SharingInvHolds, PTL

----------------------------------------------------------------------------
(* The identity of a failure *)

\* The second attempt follows the first, and both are over when the resolution
\* is.
AttemptsFit ==
  \A r \in Requests :
    /\ stage[r] = "idle" => phase[<<r, 1>>] = "out"
    /\ stage[r] \in {"idle", "first", "backoff"} => phase[<<r, 2>>] = "out"
    /\ stage[r] \in {"backoff", "second", "checking"} => phase[<<r, 1>>] = "left"
    /\ stage[r] \in {"checking", "answered"} => phase[<<r, 1>>] # "waiting" /\ phase[<<r, 2>>] # "waiting"

\* A resolver's target is its selector's profile, and so is a waiter's.
TargetsAreOwn ==
  /\ \A c \in Waiters : result[c].target # NoTarget =>
       key[c] \in ResolveKeys /\ result[c].target = ProfileOf[key[c].selector]
  /\ \A w \in Waiters : /\ phase[w] = "out" => got[w] = Pending
                        /\ got[w].target \in {NoTarget, ProfileOf[selector[RequestOf(w)]]}

ReportsAreLast ==
  /\ reported \in [Requests -> Targets \cup {NoTarget, Unreported}]
  /\ \A r \in Requests : reported[r] # Unreported => stage[r] = "answered"

IdentityInv == SharingInv /\ AttemptsFit /\ TargetsAreOwn /\ ReportsAreLast /\ FailureKeepsIdentity

LEMMA WaitersAreAttempts ==
  ASSUME NEW w \in Waiters
  PROVE  /\ RequestOf(w) \in Requests /\ (w = <<RequestOf(w), 1>> \/ w = <<RequestOf(w), 2>>)
         /\ \A r \in Requests : <<r, 1>> \in Waiters /\ <<r, 2>> \in Waiters
BY HandlerAssumption DEF Waiters, RequestOf

\* What a resolver of w's own key returned is about w's own profile.
LEMMA HeardIsOwn ==
  ASSUME IdentityInv, NEW w \in Waiters, phase[w] = "waiting"
  PROVE  /\ stage[RequestOf(w)] \in {"first", "second"}
         /\ result[joined[w]].target \in {NoTarget, ProfileOf[selector[RequestOf(w)]]}
<1>1. joined[w] \in Waiters /\ key[joined[w]] \in ResolveKeys
  BY DEF IdentityInv, SharingInv, PoolInv, CallsAreStarted
<1>2. key[joined[w]] = OwnKey(w)
  BY <1>1, SharedResolutionAssumption DEF IdentityInv, SharingInv, KeysAreOwn
<1>3. OwnKey(w).selector = selector[RequestOf(w)]
  BY DEF OwnKey, KeyOf
<1>4. stage[RequestOf(w)] \in {"first", "second"}
  BY WaitersAreAttempts DEF IdentityInv, SharingInv, SelectorsKnown, Stages, AttemptsFit
<1>5. QED
  BY <1>1, <1>2, <1>3, <1>4 DEF IdentityInv, TargetsAreOwn

\* Some attempt that is under way enters, or leaves with an outcome.
LEMMA AttemptKeepsIdentity ==
  ASSUME IdentityInv, SharingInv', NEW w \in Waiters, NEW g,
         phase[w] # "left", stage[RequestOf(w)] = (IF w[2] = 1 THEN "first" ELSE "second"),
         \E p \in {"waiting", "left"} : phase' = [phase EXCEPT ![w] = p],
         got' = got \/ got' = [got EXCEPT ![w] = g],
         g.target \in {NoTarget, ProfileOf[selector[RequestOf(w)]]},
         result' = result,
         \A c \in Waiters : key[c] \in ResolveKeys /\ result[c].target # NoTarget => key'[c] = key[c],
         UNCHANGED handlerVars
  PROVE  IdentityInv'
<1> DEFINE r == RequestOf(w)
<1>1. /\ r \in Requests /\ (w = <<r, 1>> \/ w = <<r, 2>>)
      /\ phase \in [Waiters -> {"out", "waiting", "left"}]
      /\ got \in [Waiters -> Results \cup {Pending}]
  BY WaitersAreAttempts DEF IdentityInv, SharingInv, PoolInv, PoolTypeOK
<1>2. PICK p \in {"waiting", "left"} : phase' = [phase EXCEPT ![w] = p]
  OBVIOUS
<1>3. \A v \in Waiters : v # w => phase'[v] = phase[v] /\ got'[v] = got[v]
  BY <1>1, <1>2
<1>4. phase'[w] \in {"waiting", "left"} /\ (got'[w] = g \/ got'[w] = got[w])
  BY <1>1, <1>2
<1>5. AttemptsFit'
  <2> SUFFICES ASSUME NEW q \in Requests
               PROVE  /\ stage[q] = "idle" => phase'[<<q, 1>>] = "out"
                      /\ stage[q] \in {"idle", "first", "backoff"} => phase'[<<q, 2>>] = "out"
                      /\ stage[q] \in {"backoff", "second", "checking"} => phase'[<<q, 1>>] = "left"
                      /\ stage[q] \in {"checking", "answered"} =>
                           phase'[<<q, 1>>] # "waiting" /\ phase'[<<q, 2>>] # "waiting"
    BY DEF AttemptsFit, handlerVars
  <2>1. <<q, 1>> \in Waiters /\ <<q, 2>> \in Waiters
    BY <1>1, WaitersAreAttempts
  <2>2. CASE q # r
    BY <1>1, <1>3, <2>1, <2>2 DEF IdentityInv, AttemptsFit
  <2>3. CASE q = r
    <3>1. CASE w = <<r, 1>>
      BY <1>1, <1>3, <1>4, <2>1, <2>3, <3>1 DEF IdentityInv, AttemptsFit
    <3>2. CASE w = <<r, 2>>
      BY <1>1, <1>3, <1>4, <2>1, <2>3, <3>2 DEF IdentityInv, AttemptsFit
    <3>3. QED
      BY <1>1, <3>1, <3>2
  <2>4. QED
    BY <2>2, <2>3
<1>6. TargetsAreOwn'
  <2>1. \A c \in Waiters : result'[c].target # NoTarget =>
          key'[c] \in ResolveKeys /\ result'[c].target = ProfileOf[key'[c].selector]
    BY DEF IdentityInv, TargetsAreOwn
  <2>2. \A v \in Waiters : /\ phase'[v] = "out" => got'[v] = Pending
                           /\ got'[v].target \in {NoTarget, ProfileOf[selector[RequestOf(v)]]}
    BY <1>3, <1>4 DEF IdentityInv, TargetsAreOwn
  <2>3. QED
    BY <2>1, <2>2 DEF TargetsAreOwn, handlerVars
<1>7. ReportsAreLast'
  BY DEF IdentityInv, ReportsAreLast, handlerVars
<1>8. FailureKeepsIdentity'
  <2> SUFFICES ASSUME NEW q \in Requests, reported[q] # Unreported
               PROVE  /\ reported[q] \in {NoTarget, ProfileOf[selector[q]]}
                      /\ reported[q] = NoTarget => \A a \in Attempts : got'[<<q, a>>].target = NoTarget
    BY DEF FailureKeepsIdentity, handlerVars
  <2>1. q # r
    BY <1>1 DEF IdentityInv, ReportsAreLast
  <2>2. \A a \in Attempts : <<q, a>> \in Waiters /\ <<q, a>> # w
    BY <1>1, <2>1, AttemptsAreWaiters
  <2>3. QED
    BY <1>3, <2>2 DEF IdentityInv, FailureKeepsIdentity
<1>9. QED
  BY <1>5, <1>6, <1>7, <1>8 DEF IdentityInv

LEMMA EnteringKeepsIdentity ==
  ASSUME IdentityInv, SharingInv', NEW r \in Requests, NEW a \in {1, 2},
         stage[r] = (IF a = 1 THEN "first" ELSE "second"),
         Enter(<<r, a>>, KeyOf(r, a)), UNCHANGED handlerVars
  PROVE  IdentityInv'
<1> DEFINE w == <<r, a>>
           k == KeyOf(r, a)
<1>1. w \in Waiters /\ RequestOf(w) = r /\ w[2] = a
  BY AttemptsAreWaiters, HandlerAssumption
<1>2. phase[w] = "out" /\ Failure("capacity").target = NoTarget
      /\ Failure(TerminalError(r)).target = NoTarget
  BY DEF Enter, Failure
<1>3. \E p \in {"waiting", "left"} : phase' = [phase EXCEPT ![w] = p]
  BY DEF Enter, EnterTooLate, Refuse, StartCall, JoinCall, Leave
<1>4. \/ got' = got
      \/ got' = [got EXCEPT ![w] = Failure("capacity")]
      \/ got' = [got EXCEPT ![w] = Failure(TerminalError(r))]
  BY <1>1 DEF Enter, EnterTooLate, Refuse, StartCall, JoinCall, Leave
<1>5. result' = result /\ (key' = key \/ key' = [key EXCEPT ![w] = k])
  BY DEF Enter, EnterTooLate, Refuse, StartCall, JoinCall, Leave, callVars
<1>6. key[w] = NoCall \/ key[w] \notin ResolveKeys \/ result[w].target = NoTarget \/ key[w] = k
  BY <1>1, SharedResolutionAssumption DEF IdentityInv, SharingInv, KeysAreOwn, OwnKey
<1>7. \A c \in Waiters : key[c] \in ResolveKeys /\ result[c].target # NoTarget => key'[c] = key[c]
  BY <1>5, <1>6, SharedResolutionAssumption DEF IdentityInv, SharingInv, PoolInv, PoolTypeOK
<1> HIDE DEF w
<1>8. CASE got' = got \/ got' = [got EXCEPT ![w] = Failure("capacity")]
  BY <1>1, <1>2, <1>3, <1>5, <1>7, <1>8, AttemptKeepsIdentity
<1>9. CASE got' = [got EXCEPT ![w] = Failure(TerminalError(r))]
  BY <1>1, <1>2, <1>3, <1>5, <1>7, <1>9, AttemptKeepsIdentity
<1>10. QED
  BY <1>4, <1>8, <1>9

LEMMA LeavingKeepsIdentity ==
  ASSUME IdentityInv, SharingInv', NEW w \in Waiters, Receive(w) \/ GiveUp(w), UNCHANGED handlerVars
  PROVE  IdentityInv'
<1> DEFINE r == RequestOf(w)
<1>1. phase[w] = "waiting" /\ key' = key /\ result' = result
  BY DEF Receive, GiveUp, callVars, ReleaseNothing, ReleaseOne, ReleaseLast
<1>2. stage[r] = (IF w[2] = 1 THEN "first" ELSE "second")
  <2>1. stage[r] \in {"first", "second"} /\ r \in Requests
    BY <1>1, HeardIsOwn, WaitersAreAttempts
  <2>2. /\ stage[r] = "first" => phase[<<r, 2>>] = "out"
        /\ stage[r] = "second" => phase[<<r, 1>>] = "left"
    BY <2>1 DEF IdentityInv, AttemptsFit
  <2>3. w = <<r, 1>> \/ w = <<r, 2>>
    BY WaitersAreAttempts
  <2> HIDE DEF r
  <2>4. stage[r] = "first" => w = <<r, 1>>
    BY <1>1, <2>2, <2>3
  <2>5. stage[r] = "second" => w = <<r, 2>>
    BY <1>1, <2>2, <2>3
  <2>6. /\ w = <<r, 1>> => w[2] = 1
        /\ w = <<r, 2>> => w[2] = 2
    OBVIOUS
  <2>7. QED
    BY <2>1, <2>4, <2>5, <2>6
<1>3. \E p \in {"waiting", "left"} : phase' = [phase EXCEPT ![w] = p]
  BY DEF Receive, GiveUp, Leave
<1>4. CASE Receive(w)
  <2> DEFINE g == result[joined[w]]
  <2>1. got' = [got EXCEPT ![w] = g] /\ g.target \in {NoTarget, ProfileOf[selector[r]]}
    BY <1>1, <1>4, HeardIsOwn DEF Receive, Leave
  <2> HIDE DEF g
  <2>2. QED
    BY <1>1, <1>2, <1>3, <2>1, AttemptKeepsIdentity
<1>5. CASE GiveUp(w)
  <2> DEFINE g == Failure(TerminalError(r))
  <2>1. got' = [got EXCEPT ![w] = g] /\ g.target \in {NoTarget, ProfileOf[selector[r]]}
    BY <1>5 DEF GiveUp, Leave, Failure
  <2> HIDE DEF g
  <2>2. QED
    BY <1>1, <1>2, <1>3, <2>1, AttemptKeepsIdentity
<1>6. QED
  BY <1>4, <1>5

\* What retryResolution returns names the request's own profile, and none only
\* when neither attempt got to know it.
LEMMA OutcomeIsOwn ==
  ASSUME IdentityInv, NEW r \in Requests, phase[<<r, 2>>] # "waiting"
  PROVE  /\ Outcome(r).target \in {NoTarget, ProfileOf[selector[r]]}
         /\ Outcome(r).target \in Targets \cup {NoTarget}
         /\ Outcome(r).target = NoTarget => \A a \in Attempts : got[<<r, a>>].target = NoTarget
<1> DEFINE first == got[<<r, 1>>]
           again == got[<<r, 2>>]
<1>1. /\ <<r, 1>> \in Waiters /\ RequestOf(<<r, 1>>) = r
      /\ <<r, 2>> \in Waiters /\ RequestOf(<<r, 2>>) = r
  BY AttemptsAreWaiters, HandlerAssumption
<1>2. /\ first \in Results \cup {Pending} /\ again \in Results \cup {Pending}
      /\ phase[<<r, 2>>] \in {"out", "left"}
  BY <1>1 DEF IdentityInv, SharingInv, PoolInv, PoolTypeOK
<1>3. /\ first.target \in Targets \cup {NoTarget} /\ again.target \in Targets \cup {NoTarget}
      /\ first.target \in {NoTarget, ProfileOf[selector[r]]}
      /\ again.target \in {NoTarget, ProfileOf[selector[r]]}
  BY <1>1, <1>2 DEF Results, Pending, IdentityInv, TargetsAreOwn
<1>4. phase[<<r, 2>>] = "out" => again.target = NoTarget
  BY <1>1 DEF IdentityInv, TargetsAreOwn, Pending
<1>5. RetryOutcome(r).target = IF again.target = NoTarget THEN first.target ELSE again.target
  BY <1>2 DEF RetryOutcome, Results, Pending
<1>6. Attempts = {1, 2}
  BY HandlerAssumption
<1> HIDE DEF first, again
<1>7. CASE phase[<<r, 2>>] = "left"
  BY <1>3, <1>5, <1>6, <1>7 DEF Outcome, first, again
<1>8. CASE phase[<<r, 2>>] = "out"
  BY <1>3, <1>4, <1>6, <1>8 DEF Outcome, first, again
<1>9. QED
  BY <1>2, <1>7, <1>8

\* A request goes on to the next stage, and reports at most as it answers.
LEMMA MovingKeepsIdentity ==
  ASSUME IdentityInv, SharingInv', UNCHANGED poolVars, NEW r \in Requests, NEW s \in Stages,
         stage' = [stage EXCEPT ![r] = s], stage[r] # "answered",
         s # "idle",
         s \in {"first", "backoff"} => phase[<<r, 2>>] = "out",
         s \in {"backoff", "second", "checking"} => phase[<<r, 1>>] = "left",
         s \in {"checking", "answered"} => phase[<<r, 1>>] # "waiting" /\ phase[<<r, 2>>] # "waiting",
         \/ selector' = selector
         \/ stage[r] = "idle" /\ \E z \in Selectors : selector' = [selector EXCEPT ![r] = z],
         \/ reported' = reported
         \/ /\ reported' = [reported EXCEPT ![r] = Outcome(r).target]
            /\ s = "answered" /\ selector' = selector
  PROVE  IdentityInv'
<1>1. /\ phase' = phase /\ got' = got /\ result' = result /\ key' = key
      /\ stage \in [Requests -> Stages] /\ selector \in [Requests -> Selectors \cup {NoSelector}]
      /\ reported \in [Requests -> Targets \cup {NoTarget, Unreported}]
  BY DEF poolVars, IdentityInv, SharingInv, SelectorsKnown, ReportsAreLast
<1>2. \A q \in Requests : q # r => /\ stage'[q] = stage[q] /\ selector'[q] = selector[q]
                                   /\ reported'[q] = reported[q]
  BY <1>1
<1>3. stage'[r] = s
  BY <1>1
<1>4. reported[r] = Unreported
  BY DEF IdentityInv, ReportsAreLast
<1>5. AttemptsFit'
  BY <1>1, <1>2, <1>3 DEF IdentityInv, AttemptsFit
<1>6. stage[r] = "idle" => \A a \in Attempts : got[<<r, a>>] = Pending
  BY AttemptsAreWaiters, HandlerAssumption DEF IdentityInv, AttemptsFit, TargetsAreOwn
<1>7. TargetsAreOwn'
  <2> SUFFICES ASSUME NEW w \in Waiters
               PROVE  got[w].target \in {NoTarget, ProfileOf[selector'[RequestOf(w)]]}
    BY <1>1 DEF IdentityInv, TargetsAreOwn
  <2>1. CASE selector'[RequestOf(w)] = selector[RequestOf(w)]
    BY <2>1 DEF IdentityInv, TargetsAreOwn
  <2>2. CASE selector'[RequestOf(w)] # selector[RequestOf(w)]
    <3>1. RequestOf(w) = r /\ stage[r] = "idle"
      BY <1>2, <2>2, WaitersAreAttempts
    <3>2. got[w] = Pending
      BY <1>6, <3>1, WaitersAreAttempts, HandlerAssumption
    <3>3. QED
      BY <3>2 DEF Pending
  <2>3. QED
    BY <2>1, <2>2
<1>8. s = "answered" => /\ Outcome(r).target \in {NoTarget, ProfileOf[selector[r]]}
                        /\ Outcome(r).target \in Targets \cup {NoTarget}
                        /\ Outcome(r).target = NoTarget =>
                             \A a \in Attempts : got[<<r, a>>].target = NoTarget
  BY OutcomeIsOwn
<1>9. ReportsAreLast'
  <2>1. reported' \in [Requests -> Targets \cup {NoTarget, Unreported}]
    BY <1>1, <1>8
  <2>2. ASSUME NEW q \in Requests, reported'[q] # Unreported PROVE stage'[q] = "answered"
    BY <1>1, <1>2, <1>3, <1>4, <2>2 DEF IdentityInv, ReportsAreLast
  <2>3. QED
    BY <2>1, <2>2 DEF ReportsAreLast
<1>10. FailureKeepsIdentity'
  <2> SUFFICES ASSUME NEW q \in Requests, reported'[q] # Unreported
               PROVE  /\ reported'[q] \in {NoTarget, ProfileOf[selector'[q]]}
                      /\ reported'[q] = NoTarget => \A a \in Attempts : got[<<q, a>>].target = NoTarget
    BY <1>1 DEF FailureKeepsIdentity
  <2>1. CASE q # r
    BY <1>2, <2>1 DEF IdentityInv, FailureKeepsIdentity
  <2>2. CASE q = r
    BY <1>1, <1>4, <1>8, <2>2
  <2>3. QED
    BY <2>1, <2>2
<1>11. QED
  BY <1>5, <1>7, <1>9, <1>10 DEF IdentityInv

\* The steps that neither move a request nor answer an attempt.
LEMMA WorkKeepsIdentity ==
  ASSUME IdentityInv, SharingInv', UNCHANGED <<handlerVars, phase, got, key>>,
         \/ result' = result
         \/ \E c \in Waiters, a \in Answers :
              /\ key[c] \in ResolveKeys
              /\ a.target \in {NoTarget, ProfileOf[key[c].selector]}
              /\ result' = [result EXCEPT ![c] = a]
  PROVE  IdentityInv'
<1>1. AttemptsFit' /\ ReportsAreLast' /\ FailureKeepsIdentity'
  BY DEF IdentityInv, AttemptsFit, ReportsAreLast, FailureKeepsIdentity, handlerVars
<1>2. ASSUME NEW d \in Waiters, result'[d].target # NoTarget
      PROVE  key[d] \in ResolveKeys /\ result'[d].target = ProfileOf[key[d].selector]
  BY <1>2 DEF IdentityInv, TargetsAreOwn, SharingInv, PoolInv, PoolTypeOK
<1>3. TargetsAreOwn'
  BY <1>2 DEF IdentityInv, TargetsAreOwn, handlerVars
<1>4. QED
  BY <1>1, <1>3 DEF IdentityInv

LEMMA IdentityStep == IdentityInv /\ [Next]_vars => IdentityInv'
<1> SUFFICES ASSUME IdentityInv, [Next]_vars PROVE IdentityInv'
  OBVIOUS
<1>1. SharingInv'
  BY StepsOfThePool, PoolInvIsInductive, SelectorsKnownStep, KeysAreOwnStep
     DEF SharingInv, IdentityInv
<1>2. ASSUME NEW r \in Requests
      PROVE  /\ stage[r] \in Stages
             /\ phase[<<r, 1>>] \in {"out", "waiting", "left"}
             /\ phase[<<r, 2>>] \in {"out", "waiting", "left"}
             /\ stage[r] = "idle" => phase[<<r, 1>>] = "out"
             /\ stage[r] \in {"idle", "first", "backoff"} => phase[<<r, 2>>] = "out"
             /\ stage[r] \in {"backoff", "second", "checking"} => phase[<<r, 1>>] = "left"
             /\ stage[r] = "checking" => phase[<<r, 2>>] # "waiting"
  BY <1>2, AttemptsAreWaiters, HandlerAssumption
     DEF IdentityInv, AttemptsFit, SharingInv, SelectorsKnown, PoolInv, PoolTypeOK
<1>3. ASSUME NEW r \in Requests, RejectRequest(r) \/ AcceptRequest(r) PROVE IdentityInv'
  <2>1. PICK s \in {"first", "answered"} :
          /\ stage[r] = "idle" /\ stage' = [stage EXCEPT ![r] = s]
          /\ \/ selector' = selector
             \/ \E z \in Selectors : selector' = [selector EXCEPT ![r] = z]
          /\ UNCHANGED <<poolVars, reported>>
    BY <1>3 DEF RejectRequest, AcceptRequest
  <2>2. QED
    BY <1>1, <1>2, <2>1, MovingKeepsIdentity DEF Stages
<1>4. ASSUME NEW r \in Requests, StartBackoff(r) \/ StartRetry(r) PROVE IdentityInv'
  <2>1. PICK s \in {"backoff", "second"} :
          /\ stage[r] \in {"first", "backoff"} /\ stage' = [stage EXCEPT ![r] = s]
          /\ phase[<<r, 1>>] = "left"
          /\ UNCHANGED <<poolVars, reported, selector>>
    BY <1>2, <1>4 DEF StartBackoff, StartRetry
  <2>2. QED
    BY <1>1, <1>2, <2>1, MovingKeepsIdentity DEF Stages
<1>5. ASSUME NEW r \in Requests, Conclude(r) \/ HealthReturns(r) PROVE IdentityInv'
  <2>1. PICK s \in {"checking", "answered"} :
          /\ stage' = [stage EXCEPT ![r] = s]
          /\ UNCHANGED <<poolVars, selector>>
          /\ \/ reported' = reported
             \/ s = "answered" /\ reported' = [reported EXCEPT ![r] = Outcome(r).target]
    BY <1>5 DEF Conclude, HealthReturns, ConcludeDiscoveryFailed, ConcludeConfiguration,
                ConcludeNoClient, ConcludeResolved, Fail, Respond
  <2>2. /\ stage[r] # "answered" /\ phase[<<r, 1>>] = "left" /\ phase[<<r, 2>>] # "waiting"
    BY <1>2, <1>5 DEF Conclude, WithoutRetry, AfterRetry, HealthReturns
  <2>3. QED
    BY <1>1, <2>1, <2>2, MovingKeepsIdentity DEF Stages
<1>6. ASSUME NEW r \in Requests, ResolveFirst(r) \/ ResolveAgain(r) PROVE IdentityInv'
  BY <1>1, <1>6, EnteringKeepsIdentity DEF ResolveFirst, ResolveAgain
<1>7. ASSUME NEW r \in Requests, Answered(r) PROVE IdentityInv'
  BY <1>1, <1>7, AttemptsAreWaiters, LeavingKeepsIdentity DEF Answered
<1>8. ASSUME NEW r \in Requests, ContextEnds(r) PROVE IdentityInv'
  BY <1>1, <1>8, WorkKeepsIdentity DEF ContextEnds, PassDeadline, FireDeadline, CancelRequest, callVars
<1>9. ASSUME NEW c \in Waiters, Worker(c) PROVE IdentityInv'
  <2>1. CASE Publish(c) \/ WorkTimeout(c)
    BY <1>1, <1>9, <2>1, WorkKeepsIdentity DEF Worker, Publish, WorkTimeout
  <2>2. ASSUME NEW a \in Answers, ResolverReturns(c, a) PROVE IdentityInv'
    <3>1. key[c] \in ResolveKeys
      BY <2>2 DEF ResolverReturns, IdentityInv, SharingInv, PoolInv, CallsAreStarted
    <3>2. QED
      BY <1>1, <1>9, <2>2, <3>1, WorkKeepsIdentity DEF Worker, ResolverReturns, AnswersOf
  <2>3. QED
    BY <1>9, <2>1, <2>2 DEF Worker, WorkerStep
<1>10. CASE UNCHANGED vars
  BY <1>1, <1>10, WorkKeepsIdentity DEF vars, poolVars
<1>11. QED
  BY <1>3, <1>4, <1>5, <1>6, <1>7, <1>8, <1>9, <1>10 DEF Next, Handle

LEMMA IdentityInvHolds == Spec => []IdentityInv
<1>1. Init => IdentityInv
  <2> SUFFICES ASSUME Init PROVE IdentityInv
    OBVIOUS
  <2>1. SharingInv
    BY InitPoolInv DEF Init, PoolInit, SharingInv, SelectorsKnown, KeysAreOwn, Stages, Waiters,
                       RequestOf
  <2>2. AttemptsFit
    BY AttemptsAreWaiters, HandlerAssumption DEF Init, PoolInit, AttemptsFit
  <2>3. TargetsAreOwn
    BY DEF Init, PoolInit, TargetsAreOwn, Pending
  <2>4. ReportsAreLast /\ FailureKeepsIdentity
    BY DEF Init, ReportsAreLast, FailureKeepsIdentity
  <2>5. QED
    BY <2>1, <2>2, <2>3, <2>4 DEF IdentityInv
<1>2. QED
  BY <1>1, IdentityStep, PTL DEF Spec

\* A failure is counted for the profile of the request's own account and
\* server, whichever goroutine, leader or attempt supplied it, and without one
\* only when no attempt got to know it.
THEOREM FailuresKeepIdentity == Spec => []FailureKeepsIdentity
<1>1. IdentityInv => FailureKeepsIdentity
  BY DEF IdentityInv
<1>2. QED
  BY <1>1, IdentityInvHolds, PTL

----------------------------------------------------------------------------
(* Types, and what a late request is told *)

\* The tracker keeps a finite map, so the number of failing targets is a
\* number.
TrackerInv == TrackerTypeOK /\ IsFiniteSet(Recorded)

LEMMA ObserveKeepsTracker ==
  ASSUME TrackerInv, NEW t \in Targets \cup {NoTarget}, ObserveFailure(t)
  PROVE  TrackerInv'
<1> USE DEF TrackerInv, TrackerTypeOK, Recorded
<1>1. CASE Ignored(t)
  BY <1>1 DEF ObserveFailure
<1>2. CASE ~Ignored(t)
  <2> DEFINE failing == Kept \cup {t}
             at(u) == IF u = t THEN now ELSE failures[u]
  <2>1. IsFiniteSet(failing) /\ failing \subseteq Targets
    BY <1>2, FS_Subset, FS_AddElement DEF Kept, Ignored
  <2>2. Cardinality(failing) \in Nat
    BY <2>1, FS_CardinalityType
  <2>3. failures' = [u \in failing |-> at(u)] /\ now' = now
        /\ event' \in {Cardinality(failing), 0} /\ emitted' \in BOOLEAN
    BY <1>2 DEF ObserveFailure, EpisodeContinues
  <2>4. \A u \in failing : at(u) \in 0 .. now
    BY DEF Kept
  <2> HIDE DEF failing, at
  <2>5. DOMAIN failures' = failing /\ failures' \in [failing -> 0 .. now]
    BY <2>3, <2>4
  <2>6. QED
    BY <2>1, <2>2, <2>3, <2>5
<1>3. QED
  BY <1>1, <1>2

HandlerVarsOK ==
  /\ response \in [Requests -> Responses]
  /\ retries \in [Requests -> SUBSET {"retry", "failed"}]

HandlerInv == IdentityInv /\ TrackerInv /\ HandlerVarsOK

LEMMA HandlerVarsStep == HandlerInv /\ [Next]_vars => (TrackerInv /\ HandlerVarsOK)'
<1> SUFFICES ASSUME HandlerInv, [Next]_vars PROVE TrackerInv' /\ HandlerVarsOK'
  OBVIOUS
<1> USE DEF HandlerVarsOK
<1>1. HandlerVarsOK /\ TrackerInv
  BY DEF HandlerInv
<1>2. UNCHANGED trackerVars => TrackerInv'
  BY <1>1 DEF TrackerInv, TrackerTypeOK, Recorded, trackerVars
<1>3. ASSUME NEW r \in Requests, RejectRequest(r) \/ AcceptRequest(r) PROVE TrackerInv' /\ HandlerVarsOK'
  BY <1>1, <1>2, <1>3 DEF RejectRequest, AcceptRequest, Responses
<1>4. ASSUME NEW r \in Requests,
             ResolveFirst(r) \/ ResolveAgain(r) \/ Answered(r) \/ ContextEnds(r)
      PROVE  TrackerInv' /\ HandlerVarsOK'
  BY <1>1, <1>2, <1>4 DEF ResolveFirst, ResolveAgain, Answered, ContextEnds, handlerVars
<1>5. ASSUME NEW r \in Requests, StartBackoff(r) \/ StartRetry(r) PROVE TrackerInv' /\ HandlerVarsOK'
  BY <1>1, <1>2, <1>5 DEF StartBackoff, StartRetry
<1>6. ASSUME NEW r \in Requests, Conclude(r) \/ HealthReturns(r) PROVE TrackerInv' /\ HandlerVarsOK'
  <2>1. phase[<<r, 2>>] # "waiting"
    BY <1>6 DEF Conclude, WithoutRetry, AfterRetry, HealthReturns, HandlerInv, IdentityInv, AttemptsFit
  <2>2. Outcome(r).target \in Targets \cup {NoTarget}
    BY <2>1, OutcomeIsOwn DEF HandlerInv
  <2>3. TrackerInv'
    BY <1>1, <1>2, <1>6, <2>2, ObserveKeepsTracker
       DEF Conclude, HealthReturns, ConcludeDiscoveryFailed, ConcludeConfiguration,
           ConcludeNoClient, ConcludeResolved, Fail
  <2>4. response' \in [Requests -> Responses]
    BY <1>1, <1>6
       DEF Conclude, HealthReturns, ConcludeDiscoveryFailed, ConcludeConfiguration,
           ConcludeNoClient, ConcludeResolved, Fail, Respond, Responses
  <2>5. retries' \in [Requests -> SUBSET {"retry", "failed"}]
    BY <1>1, <1>6 DEF Conclude, HealthReturns
  <2>6. QED
    BY <2>3, <2>4, <2>5
<1>7. ASSUME NEW c \in Waiters, Worker(c) PROVE TrackerInv' /\ HandlerVarsOK'
  BY <1>1, <1>2, <1>7 DEF Worker, handlerVars
<1>8. CASE UNCHANGED vars
  BY <1>1, <1>2, <1>8 DEF vars, handlerVars
<1>9. QED
  BY <1>3, <1>4, <1>5, <1>6, <1>7, <1>8 DEF Next, Handle

LEMMA HandlerInvHolds == Spec => []HandlerInv
<1>1. Init => TrackerInv /\ HandlerVarsOK
  <2> SUFFICES ASSUME Init PROVE TrackerInv /\ HandlerVarsOK
    OBVIOUS
  <2>1. Recorded = {}
    BY DEF Init, TrackerInit, Recorded
  <2>2. TrackerInv
    BY <2>1, FS_EmptySet DEF Init, TrackerInit, TrackerInv, TrackerTypeOK
  <2>3. HandlerVarsOK
    BY DEF Init, HandlerVarsOK, Responses
  <2>4. QED
    BY <2>2, <2>3
<1>2. QED
  BY <1>1, IdentityInvHolds, HandlerVarsStep, PTL DEF HandlerInv, Spec

\* The handler's, the pool's and the tracker's state keep their types under
\* every interleaving: in particular no request is reported for a target that
\* is not a profile, and no slot is repaid that was not taken.
THEOREM HandlerTypes == Spec => []HandlerTypeOK
<1>1. HandlerInv => HandlerTypeOK
  BY DEF HandlerInv, IdentityInv, SharingInv, PoolInv, SelectorsKnown, ReportsAreLast, TrackerInv,
         HandlerVarsOK, HandlerTypeOK
<1>2. QED
  BY <1>1, HandlerInvHolds, PTL

\* Only Conclude takes a request out of its resolution, and a request that is
\* out of time is answered with the discovery failure, whatever was resolved.
THEOREM LateRequestsFailDiscovery == Spec => LateIsDiscovery
<1>1. ASSUME HandlerInv, [Next]_vars, NEW r \in Requests,
             InResolution(r), Terminal(r), ~InResolution(r)'
      PROVE  response'[r] = "503 discovery"
  <2> USE DEF InResolution
  <2>1. stage \in [Requests -> Stages] /\ response \in [Requests -> Responses]
    BY <1>1 DEF HandlerInv, HandlerVarsOK, IdentityInv, SharingInv, SelectorsKnown
  <2>2. Conclude(r)
    <3>1. ASSUME NEW q \in Requests,
                 RejectRequest(q) \/ AcceptRequest(q) \/ StartBackoff(q) \/ StartRetry(q)
          PROVE  FALSE
      BY <1>1, <2>1, <3>1 DEF RejectRequest, AcceptRequest, StartBackoff, StartRetry
    <3>2. ASSUME NEW q \in Requests,
                 ResolveFirst(q) \/ ResolveAgain(q) \/ Answered(q) \/ ContextEnds(q)
          PROVE  FALSE
      BY <1>1, <3>2 DEF ResolveFirst, ResolveAgain, Answered, ContextEnds, handlerVars
    <3>3. ASSUME NEW q \in Requests, HealthReturns(q) PROVE FALSE
      BY <1>1, <2>1, <3>3 DEF HealthReturns, Respond, Fail
    <3>4. ASSUME NEW q \in Requests, Conclude(q) PROVE q = r
      BY <1>1, <2>1, <3>4 DEF Conclude, ConcludeDiscoveryFailed, ConcludeConfiguration,
                              ConcludeNoClient, ConcludeResolved, Respond, Fail
    <3>5. ASSUME NEW c \in Waiters, Worker(c) PROVE FALSE
      BY <1>1, <3>5 DEF Worker, handlerVars
    <3>6. ~UNCHANGED vars
      BY <1>1 DEF vars, handlerVars
    <3>7. QED
      BY <1>1, <3>1, <3>2, <3>3, <3>4, <3>5, <3>6 DEF Next, Handle
  <2>3. DiscoveryFailed(r)
    BY <1>1 DEF DiscoveryFailed
  <2>4. ConcludeDiscoveryFailed(r)
    BY <2>2, <2>3 DEF Conclude, ConcludeConfiguration, ConcludeNoClient, ConcludeResolved
  <2>5. QED
    BY <2>1, <2>4 DEF ConcludeDiscoveryFailed, Fail, Respond
<1>2. HandlerInv /\ [Next]_vars =>
        [\A r \in Requests : InResolution(r) /\ Terminal(r) /\ ~InResolution(r)'
           => response'[r] = "503 discovery"]_vars
  BY <1>1
<1>3. QED
  BY <1>2, HandlerInvHolds, PTL DEF Spec, LateIsDiscovery

----------------------------------------------------------------------------
(* The contract's safety *)

\* The contract without its fairness: what the monitor is promised, step by
\* step.
ContractSafety == Contract!ContractInit /\ [][Contract!ContractNext]_(Contract!contractVars)

Status == [r \in Requests |-> IF InResolution(r) THEN "resolving" ELSE stage[r]]
Verdict == [r \in Requests |-> VerdictOf(response[r])]

\* The contract's actions, in these terms.
LEMMA ContractInTheseTerms ==
  ASSUME NEW r \in Requests
  PROVE  /\ (Status[r] = "idle" /\ Status' = [Status EXCEPT ![r] = "resolving"] /\ Verdict' = Verdict)
              => Contract!Arrive(r)
         /\ (/\ Status[r] = "idle" /\ Status' = [Status EXCEPT ![r] = "answered"]
             /\ Verdict' = [Verdict EXCEPT ![r] = "rejected"])
              => Contract!Arrive(r)
         /\ (/\ Status[r] = "resolving" /\ Status' = [Status EXCEPT ![r] = "checking"]
             /\ Verdict' = Verdict)
              => Contract!Resolve(r)
         /\ \A v \in {"undiscovered", "misconfigured"} :
              (/\ Status[r] = "resolving" /\ Status' = [Status EXCEPT ![r] = "answered"]
               /\ Verdict' = [Verdict EXCEPT ![r] = v])
                => Contract!Resolve(r)
         /\ \A v \in {"healthy", "unhealthy"} :
              (/\ Status[r] = "checking" /\ Status' = [Status EXCEPT ![r] = "answered"]
               /\ Verdict' = [Verdict EXCEPT ![r] = v])
                => Contract!Check(r)
         /\ Status' = Status /\ Verdict' = Verdict => UNCHANGED Contract!contractVars
BY DEF Status, Verdict, Contract!Arrive, Contract!Resolve, Contract!Check, Contract!Answer,
       Contract!contractVars

LEMMA VerdictsOfResponses ==
  /\ VerdictOf("404 not_found") = "rejected" /\ VerdictOf("405 method_not_allowed") = "rejected"
  /\ VerdictOf("503 discovery") = "undiscovered"
  /\ VerdictOf("404 configuration") = "misconfigured"
  /\ VerdictOf("500 configuration") = "misconfigured"
  /\ VerdictOf("200 ok") = "healthy"
  /\ VerdictOf("503 health") = "unhealthy"
  /\ VerdictOf("none") = "none"
BY DEF VerdictOf

\* A step that moves one request, and answers it or not.
LEMMA OneRequestMoves ==
  ASSUME HandlerInv, NEW r \in Requests, NEW s \in Stages, stage' = [stage EXCEPT ![r] = s]
  PROVE  /\ Status[r] = IF stage[r] \in {"first", "backoff", "second"} THEN "resolving" ELSE stage[r]
         /\ Status' = [Status EXCEPT ![r] = IF s \in {"first", "backoff", "second"}
                                            THEN "resolving" ELSE s]
         /\ response' = response => Verdict' = Verdict
         /\ \A a \in Responses : response' = [response EXCEPT ![r] = a]
                                   => Verdict' = [Verdict EXCEPT ![r] = VerdictOf(a)]
<1>1. stage \in [Requests -> Stages] /\ response \in [Requests -> Responses]
  BY DEF HandlerInv, HandlerVarsOK, IdentityInv, SharingInv, SelectorsKnown
<1>2. \A q \in Requests : stage'[q] = IF q = r THEN s ELSE stage[q]
  BY <1>1
<1>3. Status' = [q \in Requests |-> IF q = r THEN IF s \in {"first", "backoff", "second"}
                                                 THEN "resolving" ELSE s
                                    ELSE Status[q]]
  BY <1>2 DEF Status, InResolution
<1>4. DOMAIN Status = Requests /\ Status = [q \in Requests |-> Status[q]]
  BY DEF Status
<1>5. Status' = [Status EXCEPT ![r] = IF s \in {"first", "backoff", "second"}
                                      THEN "resolving" ELSE s]
  BY <1>3, <1>4
<1>6. ASSUME NEW a \in Responses, response' = [response EXCEPT ![r] = a]
      PROVE  Verdict' = [Verdict EXCEPT ![r] = VerdictOf(a)]
  <2>1. \A q \in Requests : response'[q] = IF q = r THEN a ELSE response[q]
    BY <1>1, <1>6
  <2>2. Verdict' = [q \in Requests |-> IF q = r THEN VerdictOf(a) ELSE Verdict[q]]
    BY <2>1 DEF Verdict
  <2>3. DOMAIN Verdict = Requests
    BY DEF Verdict
  <2>4. QED
    BY <2>2, <2>3
<1>7. QED
  BY <1>5, <1>6 DEF Status, Verdict, InResolution

LEMMA ContractStep ==
  ASSUME HandlerInv, [Next]_vars
  PROVE  [Contract!ContractNext]_(Contract!contractVars)
<1> USE DEF Stages, Responses
<1>1. ASSUME NEW r \in Requests, RejectRequest(r) \/ AcceptRequest(r) PROVE Contract!Arrive(r)
  <2>1. CASE RejectRequest(r)
    <3>1. PICK a \in {"404 not_found", "405 method_not_allowed"} : response' = [response EXCEPT ![r] = a]
      BY <2>1 DEF RejectRequest
    <3>2. Status[r] = "idle" /\ Status' = [Status EXCEPT ![r] = "answered"]
          /\ Verdict' = [Verdict EXCEPT ![r] = VerdictOf(a)]
      BY <2>1, <3>1, OneRequestMoves DEF RejectRequest
    <3>3. QED
      BY <3>2, VerdictsOfResponses, ContractInTheseTerms
  <2>2. CASE AcceptRequest(r)
    <3>1. Status[r] = "idle" /\ Status' = [Status EXCEPT ![r] = "resolving"] /\ Verdict' = Verdict
      BY <2>2, OneRequestMoves DEF AcceptRequest
    <3>2. QED
      BY <3>1, ContractInTheseTerms
  <2>3. QED
    BY <1>1, <2>1, <2>2
<1>2. ASSUME NEW r \in Requests, StartBackoff(r) \/ StartRetry(r)
      PROVE  UNCHANGED Contract!contractVars
  <2>1. PICK s \in {"backoff", "second"} :
          /\ stage[r] \in {"first", "backoff"} /\ stage' = [stage EXCEPT ![r] = s]
          /\ response' = response
    BY <1>2 DEF StartBackoff, StartRetry
  <2>2. Status[r] = "resolving" /\ Status' = [Status EXCEPT ![r] = "resolving"] /\ Verdict' = Verdict
    BY <2>1, OneRequestMoves
  <2>3. Status' = Status
    BY <2>2 DEF Status
  <2>4. QED
    BY <2>2, <2>3, ContractInTheseTerms
<1>3. ASSUME NEW r \in Requests, Conclude(r) PROVE Contract!Resolve(r)
  <2>1. stage[r] \in {"first", "backoff", "second"}
    BY <1>3 DEF Conclude, WithoutRetry, AfterRetry
  <2>2. CASE \/ ConcludeDiscoveryFailed(r) \/ ConcludeConfiguration(r) \/ ConcludeNoClient(r)
    <3>1. PICK a \in {"503 discovery", "404 configuration", "500 configuration"} : Respond(r, a)
      BY <2>2 DEF ConcludeDiscoveryFailed, ConcludeConfiguration, ConcludeNoClient, Fail
    <3>2. Status[r] = "resolving" /\ Status' = [Status EXCEPT ![r] = "answered"]
          /\ Verdict' = [Verdict EXCEPT ![r] = VerdictOf(a)]
      BY <2>1, <3>1, OneRequestMoves DEF Respond
    <3>3. QED
      BY <3>2, VerdictsOfResponses, ContractInTheseTerms
  <2>3. CASE ConcludeResolved(r)
    BY <2>1, <2>3, OneRequestMoves, ContractInTheseTerms DEF ConcludeResolved
  <2>4. QED
    BY <1>3, <2>2, <2>3 DEF Conclude
<1>4. ASSUME NEW r \in Requests, HealthReturns(r) PROVE Contract!Check(r)
  <2>1. PICK a \in {"200 ok", "503 health"} : Respond(r, a)
    BY <1>4 DEF HealthReturns, Fail
  <2>2. Status[r] = "checking" /\ Status' = [Status EXCEPT ![r] = "answered"]
        /\ Verdict' = [Verdict EXCEPT ![r] = VerdictOf(a)]
    BY <1>4, <2>1, OneRequestMoves DEF Respond, HealthReturns
  <2>3. QED
    BY <2>2, VerdictsOfResponses, ContractInTheseTerms
<1>5. UNCHANGED <<stage, response>> => UNCHANGED Contract!contractVars
  BY DEF Contract!contractVars, InResolution
<1>6. ASSUME NEW r \in Requests,
             ResolveFirst(r) \/ ResolveAgain(r) \/ Answered(r) \/ ContextEnds(r)
      PROVE  UNCHANGED Contract!contractVars
  BY <1>5, <1>6 DEF ResolveFirst, ResolveAgain, Answered, ContextEnds, handlerVars
<1>7. ASSUME NEW c \in Waiters, Worker(c) PROVE UNCHANGED Contract!contractVars
  BY <1>5, <1>7 DEF Worker, handlerVars
<1>8. UNCHANGED vars => UNCHANGED Contract!contractVars
  BY <1>5 DEF vars, handlerVars
<1>9. CASE UNCHANGED vars
  BY <1>8, <1>9
<1>10. ASSUME NEW r \in Requests,
              RejectRequest(r) \/ AcceptRequest(r) \/ Handle(r) \/ ContextEnds(r)
       PROVE  Contract!ContractNext \/ UNCHANGED Contract!contractVars
  BY <1>1, <1>2, <1>3, <1>4, <1>6, <1>10 DEF Handle, Contract!ContractNext
<1>11. QED
  BY <1>7, <1>9, <1>10 DEF Next

\* Sharing, retries, expiries and a full pool are invisible to a request's
\* client: the handler starts as the contract does, and each of its steps is
\* one of the contract for one request, or changes nothing the contract speaks
\* of.
THEOREM HandlerImplementsContractSafety == Spec => ContractSafety
<1>1. Init => Contract!ContractInit
  BY VerdictsOfResponses DEF Init, Contract!ContractInit, InResolution
<1>2. HandlerInv /\ [Next]_vars => [Contract!ContractNext]_(Contract!contractVars)
  BY ContractStep
<1>3. QED
  BY <1>1, <1>2, HandlerInvHolds, PTL DEF Spec, ContractSafety
=============================================================================
