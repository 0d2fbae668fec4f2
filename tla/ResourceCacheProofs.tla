------------------------ MODULE ResourceCacheProofs ------------------------
(***************************************************************************)
(* The safety of the discovery snapshot cache, for any callers, any keys   *)
(* and any TTL.                                                            *)
(***************************************************************************)
EXTENDS ResourceCache, TLAPS

LEMMA InitCacheInv == CacheInit => CacheInv
<1> SUFFICES ASSUME CacheInit PROVE CacheInv
  OBVIOUS
<1> USE DEF CacheInit
<1>1. NoEntry \in Entries
  BY ResourceCacheAssumption DEF NoEntry, Entries, Ages, MaxAge
<1>2. CacheTypeOK
  BY <1>1 DEF CacheTypeOK, Refreshes, Calls
<1>3. CallsAreMatched /\ RegisteredIsRunning
  BY DEF CallsAreMatched, RegisteredIsRunning
<1>4. OneRefreshPerKey
  BY ResourceCacheAssumption DEF OneRefreshPerKey
<1>5. NumbersAreOrdered
  BY DEF NumbersAreOrdered, NoEntry, Present
<1>6. QED
  BY <1>2, <1>3, <1>4, <1>5 DEF CacheInv

----------------------------------------------------------------------------
(* The critical section of resources *)

LEMMA CacheAnswerStep ==
  ASSUME CacheInv, NEW c \in Callers, NEW k \in Keys, NEW force \in BOOLEAN,
         Resources(c, k, force), AnswerFromCache(c, k, force)
  PROVE  CacheInv'
<1> USE DEF CacheInv, Resources, AnswerFromCache
<1>1. CacheTypeOK'
  BY DEF CacheTypeOK, Calls, Entries, NumbersAreOrdered
<1>2. CallsAreMatched'
  BY DEF CallsAreMatched, CacheTypeOK
<1>3. RegisteredIsRunning' /\ OneRefreshPerKey' /\ NumbersAreOrdered'
  BY DEF RegisteredIsRunning, OneRefreshPerKey, NumbersAreOrdered
<1>4. QED
  BY <1>1, <1>2, <1>3

LEMMA JoinStep ==
  ASSUME CacheInv, NEW c \in Callers, NEW k \in Keys, NEW force \in BOOLEAN,
         Resources(c, k, force), JoinRefresh(c, k, force)
  PROVE  CacheInv'
<1> USE DEF CacheInv, Resources, JoinRefresh
<1>1. refreshes[k] \in Callers
  BY DEF CacheTypeOK, Joins
<1>2. CacheTypeOK'
  BY <1>1, ResourceCacheAssumption DEF CacheTypeOK, Calls
<1>3. refresh[refreshes[k]].number > lastFinished[k] /\ refresh[refreshes[k]].state = "running"
  BY <1>1 DEF RegisteredIsRunning, NumbersAreOrdered, CacheTypeOK, Joins
<1>4. CallsAreMatched'
  BY <1>1, <1>3 DEF CallsAreMatched, CacheTypeOK
<1>5. RegisteredIsRunning' /\ OneRefreshPerKey' /\ NumbersAreOrdered'
  BY DEF RegisteredIsRunning, OneRefreshPerKey, NumbersAreOrdered
<1>6. QED
  BY <1>2, <1>4, <1>5

LEMMA StartStep ==
  ASSUME CacheInv, NEW c \in Callers, NEW k \in Keys, NEW force \in BOOLEAN,
         Resources(c, k, force), StartRefresh(c, k, force)
  PROVE  CacheInv'
<1> USE DEF CacheInv, Resources, StartRefresh
<1>1. refreshes[k] = NoRefresh /\ refresh[c].state = "none"
  BY DEF Joins, CallsAreMatched
<1>2. started' \in Nat /\ started' = started + 1
  BY DEF CacheTypeOK
<1>3. refresh' \in [Callers -> Refreshes]
  BY <1>2 DEF CacheTypeOK, Refreshes, Entries
<1>4. CacheTypeOK'
  BY <1>2, <1>3, ResourceCacheAssumption DEF CacheTypeOK, Calls
<1>5. lastFinished[k] <= started /\ lastFinished[k] \in Nat
  BY DEF CacheTypeOK
<1>6. CallsAreMatched'
  <2>1. ASSUME NEW d \in Callers, d # c, pc[d] = "waiting"
        PROVE  awaits[d] # c
    BY <1>1, <2>1 DEF CallsAreMatched
  <2>2. QED
    BY <1>2, <1>5, <2>1 DEF CallsAreMatched, CacheTypeOK
<1>7. \A j \in Keys : refreshes[j] # c
  BY <1>1, ResourceCacheAssumption DEF RegisteredIsRunning
<1>8. RegisteredIsRunning'
  BY <1>7 DEF RegisteredIsRunning, CacheTypeOK
<1>9. OneRefreshPerKey'
  BY <1>1, <1>7, ResourceCacheAssumption DEF OneRefreshPerKey, CacheTypeOK
<1>10. NumbersAreOrdered'
  <2>1. entries[k].resources \in Nat /\ entries[k].resources <= lastFinished[k]
        /\ (entries[k].resources # 0 => entries[k].resources > lastFailure[k])
    BY DEF NumbersAreOrdered, CacheTypeOK, Entries, Present
  <2>2. ASSUME NEW r \in Callers, refresh'[r].state = "running"
        PROVE  /\ lastFinished[refresh'[r].key] < refresh'[r].number
               /\ refresh'[r].prior <= lastFinished[refresh'[r].key]
               /\ refresh'[r].prior # 0 => refresh'[r].prior > lastFailure[refresh'[r].key]
    <3>1. CASE r = c
      BY <1>2, <1>5, <2>1, <3>1 DEF CacheTypeOK
    <3>2. CASE r # c
      BY <1>2, <2>2, <3>2 DEF NumbersAreOrdered, CacheTypeOK, Refreshes
    <3>3. QED
      BY <3>1, <3>2
  <2>3. \A r \in Callers : refresh'[r].number <= started'
    BY <1>2 DEF NumbersAreOrdered, CacheTypeOK, Refreshes
  <2>4. QED
    BY <2>2, <2>3 DEF NumbersAreOrdered, CacheTypeOK
<1>11. QED
  BY <1>4, <1>6, <1>8, <1>9, <1>10

LEMMA ResourcesStep ==
  ASSUME CacheInv, NEW c \in Callers, NEW k \in Keys, NEW force \in BOOLEAN,
         Resources(c, k, force)
  PROVE  CacheInv'
BY CacheAnswerStep, JoinStep, StartStep DEF Resources

----------------------------------------------------------------------------
(* Waiting, and the end of a refresh *)

LEMMA ReceiveOrLeaveStep ==
  ASSUME CacheInv, NEW c \in Callers, Receive(c) \/ Leave(c)
  PROVE  CacheInv'
<1> USE DEF CacheInv, Receive, Leave
<1>1. CacheTypeOK'
  <2>1. CASE Leave(c)
    BY <2>1 DEF CacheTypeOK
  <2>2. CASE Receive(c)
    <3>1. awaits[c] \in Callers
      BY <2>2 DEF CacheTypeOK
    <3>2. refresh[awaits[c]].number \in 0 .. started
      BY <3>1 DEF CacheTypeOK, Refreshes, NumbersAreOrdered
    <3>3. answer' \in [Callers -> 0 .. started]
      BY <2>2, <3>2 DEF CacheTypeOK
    <3>4. QED
      BY <2>2, <3>3 DEF CacheTypeOK
  <2>3. QED
    BY <2>1, <2>2
<1>2. CallsAreMatched'
  BY DEF CallsAreMatched, CacheTypeOK
<1>3. RegisteredIsRunning' /\ OneRefreshPerKey' /\ NumbersAreOrdered'
  BY DEF RegisteredIsRunning, OneRefreshPerKey, NumbersAreOrdered
<1>4. QED
  BY <1>1, <1>2, <1>3

\* A successful refresh.
LEMMA SucceedStep ==
  ASSUME CacheInv, NEW r \in Callers, RefreshSucceeds(r)
  PROVE  CacheInv'
<1> DEFINE k == refresh[r].key
           n == refresh[r].number
<1> USE DEF CacheInv, RefreshSucceeds
<1>1. k \in Keys /\ n \in Nat /\ refresh[r].prior \in Nat /\ n <= started
  BY DEF CacheTypeOK, Refreshes, NumbersAreOrdered
<1>2. NewEntry(r) \in Entries
  BY <1>1, ResourceCacheAssumption DEF NewEntry, Entries, Ages, MaxAge
<1>3. CacheTypeOK'
  BY <1>1, <1>2 DEF CacheTypeOK, Refreshes
<1>4. CallsAreMatched'
  BY DEF CallsAreMatched, CacheTypeOK
<1>5. refreshes[k] = r /\ \A j \in Keys : refreshes[j] = r => j = k
  BY <1>1, ResourceCacheAssumption DEF OneRefreshPerKey, RegisteredIsRunning
<1>6. RegisteredIsRunning'
  BY <1>1, <1>5 DEF RegisteredIsRunning, CacheTypeOK
<1>7. OneRefreshPerKey'
  BY <1>1, <1>5, ResourceCacheAssumption DEF OneRefreshPerKey, CacheTypeOK
<1>8. NumbersAreOrdered'
  <2>1. /\ lastFinished[k] < n /\ refresh[r].prior <= lastFinished[k]
        /\ refresh[r].prior # 0 => refresh[r].prior > lastFailure[k]
        /\ lastFailure[k] <= lastFinished[k]
        /\ lastFinished[k] \in Nat /\ lastFailure[k] \in Nat
    BY <1>1 DEF NumbersAreOrdered, CacheTypeOK
  <2>2. ASSUME NEW j \in Keys
        PROVE  /\ lastFailure[j] <= lastFinished'[j]
               /\ entries'[j].resources <= lastFinished'[j]
               /\ Present(entries'[j]) => entries'[j].resources > lastFailure[j]
               /\ entries'[j].previous # 0 => entries'[j].previous > lastFailure[j]
               /\ Present(entries'[j]) => entries'[j].previous < entries'[j].resources
    <3>1. CASE j = k
      BY <1>1, <2>1, <3>1 DEF NewEntry, CacheTypeOK, Present
    <3>2. CASE j # k
      BY <3>2 DEF NumbersAreOrdered, CacheTypeOK, Present
    <3>3. QED
      BY <3>1, <3>2
  <2>3. ASSUME NEW q \in Callers, refresh'[q].state = "running"
        PROVE  q # r /\ refresh[q].state = "running" /\ refresh[q].key # k
    <3>1. q # r /\ refresh[q].state = "running"
      BY <2>3 DEF CacheTypeOK
    <3>2. QED
      BY <1>5, <3>1 DEF OneRefreshPerKey
  <2>4. \A q \in Callers : q # r => refresh'[q] = refresh[q]
    BY DEF CacheTypeOK
  <2>5. \A q \in Callers : refresh'[q].number = refresh[q].number
    BY DEF CacheTypeOK, Refreshes
  <2>6. QED
    BY <2>2, <2>3, <2>4, <2>5 DEF NumbersAreOrdered, Present, CacheTypeOK
<1>9. QED
  BY <1>3, <1>4, <1>6, <1>7, <1>8

\* A failed one: the entry is gone, and nothing older is left of it.
LEMMA FailStep ==
  ASSUME CacheInv, NEW r \in Callers, RefreshFails(r)
  PROVE  CacheInv'
<1> DEFINE k == refresh[r].key
           n == refresh[r].number
<1> USE DEF CacheInv, RefreshFails, StateAfterFailure, EntryAfterFailure
<1>1. k \in Keys /\ n \in Nat /\ n <= started
  BY DEF CacheTypeOK, Refreshes, NumbersAreOrdered
<1>2. NoEntry \in Entries /\ NoEntry.resources = 0 /\ NoEntry.previous = 0
  BY ResourceCacheAssumption DEF NoEntry, Entries, Ages, MaxAge
<1>3. CacheTypeOK'
  BY <1>1, <1>2 DEF CacheTypeOK, Refreshes
<1>4. CallsAreMatched'
  BY DEF CallsAreMatched, CacheTypeOK
<1>5. refreshes[k] = r /\ \A j \in Keys : refreshes[j] = r => j = k
  BY <1>1, ResourceCacheAssumption DEF OneRefreshPerKey, RegisteredIsRunning
<1>6. RegisteredIsRunning'
  BY <1>1, <1>5 DEF RegisteredIsRunning, CacheTypeOK
<1>7. OneRefreshPerKey'
  BY <1>1, <1>5, ResourceCacheAssumption DEF OneRefreshPerKey, CacheTypeOK
<1>8. NumbersAreOrdered'
  <2>1. ASSUME NEW j \in Keys
        PROVE  /\ lastFailure'[j] <= lastFinished'[j]
               /\ entries'[j].resources <= lastFinished'[j]
               /\ Present(entries'[j]) => entries'[j].resources > lastFailure'[j]
               /\ entries'[j].previous # 0 => entries'[j].previous > lastFailure'[j]
               /\ Present(entries'[j]) => entries'[j].previous < entries'[j].resources
    <3>1. CASE j = k
      BY <1>1, <1>2, <3>1 DEF CacheTypeOK, Present
    <3>2. CASE j # k
      BY <3>2 DEF NumbersAreOrdered, CacheTypeOK, Present
    <3>3. QED
      BY <3>1, <3>2
  <2>2. ASSUME NEW q \in Callers, refresh'[q].state = "running"
        PROVE  q # r /\ refresh[q].state = "running" /\ refresh[q].key # k
    <3>1. q # r /\ refresh[q].state = "running"
      BY <2>2 DEF CacheTypeOK
    <3>2. QED
      BY <1>5, <3>1 DEF OneRefreshPerKey
  <2>3. \A q \in Callers : q # r => refresh'[q] = refresh[q]
    BY DEF CacheTypeOK
  <2>4. \A q \in Callers : refresh'[q].number = refresh[q].number
    BY DEF CacheTypeOK, Refreshes
  <2>5. QED
    BY <2>1, <2>2, <2>3, <2>4 DEF NumbersAreOrdered, Present, CacheTypeOK
<1>9. QED
  BY <1>3, <1>4, <1>6, <1>7, <1>8

\* Dropping entries and letting them age leaves the order of the numbers alone.
LEMMA EntriesStep ==
  ASSUME CacheInv, Invalidate \/ Tick
  PROVE  CacheInv'
<1> USE DEF CacheInv
<1>1. NoEntry \in Entries /\ NoEntry.resources = 0 /\ NoEntry.previous = 0
  BY ResourceCacheAssumption DEF NoEntry, Entries, Ages, MaxAge
<1>2. UNCHANGED <<started, lastFinished, lastFailure, refreshes, refresh, call, pc, awaits, answer>>
  BY DEF Invalidate, Tick
<1>3. ASSUME NEW k \in Keys
      PROVE  /\ entries'[k] \in Entries
             /\ \/ entries'[k] = NoEntry
                \/ /\ entries'[k].resources = entries[k].resources
                   /\ entries'[k].previous = entries[k].previous
  <2>1. CASE Invalidate
    BY <1>1, <2>1 DEF Invalidate
  <2>2. CASE Tick
    <3>1. \A a \in Ages : Older(a) \in Ages
      BY ResourceCacheAssumption DEF Older, Ages, MaxAge
    <3>2. QED
      BY <1>1, <2>2, <3>1 DEF Tick, CacheTypeOK, Entries
  <2>3. QED
    BY <2>1, <2>2
<1>4. entries' \in [Keys -> Entries]
  <2>1. entries' = [k \in Keys |-> entries'[k]]
    BY DEF Invalidate, Tick
  <2>2. QED
    BY <1>3, <2>1
<1>5. CacheTypeOK'
  BY <1>2, <1>4 DEF CacheTypeOK
<1>6. CallsAreMatched' /\ RegisteredIsRunning' /\ OneRefreshPerKey'
  BY <1>2 DEF CallsAreMatched, RegisteredIsRunning, OneRefreshPerKey
<1>7. NumbersAreOrdered'
  BY <1>1, <1>2, <1>3 DEF NumbersAreOrdered, Present, CacheTypeOK
<1>8. QED
  BY <1>5, <1>6, <1>7

----------------------------------------------------------------------------

LEMMA CacheInvIsInductive == CacheInv /\ [CacheNext]_cacheVars => CacheInv'
<1> SUFFICES ASSUME CacheInv, [CacheNext]_cacheVars PROVE CacheInv'
  OBVIOUS
<1>1. CASE UNCHANGED cacheVars
  BY <1>1 DEF CacheInv, cacheVars, CacheTypeOK, CallsAreMatched, RegisteredIsRunning,
              OneRefreshPerKey, NumbersAreOrdered
<1>2. QED
  BY <1>1, ResourcesStep, ReceiveOrLeaveStep, SucceedStep, FailStep, EntriesStep DEF CacheNext

LEMMA CacheInvHolds == CacheSpec => []CacheInv
<1>1. QED
  BY InitCacheInv, CacheInvIsInductive, PTL DEF CacheSpec

\* However calls, forced calls, failures and invalidations interleave, a key
\* has at most one refresh in flight, the registered one.
THEOREM RefreshesAreSerialized == CacheSpec => []OneRefreshPerKey
<1>1. CacheInv => OneRefreshPerKey
  BY DEF CacheInv
<1>2. QED
  BY <1>1, CacheInvHolds, PTL

\* A failed refresh is the end of every snapshot requested before it.
THEOREM FailureErases == CacheSpec => []NothingOutlivesAFailure
<1>1. CacheInv => NothingOutlivesAFailure
  BY DEF CacheInv, NumbersAreOrdered, NothingOutlivesAFailure, PreviousResources
<1>2. QED
  BY <1>1, CacheInvHolds, PTL

\* The cache never goes back to a snapshot requested earlier.
THEOREM CacheAdvances == CacheSpec => SnapshotsAdvance
<1> DEFINE Advance == \A k \in Keys : Present(entries'[k]) =>
             /\ entries'[k].resources >= entries[k].resources
             /\ entries'[k].previous < entries'[k].resources
<1>1. CacheInv /\ CacheInv' /\ [CacheNext]_cacheVars => [Advance]_cacheVars
  <2> SUFFICES ASSUME CacheInv, CacheInv', CacheNext, NEW k \in Keys, Present(entries'[k])
               PROVE  /\ entries'[k].resources >= entries[k].resources
                      /\ entries'[k].previous < entries'[k].resources
    OBVIOUS
  <2>1. entries'[k].previous < entries'[k].resources
    BY DEF CacheInv, NumbersAreOrdered
  <2>2. entries[k] \in Entries /\ lastFinished[k] \in Nat
    BY DEF CacheInv, CacheTypeOK
  <2>3. ASSUME NEW c \in Callers, NEW j \in Keys, NEW force \in BOOLEAN, Resources(c, j, force)
        PROVE  entries' = entries
    BY <2>3 DEF Resources
  <2>4. ASSUME NEW c \in Callers, Receive(c) \/ Leave(c)
        PROVE  entries' = entries
    BY <2>4 DEF Receive, Leave
  <2>5. ASSUME NEW r \in Callers, RefreshSucceeds(r)
        PROVE  entries'[k].resources >= entries[k].resources
    <3>1. CASE refresh[r].key = k
      <4>1. entries[k].resources <= lastFinished[k] /\ lastFinished[k] < refresh[r].number
        BY <2>5, <3>1 DEF CacheInv, NumbersAreOrdered, RefreshSucceeds
      <4>2. refresh[r].number \in Nat
        BY DEF CacheInv, CacheTypeOK, Refreshes
      <4>3. entries'[k].resources = refresh[r].number
        BY <2>5, <3>1 DEF CacheInv, CacheTypeOK, RefreshSucceeds, NewEntry
      <4>4. QED
        BY <2>2, <4>1, <4>2, <4>3 DEF Entries
    <3>2. CASE refresh[r].key # k
      BY <2>2, <2>5, <3>2 DEF CacheInv, CacheTypeOK, RefreshSucceeds, Entries
    <3>3. QED
      BY <3>1, <3>2
  <2>6. ASSUME NEW r \in Callers, RefreshFails(r)
        PROVE  entries'[k].resources >= entries[k].resources
    <3>1. refresh[r].key # k
      BY <2>6 DEF CacheInv, CacheTypeOK, RefreshFails, EntryAfterFailure, NoEntry, Present
    <3>2. QED
      BY <2>2, <2>6, <3>1 DEF CacheInv, CacheTypeOK, RefreshFails, Entries
  <2>7. ~Invalidate
    BY DEF Invalidate, NoEntry, Present
  <2>8. Tick => entries'[k].resources >= entries[k].resources
    <3>1. \/ entries'[k] = NoEntry
          \/ entries'[k].resources = entries[k].resources
          \/ ~Tick
      BY <2>2 DEF Tick, Entries
    <3>2. QED
      BY <2>2, <3>1 DEF NoEntry, Present, Entries
  <2>9. QED
    BY <2>1, <2>2, <2>3, <2>4, <2>5, <2>6, <2>7, <2>8 DEF CacheNext, Entries
<1>2. QED
  BY <1>1, CacheInvHolds, PTL DEF CacheSpec, SnapshotsAdvance

\* A caller is never given a snapshot older than the cache's bound, and one that
\* forces a refresh never one that was there when it called.
THEOREM AnswersStayFresh == CacheSpec => AnswersAreFresh
<1> DEFINE Fresh == \A c \in Callers : pc'[c] = "answered" /\ pc[c] # "answered" =>
             \/ answer'[c] > call'[c].after
             \/ /\ ~call'[c].force
                /\ answer'[c] = entries[call'[c].key].resources
                /\ entries[call'[c].key].age < TTL
<1>1. CacheInv /\ [CacheNext]_cacheVars => [Fresh]_cacheVars
  <2> SUFFICES ASSUME CacheInv, CacheNext, NEW c \in Callers,
                      pc'[c] = "answered", pc[c] # "answered"
               PROVE  \/ answer'[c] > call'[c].after
                      \/ /\ ~call'[c].force
                         /\ answer'[c] = entries[call'[c].key].resources
                         /\ entries[call'[c].key].age < TTL
    OBVIOUS
  <2> USE DEF CacheInv, CacheTypeOK
  <2>1. ASSUME NEW d \in Callers, NEW k \in Keys, NEW force \in BOOLEAN,
               Resources(d, k, force)
        PROVE  /\ ~call'[c].force
               /\ answer'[c] = entries[call'[c].key].resources
               /\ entries[call'[c].key].age < TTL
    <3>1. d = c /\ AnswerFromCache(c, k, force)
      BY <2>1 DEF Resources, AnswerFromCache, JoinRefresh, StartRefresh
    <3>2. call'[c].force = force /\ call'[c].key = k
      BY <2>1, <3>1 DEF Resources
    <3>3. QED
      BY <3>1, <3>2 DEF AnswerFromCache, ServedFromCache, WithinTTL
  <2>2. ASSUME NEW d \in Callers, Receive(d)
        PROVE  answer'[c] > call'[c].after
    <3>1. d = c /\ answer'[c] = refresh[awaits[c]].number /\ call' = call /\ pc[c] = "waiting"
      BY <2>2 DEF Receive
    <3>2. QED
      BY <3>1 DEF CallsAreMatched
  <2>3. ASSUME NEW d \in Callers, Leave(d) \/ RefreshSucceeds(d) \/ RefreshFails(d)
        PROVE  FALSE
    BY <2>3 DEF Leave, RefreshSucceeds, RefreshFails
  <2>4. ~Invalidate /\ ~Tick
    BY DEF Invalidate, Tick
  <2>5. QED
    BY <2>1, <2>2, <2>3, <2>4 DEF CacheNext
<1>2. QED
  BY <1>1, CacheInvHolds, PTL DEF CacheSpec, AnswersAreFresh

\* The cache's state keeps its types, whatever is called, invalidated or fails.
THEOREM CacheTypes == CacheSpec => []CacheTypeOK
<1>1. CacheInv => CacheTypeOK
  BY DEF CacheInv
<1>2. QED
  BY <1>1, CacheInvHolds, PTL

----------------------------------------------------------------------------
(* How long the previous snapshot is offered *)

LEMMA AgesStayEqual == CacheInv /\ AgesAgree /\ [CacheNext]_cacheVars => AgesAgree'
<1> SUFFICES ASSUME CacheInv, AgesAgree, [CacheNext]_cacheVars, NEW k \in Keys
             PROVE  entries'[k].previousAge = entries'[k].age
  BY DEF AgesAgree
<1> USE DEF AgesAgree
<1>1. entries \in [Keys -> Entries]
  BY DEF CacheInv, CacheTypeOK
<1>2. NoEntry.previousAge = NoEntry.age
  BY DEF NoEntry
<1>3. ASSUME entries' = entries PROVE entries'[k].previousAge = entries'[k].age
  BY <1>3
<1>4. ASSUME NEW c \in Callers, NEW j \in Keys, NEW force \in BOOLEAN, Resources(c, j, force)
      PROVE  entries' = entries
  BY <1>4 DEF Resources
<1>5. ASSUME NEW c \in Callers, Receive(c) \/ Leave(c) PROVE entries' = entries
  BY <1>5 DEF Receive, Leave
<1>6. ASSUME NEW r \in Callers, RefreshSucceeds(r) PROVE entries'[k].previousAge = entries'[k].age
  <2>1. entries'[k] \in {NewEntry(r), entries[k]}
    BY <1>1, <1>6 DEF RefreshSucceeds
  <2>2. NewEntry(r).previousAge = NewEntry(r).age
    BY DEF NewEntry
  <2>3. QED
    BY <2>1, <2>2
<1>7. ASSUME NEW r \in Callers, RefreshFails(r) PROVE entries'[k].previousAge = entries'[k].age
  BY <1>1, <1>2, <1>7 DEF RefreshFails, EntryAfterFailure
<1>8. CASE Invalidate
  BY <1>2, <1>8 DEF Invalidate
<1>9. CASE Tick
  <2>1. entries'[k] = NoEntry \/ entries'[k] = [entries[k] EXCEPT !.age = Older(@), !.previousAge = Older(@)]
    BY <1>9 DEF Tick
  <2>2. QED
    BY <1>1, <1>2, <2>1 DEF Entries
<1>10. CASE UNCHANGED cacheVars
  BY <1>3, <1>10 DEF cacheVars
<1>11. QED
  BY <1>3, <1>4, <1>5, <1>6, <1>7, <1>8, <1>9, <1>10 DEF CacheNext

\* The previous snapshot is offered from the moment it was superseded until the
\* one after it has reached the TTL, whenever either was fetched.
THEOREM FallbackLasts == CacheSpec => []FallbackLastsAsLong
<1>1. CacheInit => AgesAgree
  BY DEF CacheInit, AgesAgree, NoEntry
<1>2. AgesAgree => FallbackLastsAsLong
  BY DEF AgesAgree, FallbackLastsAsLong, PreviousResources
<1>3. QED
  BY <1>1, <1>2, CacheInvHolds, AgesStayEqual, PTL DEF CacheSpec
=============================================================================
