--------------------------- MODULE ResourceCache ---------------------------
(***************************************************************************)
(* The cache of Plex.tv discovery snapshots that all resolutions of a      *)
(* monitor share (internal/plexauth/client.go: ResourceCache).             *)
(*                                                                         *)
(* Callers ask for the snapshot of a key, which stands for the base URL,   *)
(* the client and the account token.  A snapshot is named by the position  *)
(* of its refresh among all refreshes that were started, so one requested  *)
(* later has a larger number; 0 is no snapshot.  A time stamp is kept as   *)
(* the age it gives, up to the first age that no comparison tells from a   *)
(* larger one.  A caller makes one call, and names the refresh it starts,  *)
(* if it starts one.  The TTL is positive, as plexResourceCacheTTL is;     *)
(* without one there is no cache.                                          *)
(***************************************************************************)
EXTENDS Naturals

CONSTANTS Callers, Keys,
          TTL,        \* in clock ticks
          NoRefresh   \* the nil *resourceRefresh

ASSUME ResourceCacheAssumption ==
  /\ TTL \in Nat \ {0}
  /\ NoRefresh \notin Callers

VARIABLES
  started,      \* how many refreshes were started
  lastFinished, \* lastFinished[k]: the last refresh of k that finished
  lastFailure,  \* lastFailure[k]: the last one that failed
  entries,      \* entries[k]: c.entries, NoEntry where the key is absent
  refreshes,    \* refreshes[k]: c.refreshes, the refresh in flight
  refresh,      \* refresh[r]: state, prior snapshot and own number of r
  call,         \* call[c]: the arguments of c's call, and the last
                \* refresh of its key that had finished by then
  pc,           \* pc[c]: where c's call is
  awaits,       \* awaits[c]: the refresh c waits for
  answer        \* answer[c]: the snapshot c was given, 0 for none

cacheVars == <<started, lastFinished, lastFailure, entries, refreshes, refresh, call, pc,
               awaits, answer>>

MaxAge == TTL + 1
Ages == 0 .. MaxAge

\* age and previousAge stand for the time since at and previousAt.
Entries == [resources : Nat, age : Ages, previous : Nat, previousAge : Ages]
NoEntry == [resources |-> 0, age |-> 0, previous |-> 0, previousAge |-> 0]

Refreshes == [state : {"none", "running", "ok", "failed"}, key : Keys,
              prior : Nat, number : Nat]
Calls == [key : Keys, force : BOOLEAN, after : Nat]

CacheTypeOK ==
  /\ started \in Nat
  /\ lastFinished \in [Keys -> 0 .. started]
  /\ lastFailure \in [Keys -> 0 .. started]
  /\ entries \in [Keys -> Entries]
  /\ refreshes \in [Keys -> Callers \cup {NoRefresh}]
  /\ refresh \in [Callers -> Refreshes]
  /\ call \in [Callers -> Calls]
  /\ pc \in [Callers -> {"idle", "waiting", "answered", "failed", "left"}]
  /\ awaits \in [Callers -> Callers \cup {NoRefresh}]
  /\ \A c \in Callers : pc[c] = "waiting" => awaits[c] # NoRefresh
  /\ answer \in [Callers -> 0 .. started]

CacheInit ==
  /\ started = 0
  /\ lastFinished = [k \in Keys |-> 0]
  /\ lastFailure = [k \in Keys |-> 0]
  /\ entries = [k \in Keys |-> NoEntry]
  /\ refreshes = [k \in Keys |-> NoRefresh]
  /\ \E k \in Keys :
       /\ refresh = [c \in Callers |->
                       [state |-> "none", key |-> k, prior |-> 0, number |-> 0]]
       /\ call = [c \in Callers |-> [key |-> k, force |-> FALSE, after |-> 0]]
  /\ pc = [c \in Callers |-> "idle"]
  /\ awaits = [c \in Callers |-> NoRefresh]
  /\ answer = [c \in Callers |-> 0]

----------------------------------------------------------------------------
(* resources: one critical section *)

Present(e) == e.resources # 0

\* Mutation: a snapshot is still served when it is as old as the TTL.
WithinTTLInclusive(e) == e.age <= TTL

WithinTTL(e) == e.age < TTL

\* Mutation: a forced call settles for a fresh snapshot.
ServedFromAnyCache(k, force) == Present(entries[k]) /\ WithinTTL(entries[k])

ServedFromCache(k, force) == ~force /\ Present(entries[k]) /\ WithinTTL(entries[k])

\* Mutation: a forced call does not join the refresh in flight.
JoinsUnlessForced(k, force) == refreshes[k] # NoRefresh /\ ~force

Joins(k, force) == refreshes[k] # NoRefresh

AnswerFromCache(c, k, force) ==
  /\ ServedFromCache(k, force)
  /\ pc' = [pc EXCEPT ![c] = "answered"]
  /\ answer' = [answer EXCEPT ![c] = entries[k].resources]
  /\ UNCHANGED <<started, refreshes, refresh, awaits>>

JoinRefresh(c, k, force) ==
  /\ ~ServedFromCache(k, force)
  /\ Joins(k, force)
  /\ pc' = [pc EXCEPT ![c] = "waiting"]
  /\ awaits' = [awaits EXCEPT ![c] = refreshes[k]]
  /\ UNCHANGED <<started, refreshes, refresh, answer>>

StartRefresh(c, k, force) ==
  /\ ~ServedFromCache(k, force)
  /\ ~Joins(k, force)
  /\ started' = started + 1
  /\ refreshes' = [refreshes EXCEPT ![k] = c]
  /\ refresh' = [refresh EXCEPT ![c] = [state |-> "running", key |-> k,
                                        prior |-> entries[k].resources, number |-> started']]
  /\ pc' = [pc EXCEPT ![c] = "waiting"]
  /\ awaits' = [awaits EXCEPT ![c] = c]
  /\ UNCHANGED answer

\* Resources (force is FALSE) or Refresh (force is TRUE).
Resources(c, k, force) ==
  /\ pc[c] = "idle"
  /\ call' = [call EXCEPT ![c] = [key |-> k, force |-> force, after |-> lastFinished[k]]]
  /\ \/ AnswerFromCache(c, k, force)
     \/ JoinRefresh(c, k, force)
     \/ StartRefresh(c, k, force)
  /\ UNCHANGED <<lastFinished, lastFailure, entries>>

----------------------------------------------------------------------------
(* waitForResourceRefresh *)

Receive(c) ==
  /\ pc[c] = "waiting"
  /\ \/ /\ refresh[awaits[c]].state = "ok"
        /\ pc' = [pc EXCEPT ![c] = "answered"]
        /\ answer' = [answer EXCEPT ![c] = refresh[awaits[c]].number]
     \/ /\ refresh[awaits[c]].state = "failed"
        /\ pc' = [pc EXCEPT ![c] = "failed"]
        /\ UNCHANGED answer
  /\ UNCHANGED <<started, lastFinished, lastFailure, entries, refreshes, refresh, call, awaits>>

\* The caller's own context ends first; the refresh goes on.
Leave(c) ==
  /\ pc[c] = "waiting"
  /\ pc' = [pc EXCEPT ![c] = "left"]
  /\ UNCHANGED <<started, lastFinished, lastFailure, entries, refreshes, refresh, call, awaits, answer>>

----------------------------------------------------------------------------
(* refreshResources: client.Resources returns within its 30 seconds, then a *)
(* critical section                                                         *)

\* Mutation: retention starts when the snapshot was fetched.
RetainedSinceFetched(r) ==
  [resources |-> refresh[r].number, age |-> 0, previous |-> refresh[r].prior,
   previousAge |-> entries[refresh[r].key].age]

NewEntry(r) ==
  [resources |-> refresh[r].number, age |-> 0, previous |-> refresh[r].prior, previousAge |-> 0]

RefreshSucceeds(r) ==
  LET k == refresh[r].key IN
  /\ refresh[r].state = "running"
  /\ lastFinished' = [lastFinished EXCEPT ![k] = refresh[r].number]
  /\ entries' = [entries EXCEPT ![k] = NewEntry(r)]
  /\ refresh' = [refresh EXCEPT ![r].state = "ok"]
  /\ refreshes' = [refreshes EXCEPT ![k] = NoRefresh]
  /\ UNCHANGED <<started, lastFailure, call, pc, awaits, answer>>

\* Mutation: a failed refresh leaves the old snapshot in place.
EntryKept(k) == entries[k]

EntryAfterFailure(k) == NoEntry

\* Mutation: the error path returns before close(done).
StateOnEarlyReturn == "running"

StateAfterFailure == "failed"

RefreshFails(r) ==
  LET k == refresh[r].key IN
  /\ refresh[r].state = "running"
  /\ lastFinished' = [lastFinished EXCEPT ![k] = refresh[r].number]
  /\ lastFailure' = [lastFailure EXCEPT ![k] = refresh[r].number]
  /\ entries' = [entries EXCEPT ![k] = EntryAfterFailure(k)]
  /\ refresh' = [refresh EXCEPT ![r].state = StateAfterFailure]
  /\ refreshes' = [refreshes EXCEPT ![k] = NoRefresh]
  /\ UNCHANGED <<started, call, pc, awaits, answer>>

----------------------------------------------------------------------------

\* No command calls it; it is part of the cache's interface.
Invalidate ==
  /\ entries' = [k \in Keys |-> NoEntry]
  /\ UNCHANGED <<started, lastFinished, lastFailure, refreshes, refresh, call, pc, awaits, answer>>

Older(age) == IF age < MaxAge THEN age + 1 ELSE age

Tick ==
  /\ entries' = [k \in Keys |->
       IF Present(entries[k])
       THEN [entries[k] EXCEPT !.age = Older(@), !.previousAge = Older(@)]
       ELSE NoEntry]
  /\ UNCHANGED <<started, lastFinished, lastFailure, refreshes, refresh, call, pc, awaits, answer>>

CacheNext ==
  \/ \E c \in Callers : \/ \E k \in Keys, force \in BOOLEAN : Resources(c, k, force)
                        \/ Receive(c)
                        \/ Leave(c)
                        \/ RefreshSucceeds(c)
                        \/ RefreshFails(c)
  \/ Invalidate
  \/ Tick

CacheSpec == CacheInit /\ [][CacheNext]_cacheVars

\* client.Resources runs under a 30 second context of its own and a waiting
\* caller is scheduled; callers need not have a deadline.
FairCacheSpec ==
  /\ CacheSpec
  /\ \A c \in Callers : /\ WF_cacheVars(Receive(c))
                        /\ WF_cacheVars(RefreshSucceeds(c) \/ RefreshFails(c))

----------------------------------------------------------------------------
(* Properties *)

\* What PreviousResources offers for k, 0 when it offers nothing.
PreviousResources(k) ==
  IF Present(entries[k]) /\ entries[k].previous # 0 /\ entries[k].previousAge <= TTL
  THEN entries[k].previous ELSE 0

\* The refresh in flight of a key is its registered one: two resolutions, one
\* of them forced, never ask Plex.tv twice at a time for one account.
OneRefreshPerKey ==
  \A r \in Callers :
    refresh[r].state = "running" <=> \E k \in Keys : refreshes[k] = r /\ refresh[r].key = k

\* After a failed refresh nothing fetched before it is handed out any more,
\* neither as the snapshot nor as the previous one (Resources' comment: a
\* failed refresh is never replaced with stale data).
NothingOutlivesAFailure ==
  \A k \in Keys :
    /\ Present(entries[k]) => entries[k].resources > lastFailure[k]
    /\ PreviousResources(k) # 0 => PreviousResources(k) > lastFailure[k]

\* "Retention starts when this complete snapshot is superseded, not when it was
\* initially fetched": the previous snapshot is offered for as long as the one
\* that replaced it is, and at the moment that one reaches the TTL still:
\* Resources compares strictly, PreviousResources does not, and a resolution
\* that was given the snapshot just before asks for the previous one after.
FallbackLastsAsLong ==
  \A k \in Keys :
    Present(entries[k]) /\ entries[k].previous # 0 /\ entries[k].age <= TTL =>
      PreviousResources(k) = entries[k].previous

\* The cached snapshot is newer than the previous one it offers, and is never
\* replaced by an older one, whatever was invalidated while a refresh ran.
SnapshotsAdvance ==
  [][\A k \in Keys : Present(entries'[k]) =>
       /\ entries'[k].resources >= entries[k].resources
       /\ entries'[k].previous < entries'[k].resources]_cacheVars

\* A caller is given a snapshot whose refresh finished after the call was made
\* or, unless it forced a refresh, less than TTL before it.
AnswersAreFresh ==
  [][\A c \in Callers : pc'[c] = "answered" /\ pc[c] # "answered" =>
       \/ answer'[c] > call'[c].after
       \/ /\ ~call'[c].force
          /\ answer'[c] = entries[call'[c].key].resources
          /\ entries[call'[c].key].age < TTL]_cacheVars

\* Every call returns, its caller's context apart.
CallersAreServed == \A c \in Callers : pc[c] = "waiting" ~> pc[c] # "waiting"

----------------------------------------------------------------------------
(* The inductive invariant *)

\* A caller that has not called leads no refresh; one that waits, waits for a
\* refresh of its key that had not finished when it called.
CallsAreMatched ==
  \A c \in Callers :
    /\ pc[c] = "idle" => refresh[c].state = "none"
    /\ pc[c] = "waiting" =>
         /\ refresh[awaits[c]].state # "none"
         /\ refresh[awaits[c]].number > call[c].after

RegisteredIsRunning ==
  \A k \in Keys : refreshes[k] # NoRefresh =>
    refresh[refreshes[k]].state = "running" /\ refresh[refreshes[k]].key = k

\* The refresh in flight is newer than all that has finished for its key, and
\* its prior snapshot was taken after the last failure.
NumbersAreOrdered ==
  /\ \A k \in Keys :
       /\ lastFailure[k] <= lastFinished[k]
       /\ entries[k].resources <= lastFinished[k]
       /\ Present(entries[k]) => entries[k].resources > lastFailure[k]
       /\ entries[k].previous # 0 => entries[k].previous > lastFailure[k]
       /\ Present(entries[k]) => entries[k].previous < entries[k].resources
  /\ \A r \in Callers : refresh[r].number <= started
  /\ \A r \in Callers : refresh[r].state = "running" =>
       /\ lastFinished[refresh[r].key] < refresh[r].number
       /\ refresh[r].prior <= lastFinished[refresh[r].key]
       /\ refresh[r].prior # 0 => refresh[r].prior > lastFailure[refresh[r].key]

CacheInv ==
  /\ CacheTypeOK
  /\ CallsAreMatched
  /\ RegisteredIsRunning
  /\ OneRefreshPerKey
  /\ NumbersAreOrdered

\* A snapshot and its predecessor are as old as each other: one was fetched when
\* the other was superseded.
AgesAgree == \A k \in Keys : entries[k].previousAge = entries[k].age
=============================================================================
