-------------------------- MODULE SharedResolution --------------------------
(***************************************************************************)
(* The shared target resolution of the monitor's Handler                   *)
(* (internal/monitor/monitor.go: resolveWith, releaseResolutionWaiter,     *)
(* runResolution).                                                         *)
(*                                                                         *)
(* Requests for one selector share one resolver goroutine.  The first      *)
(* caller takes a slot of the bounded "workers" channel, registers a call  *)
(* and starts the goroutine; later callers join it.  A caller leaves with  *)
(* the goroutine's result, or when its own context ends, whichever a       *)
(* select picks.                                                           *)
(*                                                                         *)
(* A waiter is one invocation of resolveWith, named by its request and the *)
(* attempt it serves, and it names the call it leads, if it leads one.     *)
(*                                                                         *)
(* A context only changes how its own request continues, so the check of   *)
(* contextTerminalError and the critical section that follows it are one   *)
(* step, and so are a select and the critical section after it.            *)
(***************************************************************************)
EXTENDS MonitorTargets, Naturals, FiniteSets

CONSTANTS Requests,           \* HTTP requests
          Attempts,           \* the resolutions one request may ask for
          Selectors,          \* the account and server of a request's path
          ProfileOf,          \* the profile a selector resolves to
          Answers,            \* what a resolver may return
          MaxStuckResolvers,  \* capacity of the workers channel
          NoCall              \* the nil *resolveCall

Waiters == Requests \X Attempts
RequestOf(w) == w[1]

ResolveKeys == [selector : Selectors, forceRetry : BOOLEAN]

\* How a resolution can fail, as retryResolution and ServeHTTP tell errors
\* apart: "discovery" is ErrDiscoveryUnavailable alone, "deadline" and
\* "canceled" a context error (joined with ErrDiscoveryUnavailable or not),
\* "config" any other error of the resolver, "none" the nil error.
Errors == {"none", "discovery", "deadline", "canceled", "capacity", "config"}

\* What resolveWith returns; client says whether target.Client is set.
Results == [target : Targets \cup {NoTarget}, client : BOOLEAN, err : Errors]
Failure(e) == [target |-> NoTarget, client |-> FALSE, err |-> e]
Pending == [target |-> NoTarget, client |-> FALSE, err |-> "pending"]

ASSUME SharedResolutionAssumption ==
  /\ IsFiniteSet(Waiters)
  /\ ProfileOf \in [Selectors -> Targets]
  /\ Answers \subseteq Results
  /\ MaxStuckResolvers \in Nat
  /\ NoCall \notin Waiters \cup ResolveKeys \cup Selectors

VARIABLES
  ctx,       \* ctx[r]: the context of request r; "due" is past its deadline
             \* with its timer still to fire
  phase,     \* phase[w]: where invocation w of resolveWith is
  joined,    \* joined[w]: the call w waits for or has waited for
  got,       \* got[w]: what w returned
  calls,     \* calls[k]: the registered call of k (state.calls)
  key,       \* key[c]: the key call c was started under
  waiters,   \* waiters[c]: call.waiters
  worker,    \* worker[c]: the goroutine of call c
  workCtx,   \* workCtx[c]: the goroutine's own 30 second context
  result,    \* result[c]: what the resolver of c returned
  workers    \* length of the workers channel

poolVars == <<ctx, phase, joined, got, calls, key, waiters, worker, workCtx,
              result, workers>>
callVars == <<calls, key, waiters, worker, workCtx, result, workers>>

CtxStates == {"live", "due", "expired", "canceled"}

PoolTypeOK ==
  /\ ctx \in [Requests -> CtxStates]
  /\ phase \in [Waiters -> {"out", "waiting", "left"}]
  /\ joined \in [Waiters -> Waiters \cup {NoCall}]
  /\ got \in [Waiters -> Results \cup {Pending}]
  /\ calls \in [ResolveKeys -> Waiters \cup {NoCall}]
  /\ key \in [Waiters -> ResolveKeys \cup {NoCall}]
  /\ waiters \in [Waiters -> Nat]
  /\ worker \in [Waiters -> {"none", "running", "returned", "done"}]
  /\ workCtx \in [Waiters -> {"live", "timedout", "canceled"}]
  /\ result \in [Waiters -> Results \cup {Pending}]
  /\ workers \in Nat

PoolInit ==
  /\ ctx = [r \in Requests |-> "live"]
  /\ phase = [w \in Waiters |-> "out"]
  /\ joined = [w \in Waiters |-> NoCall]
  /\ got = [w \in Waiters |-> Pending]
  /\ calls = [k \in ResolveKeys |-> NoCall]
  /\ key = [w \in Waiters |-> NoCall]
  /\ waiters = [w \in Waiters |-> 0]
  /\ worker = [w \in Waiters |-> "none"]
  /\ workCtx = [w \in Waiters |-> "live"]
  /\ result = [w \in Waiters |-> Pending]
  /\ workers = 0

----------------------------------------------------------------------------
(* Contexts of the requests *)

Terminal(r) == ctx[r] # "live"
TerminalError(r) == IF ctx[r] = "canceled" THEN "canceled" ELSE "deadline"
Done(r) == ctx[r] \in {"expired", "canceled"}

\* The deadline of r passes: contextTerminalError sees it from the clock.
PassDeadline(r) ==
  /\ ctx[r] = "live"
  /\ ctx' = [ctx EXCEPT ![r] = "due"]
  /\ UNCHANGED <<phase, joined, got, callVars>>

\* The timer of r's context fires: ctx.Done() is closed.
FireDeadline(r) ==
  /\ ctx[r] = "due"
  /\ ctx' = [ctx EXCEPT ![r] = "expired"]
  /\ UNCHANGED <<phase, joined, got, callVars>>

\* The client of r goes away first.
CancelRequest(r) ==
  /\ ctx[r] \in {"live", "due"}
  /\ ctx' = [ctx EXCEPT ![r] = "canceled"]
  /\ UNCHANGED <<phase, joined, got, callVars>>

----------------------------------------------------------------------------
(* resolveWith up to its select *)

Leave(w, outcome) ==
  /\ phase' = [phase EXCEPT ![w] = "left"]
  /\ got' = [got EXCEPT ![w] = outcome]
  /\ UNCHANGED <<ctx, joined>>

EnterTooLate(w) ==
  /\ Terminal(RequestOf(w))
  /\ Leave(w, Failure(TerminalError(RequestOf(w))))
  /\ UNCHANGED callVars

\* Mutation: one slot too many.
FreeSlotOffByOne == workers <= MaxStuckResolvers

FreeSlot == workers < MaxStuckResolvers

SlotTaken == workers + 1

StartCall(w, k) ==
  /\ ~Terminal(RequestOf(w))
  /\ calls[k] = NoCall
  /\ FreeSlot
  /\ workers' = SlotTaken
  /\ calls' = [calls EXCEPT ![k] = w]
  /\ key' = [key EXCEPT ![w] = k]
  /\ waiters' = [waiters EXCEPT ![w] = 1]
  /\ worker' = [worker EXCEPT ![w] = "running"]
  /\ phase' = [phase EXCEPT ![w] = "waiting"]
  /\ joined' = [joined EXCEPT ![w] = w]
  /\ UNCHANGED <<ctx, got, workCtx, result>>

Refuse(w, k) ==
  /\ ~Terminal(RequestOf(w))
  /\ calls[k] = NoCall
  /\ ~FreeSlot
  /\ Leave(w, Failure("capacity"))
  /\ UNCHANGED callVars

\* Mutation: a caller that joins is not counted.
CountJoinerForgotten(c) == waiters

CountJoiner(c) == [waiters EXCEPT ![c] = @ + 1]

JoinCall(w, k) ==
  /\ ~Terminal(RequestOf(w))
  /\ calls[k] # NoCall
  /\ waiters' = CountJoiner(calls[k])
  /\ phase' = [phase EXCEPT ![w] = "waiting"]
  /\ joined' = [joined EXCEPT ![w] = calls[k]]
  /\ UNCHANGED <<ctx, got, calls, key, worker, workCtx, result, workers>>

Enter(w, k) ==
  /\ phase[w] = "out"
  /\ \/ EnterTooLate(w)
     \/ StartCall(w, k)
     \/ Refuse(w, k)
     \/ JoinCall(w, k)

----------------------------------------------------------------------------
(* The select of resolveWith and releaseResolutionWaiter *)

Receive(w) ==
  /\ phase[w] = "waiting"
  /\ worker[joined[w]] = "done"
  /\ Leave(w, result[joined[w]])
  /\ UNCHANGED callVars

Registered(c) == calls[key[c]] = c

\* Mutation: an expired caller cancels the work whoever else waits for it.
AbandonsWorkOfOthers(w) == ctx[RequestOf(w)] = "expired"

\* The deadline of the last waiter cancels the work; a cancelled one leaves
\* it running for a later caller.
AbandonsWork(w) ==
  /\ waiters[joined[w]] = 1
  /\ ctx[RequestOf(w)] = "expired"

\* Mutation: the context is cancelled and the call stays registered.
ForgetCallNot(c) == calls

ForgetCall(c) == [calls EXCEPT ![key[c]] = NoCall]

\* The call is no longer registered: its last waiter has left, or its result
\* has been published and the select did not take it.
ReleaseNothing(w) ==
  /\ ~Registered(joined[w]) \/ waiters[joined[w]] = 0
  /\ UNCHANGED callVars

ReleaseOne(w) ==
  LET c == joined[w] IN
  /\ Registered(c) /\ waiters[c] # 0
  /\ waiters' = [waiters EXCEPT ![c] = @ - 1]
  /\ ~AbandonsWork(w)
  /\ UNCHANGED <<calls, key, worker, workCtx, result, workers>>

ReleaseLast(w) ==
  LET c == joined[w] IN
  /\ Registered(c) /\ waiters[c] # 0
  /\ waiters' = [waiters EXCEPT ![c] = @ - 1]
  /\ AbandonsWork(w)
  /\ calls' = ForgetCall(c)
  /\ workCtx' = [workCtx EXCEPT ![c] = "canceled"]
  /\ UNCHANGED <<key, worker, result, workers>>

GiveUp(w) ==
  /\ phase[w] = "waiting"
  /\ Done(RequestOf(w))
  /\ Leave(w, Failure(TerminalError(RequestOf(w))))
  /\ \/ ReleaseNothing(w)
     \/ ReleaseOne(w)
     \/ ReleaseLast(w)

----------------------------------------------------------------------------
(* runResolution *)

\* A resolver may return at any time, whatever its context says.  It names no
\* profile or the one of its selector, and reports a cancellation only of its
\* own context.
AnswersOf(c) ==
  {a \in Answers : /\ a.target \in {NoTarget, ProfileOf[key[c].selector]}
                   /\ a.err = "canceled" => workCtx[c] = "canceled"}

\* The resolver of c returns and its context is released (call.cancel()).
ResolverReturns(c, a) ==
  /\ worker[c] = "running"
  /\ a \in AnswersOf(c)
  /\ worker' = [worker EXCEPT ![c] = "returned"]
  /\ result' = [result EXCEPT ![c] = a]
  /\ workCtx' = [workCtx EXCEPT ![c] = IF @ = "live" THEN "canceled" ELSE @]
  /\ UNCHANGED <<ctx, phase, joined, got, calls, key, waiters, workers>>

\* Mutation: a published call stays registered.
UnregisterNot(c) == calls

\* Mutation: the goroutine deletes whatever its key holds by now.
UnregisterAnyway(c) == [calls EXCEPT ![key[c]] = NoCall]

Unregister(c) == IF Registered(c) THEN [calls EXCEPT ![key[c]] = NoCall] ELSE calls

\* Mutation: the slot is kept when the call was abandoned.
SlotsAfterIfRegistered(c) == IF Registered(c) THEN workers - 1 ELSE workers

SlotsAfter(c) == workers - 1

\* The critical section: publish, unregister, close(done), free the slot.  The
\* receive from workers would block for ever on an empty channel, with the mutex
\* held: here workers would leave Nat.
Publish(c) ==
  /\ worker[c] = "returned"
  /\ worker' = [worker EXCEPT ![c] = "done"]
  /\ calls' = Unregister(c)
  /\ workers' = SlotsAfter(c)
  /\ UNCHANGED <<ctx, phase, joined, got, key, waiters, workCtx, result>>

\* The resolution context's own 30 seconds are over.
WorkTimeout(c) ==
  /\ worker[c] = "running"
  /\ workCtx[c] = "live"
  /\ workCtx' = [workCtx EXCEPT ![c] = "timedout"]
  /\ UNCHANGED <<ctx, phase, joined, got, calls, key, waiters, worker, result,
                 workers>>

WorkerStep(c) ==
  \/ \E a \in Answers : ResolverReturns(c, a)
  \/ Publish(c)
  \/ WorkTimeout(c)

----------------------------------------------------------------------------
(* The pool under callers that enter in any order, with any key *)

PoolNext ==
  \/ \E r \in Requests : PassDeadline(r) \/ FireDeadline(r) \/ CancelRequest(r)
  \/ \E w \in Waiters : \/ \E k \in ResolveKeys : Enter(w, k)
                        \/ Receive(w)
                        \/ GiveUp(w)
                        \/ WorkerStep(w)

PoolSpec == PoolInit /\ [][PoolNext]_poolVars

----------------------------------------------------------------------------
(* Safety *)

Occupied == {c \in Waiters : worker[c] \in {"running", "returned"}}
WaitingOn(c) == {w \in Waiters : phase[w] = "waiting" /\ joined[w] = c}

\* The workers channel holds exactly one token per resolver goroutine, the
\* abandoned ones included, and never more than its capacity: no path of
\* resolveWith, releaseResolutionWaiter and runResolution leaks or repays a
\* slot twice.
SlotsAreWorkers ==
  /\ workers = Cardinality(Occupied)
  /\ workers <= MaxStuckResolvers

\* A registered call has a goroutine that has still to publish, under the key
\* it is registered for: nobody joins a call that is over, or another's.
RegisteredIsPending ==
  \A k \in ResolveKeys : calls[k] # NoCall =>
    /\ worker[calls[k]] \in {"running", "returned"}
    /\ key[calls[k]] = k

\* call.waiters of a registered call is the number of callers in its select,
\* so the deadline that brings it to zero is the last one's.
WaitersAreCounted ==
  \A k \in ResolveKeys :
    calls[k] # NoCall => waiters[calls[k]] = Cardinality(WaitingOn(calls[k]))

\* A caller waits either for a published result or for the registered call of
\* its key: an abandoned or replaced goroutine keeps nobody waiting.
NobodyWaitsForAbandoned ==
  \A w \in Waiters : phase[w] = "waiting" =>
    \/ worker[joined[w]] = "done"
    \/ Registered(joined[w])

\* A goroutine whose context is not cancelled is the registered one of its
\* key: at most one useful worker per key, and none that cannot be joined.
LiveWorkIsRegistered ==
  \A c \in Waiters :
    worker[c] = "running" => (workCtx[c] # "canceled" <=> Registered(c))

\* Whoever stops waiting and whatever that does to the shared work, a caller
\* is told of a cancellation only when its own client cancelled it
\* (resolutionContext's comment: a short or cancelled leader does not end
\* discovery that a healthy waiter needs).
CancellationIsOwn ==
  \A w \in Waiters : got[w].err = "canceled" => ctx[RequestOf(w)] = "canceled"

----------------------------------------------------------------------------
(* The inductive invariant of the pool *)

\* Calls exist from the moment their leader started them.
CallsAreStarted ==
  /\ \A c \in Waiters : IF worker[c] = "none"
                        THEN workCtx[c] = "live"
                        ELSE key[c] \in ResolveKeys /\ phase[c] # "out"
  /\ \A w \in Waiters : phase[w] = "waiting" =>
       joined[w] \in Waiters /\ worker[joined[w]] # "none"

\* Work that ended in its own cancellation has nobody to tell.
CancelledWorkIsUnheard ==
  \A c \in Waiters :
    worker[c] \in {"returned", "done"} /\ result[c].err = "canceled"
      => ~Registered(c) /\ WaitingOn(c) = {}

PoolInv ==
  /\ PoolTypeOK
  /\ CallsAreStarted
  /\ RegisteredIsPending
  /\ LiveWorkIsRegistered
  /\ NobodyWaitsForAbandoned
  /\ CancelledWorkIsUnheard
  /\ CancellationIsOwn
  /\ SlotsAreWorkers
  /\ WaitersAreCounted
=============================================================================
