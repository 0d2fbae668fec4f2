--------------------------- MODULE MonitorHandler ---------------------------
(***************************************************************************)
(* The HTTP handler of `plexctl serve` (internal/monitor/monitor.go:       *)
(* ServeHTTP, retryResolution, waitForResolutionRetry, reportFailure) over *)
(* the shared resolution and the correlation tracker.                      *)
(*                                                                         *)
(* A request enters the shared resolution at most twice, as the waiters    *)
(* <<r, 1>> and <<r, 2>>.  Handler.Resolve is configured (a handler        *)
(* without it answers 500 and keeps no state), and Handler.Timeout is      *)
(* positive, as serve sets both.                                           *)
(***************************************************************************)
EXTENDS SharedResolution, CorrelationTracker

CONSTANTS ResolveRetry,      \* Handler.ResolveRetry
          HasRetryResolve    \* whether Handler.RetryResolve is set

ASSUME HandlerAssumption ==
  /\ Attempts = {1, 2}
  /\ ResolveRetry \in Nat
  /\ HasRetryResolve \in BOOLEAN

VARIABLES
  stage,       \* stage[r]: where ServeHTTP is
  selector,    \* selector[r]: account and server of the path
  response,    \* response[r]: status and classification written
  retries,     \* retries[r]: the outcomes given to OnResolution
  reported     \* reported[r]: the CorrelationKey given to reportFailure

handlerVars == <<stage, selector, response, retries, reported>>
vars == <<poolVars, trackerVars, handlerVars>>

Stages == {"idle", "first", "backoff", "second", "checking", "answered"}

\* No selector yet, nothing reported, no response: told apart from any value.
NoSelector == NoCall
Unreported == NoCall

Responses == {"none", "200 ok", "503 health", "503 discovery",
              "404 configuration", "404 not_found", "405 method_not_allowed",
              "500 configuration"}

HandlerTypeOK ==
  /\ PoolTypeOK
  /\ TrackerTypeOK
  /\ stage \in [Requests -> Stages]
  /\ selector \in [Requests -> Selectors \cup {NoSelector}]
  /\ response \in [Requests -> Responses]
  /\ retries \in [Requests -> SUBSET {"retry", "failed"}]
  /\ reported \in [Requests -> Targets \cup {NoTarget, Unreported}]

Init ==
  /\ PoolInit
  /\ TrackerInit
  /\ stage = [r \in Requests |-> "idle"]
  /\ selector = [r \in Requests |-> NoSelector]
  /\ response = [r \in Requests |-> "none"]
  /\ retries = [r \in Requests |-> {}]
  /\ reported = [r \in Requests |-> Unreported]

----------------------------------------------------------------------------
(* Arrival *)

\* A request with another method, or a path without account and server.
RejectRequest(r) ==
  /\ stage[r] = "idle"
  /\ \E s \in {"404 not_found", "405 method_not_allowed"} :
       response' = [response EXCEPT ![r] = s]
  /\ stage' = [stage EXCEPT ![r] = "answered"]
  /\ UNCHANGED <<poolVars, trackerVars, selector, retries, reported>>

AcceptRequest(r) ==
  /\ stage[r] = "idle"
  /\ \E s \in Selectors : selector' = [selector EXCEPT ![r] = s]
  /\ stage' = [stage EXCEPT ![r] = "first"]
  /\ UNCHANGED <<poolVars, trackerVars, response, retries, reported>>

----------------------------------------------------------------------------
(* retryResolution *)

\* Mutation: a forced retry shares the key of normal resolutions.
NormalKey(r, attempt) == [selector |-> selector[r], forceRetry |-> FALSE]

KeyOf(r, attempt) ==
  [selector |-> selector[r], forceRetry |-> attempt = 2 /\ HasRetryResolve]

ResolveFirst(r) ==
  /\ stage[r] = "first"
  /\ Enter(<<r, 1>>, KeyOf(r, 1))
  /\ UNCHANGED <<trackerVars, handlerVars>>

ResolveAgain(r) ==
  /\ stage[r] = "second"
  /\ Enter(<<r, 2>>, KeyOf(r, 2))
  /\ UNCHANGED <<trackerVars, handlerVars>>

Answered(r) ==
  \E a \in Attempts :
    /\ Receive(<<r, a>>) \/ GiveUp(<<r, a>>)
    /\ UNCHANGED <<trackerVars, handlerVars>>

Retryable(r) == got[<<r, 1>>].err = "discovery"

\* The first attempt failed in discovery while the request is still alive.
WantsRetry(r) == Retryable(r) /\ ~Terminal(r) /\ ResolveRetry > 0

StartBackoff(r) ==
  /\ stage[r] = "first" /\ phase[<<r, 1>>] = "left"
  /\ WantsRetry(r)
  /\ stage' = [stage EXCEPT ![r] = "backoff"]
  /\ UNCHANGED <<poolVars, trackerVars, selector, response, retries, reported>>

\* RetryDelay is over and the request is still alive.
StartRetry(r) ==
  /\ stage[r] = "backoff"
  /\ ~Terminal(r)
  /\ stage' = [stage EXCEPT ![r] = "second"]
  /\ retries' = [retries EXCEPT ![r] = @ \cup {"retry"}]
  /\ UNCHANGED <<poolVars, trackerVars, selector, response, reported>>

\* Mutation: the backoff has no way out but the retry.
WithoutRetryFromFirst(r) ==
  stage[r] = "first" /\ phase[<<r, 1>>] = "left" /\ ~WantsRetry(r)

\* Resolution is over for r: without a retry, because the backoff ended with
\* the request's context, or with the retry's outcome.
WithoutRetry(r) ==
  \/ stage[r] = "first" /\ phase[<<r, 1>>] = "left" /\ ~WantsRetry(r)
  \/ stage[r] = "backoff" /\ Terminal(r)
AfterRetry(r) == stage[r] = "second" /\ phase[<<r, 2>>] = "left"

\* Mutation: the retry's answer replaces the first one's target.
RetryOutcomeAlone(r) == got[<<r, 2>>]

RetryOutcome(r) ==
  [got[<<r, 2>>] EXCEPT !.target = IF @ = NoTarget THEN got[<<r, 1>>].target ELSE @]

\* What retryResolution returned, once it has.
Outcome(r) == IF phase[<<r, 2>>] = "left" THEN RetryOutcome(r) ELSE got[<<r, 1>>]

RetryFailed(r) ==
  AfterRetry(r) /\ got[<<r, 2>>].err \in {"discovery", "deadline", "canceled"}

----------------------------------------------------------------------------
(* The rest of ServeHTTP *)

Unavailable(e) == e \in {"discovery", "deadline", "canceled", "capacity"}

Respond(r, s) ==
  /\ response' = [response EXCEPT ![r] = s]
  /\ stage' = [stage EXCEPT ![r] = "answered"]

\* reportFailure, followed by the 503 response.
Fail(r, s, target) ==
  /\ ObserveFailure(target)
  /\ reported' = [reported EXCEPT ![r] = target]
  /\ Respond(r, s)

\* Mutation: only the error is looked at, not the request's own deadline.
DiscoveryFailedIfError(r) == Unavailable(Outcome(r).err)

DiscoveryFailed(r) == Terminal(r) \/ Unavailable(Outcome(r).err)

ConcludeDiscoveryFailed(r) ==
  /\ DiscoveryFailed(r)
  /\ Fail(r, "503 discovery", Outcome(r).target)

ConcludeConfiguration(r) ==
  /\ ~DiscoveryFailed(r)
  /\ Outcome(r).err = "config"
  /\ Respond(r, "404 configuration")
  /\ UNCHANGED <<trackerVars, reported>>

ConcludeNoClient(r) ==
  /\ ~DiscoveryFailed(r)
  /\ Outcome(r).err = "none" /\ ~Outcome(r).client
  /\ Respond(r, "500 configuration")
  /\ UNCHANGED <<trackerVars, reported>>

ConcludeResolved(r) ==
  /\ ~DiscoveryFailed(r)
  /\ Outcome(r).err = "none" /\ Outcome(r).client
  /\ stage' = [stage EXCEPT ![r] = "checking"]
  /\ UNCHANGED <<trackerVars, response, reported>>

Conclude(r) ==
  /\ WithoutRetry(r) \/ AfterRetry(r)
  /\ retries' = [retries EXCEPT ![r] = IF RetryFailed(r) THEN @ \cup {"failed"} ELSE @]
  /\ \/ ConcludeDiscoveryFailed(r)
     \/ ConcludeConfiguration(r)
     \/ ConcludeNoClient(r)
     \/ ConcludeResolved(r)
  /\ UNCHANGED <<poolVars, selector>>

\* health.Check returns; an expired context does not turn a success around.
HealthReturns(r) ==
  /\ stage[r] = "checking"
  /\ \/ /\ Respond(r, "200 ok")
        /\ UNCHANGED <<trackerVars, reported>>
     \/ Fail(r, "503 health", Outcome(r).target)
  /\ UNCHANGED <<poolVars, selector, retries>>

----------------------------------------------------------------------------
(* Composition *)

InResolution(r) == stage[r] \in {"first", "backoff", "second"}
InFlight(r) == InResolution(r) \/ stage[r] = "checking"

\* The request's context starts with ServeHTTP and is released when it returns.
ContextEnds(r) ==
  /\ InFlight(r)
  /\ PassDeadline(r) \/ FireDeadline(r) \/ CancelRequest(r)
  /\ UNCHANGED <<trackerVars, handlerVars>>

Worker(c) == WorkerStep(c) /\ UNCHANGED <<trackerVars, handlerVars>>

Handle(r) ==
  \/ ResolveFirst(r)
  \/ ResolveAgain(r)
  \/ Answered(r)
  \/ StartBackoff(r)
  \/ StartRetry(r)
  \/ Conclude(r)
  \/ HealthReturns(r)

Next ==
  \/ \E r \in Requests : \/ RejectRequest(r)
                         \/ AcceptRequest(r)
                         \/ Handle(r)
                         \/ ContextEnds(r)
  \/ \E c \in Waiters : Worker(c)

Spec == Init /\ [][Next]_vars

\* The runtime keeps running the handler of an accepted request, fires its
\* deadline, and runs the epilogue of a resolver that has returned.  Nothing
\* is assumed of resolvers: one may never return.
Deadline(r) ==
  /\ InFlight(r)
  /\ PassDeadline(r) \/ FireDeadline(r)
  /\ UNCHANGED <<trackerVars, handlerVars>>

PublishStep(c) == Publish(c) /\ UNCHANGED <<trackerVars, handlerVars>>

FairSpec ==
  /\ Spec
  /\ \A r \in Requests : WF_vars(Handle(r)) /\ WF_vars(Deadline(r))
  /\ \A c \in Waiters : WF_vars(PublishStep(c))

\* Resolvers that heed their context, as serve's do: once it has ended they
\* return, and its 30 seconds pass.
HeedsContext(c) ==
  /\ workCtx[c] # "live"
  /\ \E a \in Answers : ResolverReturns(c, a)
  /\ UNCHANGED <<trackerVars, handlerVars>>

WorkTimeoutStep(c) == WorkTimeout(c) /\ UNCHANGED <<trackerVars, handlerVars>>

ResolversHeedContext ==
  \A c \in Waiters : WF_vars(HeedsContext(c)) /\ WF_vars(WorkTimeoutStep(c))

----------------------------------------------------------------------------
(* Safety *)

\* An attempt only ever shares the work of attempts for the same account and
\* server, and a forced retry only that of forced retries: it never settles
\* for a normal, cache-first resolution (resolveKey's comment).
SharesOnlySameKey ==
  \A r \in Requests, a \in Attempts : joined[<<r, a>>] # NoCall =>
    LET leader == joined[<<r, a>>] IN
    /\ selector[RequestOf(leader)] = selector[r]
    /\ HasRetryResolve => leader[2] = a

\* A failure is counted for the request's own profile, and without one only
\* when no attempt of the request got to know its profile.
FailureKeepsIdentity ==
  \A r \in Requests : reported[r] # Unreported =>
    /\ reported[r] \in {NoTarget, ProfileOf[selector[r]]}
    /\ reported[r] = NoTarget => \A a \in Attempts : got[<<r, a>>].target = NoTarget

\* A request that runs out of time while its target is being resolved is
\* answered with the discovery failure, whatever the resolver came up with.
LateIsDiscovery ==
  [][\A r \in Requests :
       InResolution(r) /\ Terminal(r) /\ ~InResolution(r)'
         => response'[r] = "503 discovery"]_vars

----------------------------------------------------------------------------
(* Liveness *)

\* With resolvers that heed their context an exhausted pool has a free slot
\* again: no sequence of expiries and cancellations leaks one.
CapacityRecovers ==
  ResolversHeedContext
    => ((workers = MaxStuckResolvers) ~> (workers < MaxStuckResolvers))

----------------------------------------------------------------------------
(* The contract with the monitor *)

VerdictOf(s) ==
  CASE s \in {"404 not_found", "405 method_not_allowed"} -> "rejected"
    [] s = "503 discovery" -> "undiscovered"
    [] s \in {"404 configuration", "500 configuration"} -> "misconfigured"
    [] s = "200 ok" -> "healthy"
    [] s = "503 health" -> "unhealthy"
    [] OTHER -> "none"

Contract == INSTANCE MonitorContract WITH
  status <- [r \in Requests |-> IF InResolution(r) THEN "resolving" ELSE stage[r]],
  verdict <- [r \in Requests |-> VerdictOf(response[r])]

\* Sharing, retries, expiries and a full pool are invisible to a request's
\* client: the handler implements the contract, its liveness included.  Every
\* accepted request is answered, though resolvers may hang, hold every slot and
\* ignore their contexts.
ImplementsContract == Contract!ContractSpec
=============================================================================
