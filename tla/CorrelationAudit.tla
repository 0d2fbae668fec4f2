-------------------------- MODULE CorrelationAudit --------------------------
(***************************************************************************)
(* The correlation tracker with the record of everything it was told, to   *)
(* compare its incremental bookkeeping (one last failure per target,       *)
(* pruned as calls come) with what its comment promises of the full        *)
(* history: "one aggregate event when distinct monitor targets fail in a   *)
(* bounded time window" (internal/monitor/correlation.go:18-19).           *)
(***************************************************************************)
EXTENDS CorrelationTracker, Sequences

CONSTANTS MaxTime,   \* bound on the clock
          MaxCalls   \* bound on the number of failures reported

VARIABLE log   \* every call: when, which target, and the event it returned

auditVars == <<trackerVars, log>>

AuditInit == TrackerInit /\ log = <<>>

Observe(t) ==
  /\ Len(log) < MaxCalls
  /\ ObserveFailure(t)
  /\ log' = Append(log, [at |-> now, target |-> t, event |-> event'])

Advance ==
  /\ now < MaxTime
  /\ Tick
  /\ UNCHANGED log

AuditNext == (\E t \in Targets \cup {NoTarget} : Observe(t)) \/ Advance

AuditSpec == AuditInit /\ [][AuditNext]_auditVars

----------------------------------------------------------------------------
(* The reference: a window over the whole history *)

\* The distinct targets that failed within the window that ends at call i.
FailingAt(i) ==
  {log[j].target : j \in {j \in 1 .. i : log[j].target # NoTarget
                                        /\ log[i].at - log[j].at <= Window}}

\* The calls the tracker counts: while it is enabled, those that name a target.
Counted == {i \in 1 .. Len(log) : Enabled /\ log[i].target # NoTarget}
IsPredecessor(i, j) == i < j /\ \A m \in Counted : ~(i < m /\ m < j)

\* Call j opens an episode: the threshold is reached, and was not at the call
\* before it.
OpensEpisode(j) ==
  /\ Cardinality(FailingAt(j)) >= Threshold
  /\ \A i \in Counted : IsPredecessor(i, j) => Cardinality(FailingAt(i)) < Threshold

\* Every call returns the event that the full history calls for: the number
\* of distinct targets that failed within the last window when the call opens
\* an episode, and nothing otherwise.
EventsMatchHistory ==
  \A j \in 1 .. Len(log) :
    log[j].event = IF j \in Counted /\ OpensEpisode(j)
                   THEN Cardinality(FailingAt(j)) ELSE 0
=============================================================================
