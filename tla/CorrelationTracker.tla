------------------------- MODULE CorrelationTracker -------------------------
(***************************************************************************)
(* The correlation tracker of the monitor                                  *)
(* (internal/monitor/correlation.go): one aggregate event when distinct    *)
(* targets fail within a window, and none again until the number of        *)
(* failing targets has dropped below the threshold.                        *)
(***************************************************************************)
EXTENDS MonitorTargets, Naturals, FiniteSets

CONSTANTS Window,     \* in clock ticks
          Threshold

ASSUME TrackerAssumption ==
  /\ Window \in Nat
  /\ Threshold \in Nat

VARIABLES
  now,        \* the tracker's clock
  failures,   \* last failure of each target, a map on the recorded targets
  emitted,    \* whether the present episode has been reported
  event       \* TargetCount of the event the last call returned, 0 for nil

trackerVars == <<now, failures, emitted, event>>

Recorded == DOMAIN failures

TrackerTypeOK ==
  /\ now \in Nat
  /\ Recorded \subseteq Targets
  /\ failures \in [Recorded -> 0 .. now]
  /\ emitted \in BOOLEAN
  /\ event \in Nat

TrackerInit ==
  /\ now = 0
  /\ failures = [t \in {} |-> 0]
  /\ emitted = FALSE
  /\ event = 0

Enabled == Window > 0 /\ Threshold >= 2

\* The failures a call keeps.
Kept == {t \in Recorded : now - failures[t] <= Window}

\* Mutation: the flag is never cleared.
EpisodeNeverEnds(count) == emitted

EpisodeContinues(count) == IF count < Threshold THEN FALSE ELSE emitted

\* Mutation: the empty key is recorded like any other.
IgnoredWhenDisabled(t) == ~Enabled

Ignored(t) == t = NoTarget \/ ~Enabled

ObserveFailure(t) ==
  IF Ignored(t)
  THEN event' = 0 /\ UNCHANGED <<now, failures, emitted>>
  ELSE LET failing == Kept \cup {t}
           count == Cardinality(failing)
           reported == EpisodeContinues(count)
       IN  /\ failures' = [u \in failing |-> IF u = t THEN now ELSE failures[u]]
           /\ event' = IF count >= Threshold /\ ~reported THEN count ELSE 0
           /\ emitted' = (count >= Threshold \/ reported)
           /\ UNCHANGED now

Tick ==
  /\ now' = now + 1
  /\ UNCHANGED <<failures, emitted, event>>
=============================================================================
