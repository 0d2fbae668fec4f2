--------------------------- MODULE MonitorTargets ---------------------------
(***************************************************************************)
(* The identities a resolved target and the correlation tracker share      *)
(* (internal/monitor/monitor.go: ResolvedTarget.CorrelationKey).           *)
(***************************************************************************)
CONSTANTS Targets,    \* CorrelationKeys of the configured profiles
          NoTarget    \* the empty CorrelationKey

ASSUME TargetsAssumption == NoTarget \notin Targets
=============================================================================
