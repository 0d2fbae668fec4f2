-------------------------- MODULE MonitorContract --------------------------
(***************************************************************************)
(* What `plexctl serve` promises a monitor (docs/monitoring.md, "The       *)
(* handler should", and internal/monitor/monitor.go:271, ServeHTTP): every *)
(* request gets one answer, which is final; it is decided by the target's  *)
(* resolution alone or, for a resolved target, by its health check.        *)
(* Nothing here is shared between requests.                                *)
(***************************************************************************)
CONSTANT Requests

VARIABLES status,   \* status[r]: where request r is
          verdict   \* verdict[r]: its answer

contractVars == <<status, verdict>>

Verdicts == {"none", "rejected", "undiscovered", "misconfigured", "healthy", "unhealthy"}

ContractInit ==
  /\ status = [r \in Requests |-> "idle"]
  /\ verdict = [r \in Requests |-> "none"]

Answer(r, v) ==
  /\ status' = [status EXCEPT ![r] = "answered"]
  /\ verdict' = [verdict EXCEPT ![r] = v]

Arrive(r) ==
  /\ status[r] = "idle"
  /\ \/ /\ status' = [status EXCEPT ![r] = "resolving"]
        /\ UNCHANGED verdict
     \/ Answer(r, "rejected")

Resolve(r) ==
  /\ status[r] = "resolving"
  /\ \/ /\ status' = [status EXCEPT ![r] = "checking"]
        /\ UNCHANGED verdict
     \/ \E v \in {"undiscovered", "misconfigured"} : Answer(r, v)

Check(r) ==
  /\ status[r] = "checking"
  /\ \E v \in {"healthy", "unhealthy"} : Answer(r, v)

ContractNext == \E r \in Requests : Arrive(r) \/ Resolve(r) \/ Check(r)

\* A request that has arrived is never left without an answer.
ContractSpec ==
  /\ ContractInit
  /\ [][ContractNext]_contractVars
  /\ \A r \in Requests : WF_contractVars(Resolve(r)) /\ WF_contractVars(Check(r))
=============================================================================
