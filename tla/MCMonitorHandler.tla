-------------------------- MODULE MCMonitorHandler --------------------------
(***************************************************************************)
(* Small instances of MonitorHandler.                                      *)
(***************************************************************************)
EXTENDS MonitorHandler, TLC

CONSTANTS r1, r2,       \* requests
          sf, la,       \* two selectors
          p, q          \* the profiles they resolve to

MCRequests == {r1, r2}
MCOneSelector == {sf}
MCSelectors == {sf, la}
MCTargets == {p, q}
MCProfileOf == [s \in Selectors |-> IF s = sf THEN p ELSE q]

Answer(t, c, e) == [target |-> t, client |-> c, err |-> e]

\* What serve's resolvers return to a caller that still waits, and a target
\* without client, which only another Resolver could return.
MCAnswers ==
  {Answer(t, TRUE, "none") : t \in MCTargets}
    \cup {Answer(t, FALSE, e) : t \in MCTargets, e \in {"none", "discovery", "deadline"}}
    \cup {Answer(NoTarget, FALSE, "config")}

MCFewAnswers == {Answer(p, TRUE, "none"), Answer(p, FALSE, "discovery")}

Symmetry == Permutations(Requests)
=============================================================================
