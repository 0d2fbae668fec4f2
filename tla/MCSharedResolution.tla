------------------------- MODULE MCSharedResolution -------------------------
(***************************************************************************)
(* Small instances of SharedResolution: callers that enter once each.      *)
(***************************************************************************)
EXTENDS SharedResolution, TLC

CONSTANTS r1, r2, r3,       \* callers
          sf,               \* a selector
          p                 \* its profile

MCRequests == {r1, r2, r3}
MCSelectors == {sf}
MCTargets == {p}
MCProfileOf == [s \in Selectors |-> p]

\* A success, and the failure of work whose context was cancelled.
MCAnswers ==
  {[target |-> p, client |-> TRUE, err |-> "none"],
   [target |-> p, client |-> FALSE, err |-> "canceled"]}

Symmetry == Permutations(Requests)
=============================================================================
