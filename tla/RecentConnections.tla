------------------------- MODULE RecentConnections -------------------------
(***************************************************************************)
(* What the durable connection cache promises serve's resolvers            *)
(* (internal/connectioncache/cache.go, Candidates: "the newest validated   *)
(* connections first"): a short list of connections with different URIs,   *)
(* the one that was put last in front.                                     *)
(***************************************************************************)
EXTENDS Selections

CONSTANTS Connections,    \* records with a uri
          MaxCandidates

VARIABLE offered   \* what Candidates returns

HaveOtherURIs(cs) == \A i, j \in DOMAIN cs : i # j => cs[i].uri # cs[j].uri

RecentInit ==
  \E n \in 0 .. MaxCandidates : offered \in [1 .. n -> Connections] /\ HaveOtherURIs(offered)

AtOtherURIs == [c \in Connections |-> {d \in Connections : d.uri # c.uri}]

\* c moves or comes to the front; what no longer fits is forgotten.
Learn(c) ==
  LET others == Among(offered, AtOtherURIs[c])
      room == MaxCandidates - 1
  IN  offered' = <<c>> \o SubSeq(others, 1, IF Len(others) < room THEN Len(others) ELSE room)

RecentSpec == RecentInit /\ [][\E c \in Connections : Learn(c)]_offered
=============================================================================
