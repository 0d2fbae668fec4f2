------------------------- MODULE MCServeResolution -------------------------
(***************************************************************************)
(* A small instance of ServeResolution: a server with a local address, a   *)
(* remote one that is advertised with http and with https, and a relay,    *)
(* beside another server of the same name.                                 *)
(***************************************************************************)
EXTENDS ServeResolution, TLC

CONSTANTS p1, p2,                           \* resolvers
          lan, httpWan, httpsWan, relayed,  \* URIs
          mine, other,                      \* machines
          home                              \* a name

MCUsers == {p1, p2}
MCURIs == {lan, httpWan, httpsWan, relayed}
MCHttps == [u \in MCURIs |-> IF u = httpWan THEN httpsWan ELSE u]

Connection(u) == [uri |-> u, local |-> u = lan, relay |-> u = relayed]
MCConnections == {Connection(u) : u \in MCURIs}

Profile(m, u) == [machine |-> m, name |-> home, url |-> u, local |-> FALSE, relay |-> FALSE]

\* Logged in at the remote address; without endpoint; without identifier.
MCProfiles == {Profile(mine, httpsWan), Profile(mine, NoURI), Profile(NoMachine, httpsWan)}

Resource(m, us) ==
  [machine |-> m, name |-> home, connections |-> [i \in DOMAIN us |-> Connection(us[i])]]

\* All is well; the relay only, beside the other server; the server is absent.
MCSnapshots ==
  {<<Resource(mine, <<relayed, httpWan>>)>>,
   <<Resource(other, <<httpsWan>>), Resource(mine, <<relayed>>)>>,
   <<Resource(other, <<httpsWan>>)>>}

Symmetry == Permutations(MCUsers)
=============================================================================
