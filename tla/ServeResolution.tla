-------------------------- MODULE ServeResolution --------------------------
(***************************************************************************)
(* What a resolver of `plexctl serve` does for one configured profile      *)
(* (internal/cli/root.go: resolveServeMonitorTargetWithRefresh and the     *)
(* functions it calls): probe durable candidates and the profile's own     *)
(* endpoint, then what Plex.tv advertises, and remember what validated.    *)
(*                                                                         *)
(* A connection is advertised with a URI and probed at its Endpoint, which *)
(* for a direct remote one is the URI with https for http.  A probe ends   *)
(* with the machine identifier that answered.  Several resolvers of one    *)
(* process work on the profile at a time: forced and normal ones, and      *)
(* abandoned ones that have not ended.  The process may crash and restart. *)
(***************************************************************************)
EXTENDS ConnectionCache, SequencesExt

CONSTANTS URIs,
          Machines,             \* machine identifiers
          Https,                \* Https[u]: u with https for http
          Profiles,             \* the server profiles to check
          Snapshots,            \* what discovery may return: sequences of resources
          MaxServeCandidates,
          NoURI, NoMachine      \* empty strings

ASSUME ServeResolutionAssumption ==
  /\ Https \in [URIs -> URIs]
  /\ MaxServeCandidates \in Nat \ {0}
  /\ \A c \in Connections : c.uri \in URIs /\ c.local \in BOOLEAN /\ c.relay \in BOOLEAN
  /\ NoURI \notin URIs
  /\ NoMachine \notin Machines
  /\ \A prof \in Profiles :
       /\ prof.machine \in Machines \cup {NoMachine}
       /\ prof.url # NoURI => [uri |-> prof.url, local |-> prof.local, relay |-> prof.relay] \in Connections
  /\ \A snapshot \in Snapshots :
       /\ snapshot \in Seq(ToSet(snapshot))
       /\ \A r \in ToSet(snapshot) : r.machine \in Machines /\ r.connections \in Seq(Connections)

Resolvers == Users

VARIABLES
  profile,    \* the configured profile
  pc,         \* pc[p]: where resolver p is
  ctx,        \* ctx[p]: the work context of p's call
  todo,       \* todo[p]: connections still to probe
  expected,   \* expected[p]: the machine identifier they must answer with
  tried,      \* tried[p]: the candidates probed so far, until discovery has answered
  chosen,     \* chosen[p]: the connection that validated
  err,        \* err[p]: how p ended, as the monitor tells errors apart
  validated   \* the endpoints that have answered as the profile's machine

resolverVars == <<pc, ctx, todo, expected, tried, chosen, err>>
vars == <<storeVars, profile, resolverVars, validated>>

Errors == {"none", "discovery", "deadline", "canceled", "config"}

ServeTypeOK ==
  /\ StoreTypeOK
  /\ profile \in Profiles
  /\ pc \in [Resolvers -> {"idle", "cached", "discovering", "advertised", "putting",
                           "saving", "done"}]
  /\ ctx \in [Resolvers -> {"live", "deadline", "canceled"}]
  /\ expected \in [Resolvers -> Machines \cup {NoMachine}]
  /\ chosen \in [Resolvers -> Connections \cup {NoConnection}]
  /\ err \in [Resolvers -> Errors]
  /\ validated \subseteq URIs

\* normalizeDiscoveredConnection
Endpoint(c) == IF c.local \/ c.relay THEN c.uri ELSE Https[c.uri]

Init ==
  /\ StoreInit
  /\ profile \in Profiles
  /\ pc = [p \in Resolvers |-> "idle"]
  /\ ctx = [p \in Resolvers |-> "live"]
  /\ todo = [p \in Resolvers |-> <<>>]
  /\ expected = [p \in Resolvers |-> NoMachine]
  /\ tried = [p \in Resolvers |-> <<>>]
  /\ chosen = [p \in Resolvers |-> NoConnection]
  /\ err = [p \in Resolvers |-> "none"]
  /\ validated = {Endpoint(c) : c \in {file.current} \ {NoConnection}}

----------------------------------------------------------------------------
(* serveCandidates *)

ProfileConnection(prof) == [uri |-> prof.url, local |-> prof.local, relay |-> prof.relay]

HasURI(cs, uri) == \E i \in DOMAIN cs : cs[i].uri = uri

\* Mutation: no slot is kept for the profile's endpoint.
NoRoomKept(acc) == Len(acc.list) = MaxServeCandidates

\* The last slot is kept for the profile's endpoint while that is pending.
NoRoom(acc) == Len(acc.list) = MaxServeCandidates - (IF acc.pending THEN 1 ELSE 0)

\* Mutation: a cached endpoint of the profile does not count as its probe.
NeverProfile(acc, c, prof) == FALSE

IsProfile(acc, c, prof) == acc.pending /\ c.uri = prof.url

Consider(acc, c, prof) ==
  CASE HasURI(acc.list, c.uri) -> acc
    [] IsProfile(acc, c, prof) -> [list |-> Append(acc.list, c), pending |-> FALSE]
    [] ~IsProfile(acc, c, prof) /\ NoRoom(acc) -> acc
    [] OTHER -> [acc EXCEPT !.list = Append(@, c)]

\* What is selected after i of the cached connections.
Considered(cached, prof) ==
  LET acc[i \in 0 .. Len(cached)] ==
        IF i = 0 THEN [list |-> <<>>, pending |-> prof.url # NoURI]
        ELSE Consider(acc[i - 1], cached[i], prof)
  IN acc

ServeCandidates(cached, prof) ==
  LET seen == Considered(cached, prof)[Len(cached)]
  IN  IF seen.pending /\ Len(seen.list) < MaxServeCandidates
      THEN Append(seen.list, ProfileConnection(prof))
      ELSE seen.list

----------------------------------------------------------------------------
(* Up to discovery: resolveCachedServeTarget *)

Goto(p, l) == pc' = [pc EXCEPT ![p] = l]

\* The call returns; what it worked with is gone.
Return(p, e) ==
  /\ Goto(p, "done")
  /\ err' = [err EXCEPT ![p] = e]
  /\ ctx' = [ctx EXCEPT ![p] = "live"]
  /\ todo' = [todo EXCEPT ![p] = <<>>]
  /\ expected' = [expected EXCEPT ![p] = NoMachine]
  /\ tried' = [tried EXCEPT ![p] = <<>>]
  /\ chosen' = [chosen EXCEPT ![p] = NoConnection]

\* The configuration, the selector, the account or its credential is missing.
ConfigFails(p) ==
  /\ pc[p] = "idle"
  /\ Return(p, "config")
  /\ UNCHANGED <<storeVars, profile, validated>>

ReadCandidates(p) ==
  /\ pc[p] = "idle"
  /\ profile.machine # NoMachine
  /\ \E cs \in {CandidatesOf(file), <<>>} :
       /\ Candidates(cs)
       /\ todo' = [todo EXCEPT ![p] = ServeCandidates(cs, profile)]
  /\ expected' = [expected EXCEPT ![p] = profile.machine]
  /\ Goto(p, "cached")
  /\ UNCHANGED <<profile, ctx, tried, chosen, err, validated>>

\* A profile without machine identifier cannot validate a candidate.
SkipCandidates(p) ==
  /\ pc[p] = "idle"
  /\ profile.machine = NoMachine
  /\ Goto(p, "discovering")
  /\ UNCHANGED <<storeVars, profile, ctx, todo, expected, tried, chosen, err, validated>>

\* Who answers a probe: a machine or, always once the context has ended, none.
Answerers(p) == {NoMachine} \cup (IF ctx[p] = "live" THEN Machines ELSE {})

\* Mutation: any machine that answers will do.
AnyAnswer(p, m) == m # NoMachine

Validates(p, m) == m # NoMachine /\ m = expected[p]

\* The first connection of todo is probed, by the identity request.
Probe(p, m) ==
  /\ todo[p] # <<>>
  /\ m \in Answerers(p)
  /\ validated' = IF m \in {profile.machine} \ {NoMachine}
                  THEN validated \cup {Endpoint(Head(todo[p]))}
                  ELSE validated

ProbeFails(p, m) ==
  /\ ~Validates(p, m)
  /\ todo' = [todo EXCEPT ![p] = Tail(@)]
  /\ UNCHANGED <<storeVars, profile, pc, ctx, expected, chosen, err>>

ProbeValidates(p, m) ==
  /\ Validates(p, m)
  /\ chosen' = [chosen EXCEPT ![p] = Head(todo[p])]
  /\ todo' = [todo EXCEPT ![p] = <<>>]
  /\ tried' = [tried EXCEPT ![p] = <<>>]
  /\ Goto(p, "putting")
  /\ UNCHANGED <<storeVars, profile, ctx, expected, err>>

ProbeCandidate(p) ==
  /\ pc[p] = "cached"
  /\ \E m \in Machines \cup {NoMachine} :
       /\ Probe(p, m)
       /\ \/ ProbeValidates(p, m)
          \/ ProbeFails(p, m) /\ tried' = [tried EXCEPT ![p] = Append(@, Head(todo[p]))]

CandidatesFailed(p) ==
  /\ pc[p] = "cached" /\ todo[p] = <<>>
  /\ Goto(p, "discovering")
  /\ UNCHANGED <<storeVars, profile, ctx, todo, expected, tried, chosen, err, validated>>

----------------------------------------------------------------------------
(* Discovery *)

Matches(r) ==
  IF profile.machine # NoMachine THEN r.machine = profile.machine ELSE r.name = profile.name

MatchingServeResources(snapshot) == Among(snapshot, {r \in ToSet(snapshot) : Matches(r)})

\* orderedConnections: local, then remote, then relay.
OrderedConnections(cs) ==
  Among(cs, {c \in Connections : c.local /\ ~c.relay})
    \o Among(cs, {c \in Connections : ~c.local /\ ~c.relay})
    \o Among(cs, {c \in Connections : c.relay})

\* The snapshot cache returns an error: its refresh's, which may have run out of
\* its own 30 seconds, or the context's.
DiscoveryFails(p) ==
  \E e \in {"discovery", "deadline"} \cup ({ctx[p]} \ {"live"}) : Return(p, e)

\* The previous snapshot is looked at when the present one lacks the server.
DiscoverySucceeds(p) ==
  \E now \in Snapshots, before \in Snapshots \cup {<<>>} :
    LET found == MatchingServeResources(now)
        matches == IF found # <<>> THEN found ELSE MatchingServeResources(before)
    IN  IF Len(matches) # 1
        THEN Return(p, "discovery")
        ELSE /\ todo' = [todo EXCEPT ![p] = OrderedConnections(matches[1].connections)]
             /\ expected' = [expected EXCEPT ![p] = matches[1].machine]
             /\ tried' = [tried EXCEPT ![p] = <<>>]
             /\ Goto(p, "advertised")
             /\ UNCHANGED <<ctx, chosen, err>>

Discover(p) ==
  /\ pc[p] = "discovering"
  /\ DiscoveryFails(p) \/ DiscoverySucceeds(p)
  /\ UNCHANGED <<storeVars, profile, validated>>

\* What validates is not remembered for a profile without machine identifier.
ProbeAdvertised(p) ==
  /\ pc[p] = "advertised"
  /\ \E m \in Machines \cup {NoMachine} :
       /\ Probe(p, m)
       /\ \/ ProbeFails(p, m) /\ UNCHANGED tried
          \/ profile.machine # NoMachine /\ ProbeValidates(p, m)
          \/ /\ profile.machine = NoMachine /\ Validates(p, m)
             /\ Return(p, "none")
             /\ UNCHANGED <<storeVars, profile>>

\* validatedConnection's error does not wrap the context's.
AdvertisedFailed(p) ==
  /\ pc[p] = "advertised" /\ todo[p] = <<>>
  /\ Return(p, "discovery")
  /\ UNCHANGED <<storeVars, profile, validated>>

----------------------------------------------------------------------------
(* Remembering what validated; a failure to do so is ignored *)

\* Mutation: a connection that cannot be remembered is not returned.
RememberOrFail(p) ==
  \/ /\ pc[p] = "putting"
     /\ PutLoad(p)
     /\ Goto(p, "saving")
     /\ UNCHANGED <<profile, ctx, todo, expected, tried, chosen, err, validated>>
  \/ /\ pc[p] = "saving"
     /\ \/ PutSave(p, chosen[p]) /\ Return(p, "none")
        \/ PutFails(p) /\ Return(p, "discovery")
     /\ UNCHANGED <<profile, validated>>

Remember(p) ==
  \/ /\ pc[p] = "putting"
     /\ PutLoad(p)
     /\ Goto(p, "saving")
     /\ UNCHANGED <<profile, ctx, todo, expected, tried, chosen, err, validated>>
  \/ /\ pc[p] = "saving"
     /\ PutSave(p, chosen[p]) \/ PutFails(p)
     /\ Return(p, "none")
     /\ UNCHANGED <<profile, validated>>

----------------------------------------------------------------------------
(* The environment of a resolver *)

\* The resolver's context times out or is cancelled by the monitor.
ContextEnds(p) ==
  /\ pc[p] \notin {"idle", "done"}
  /\ ctx[p] = "live"
  /\ \E cause \in {"deadline", "canceled"} : ctx' = [ctx EXCEPT ![p] = cause]
  /\ UNCHANGED <<storeVars, profile, pc, todo, expected, tried, chosen, err, validated>>

\* The monitor asks again.
Again(p) ==
  /\ pc[p] = "done"
  /\ Goto(p, "idle")
  /\ err' = [err EXCEPT ![p] = "none"]
  /\ UNCHANGED <<storeVars, profile, ctx, todo, expected, tried, chosen, validated>>

\* The process ends at any point and is started again.
Crash ==
  /\ StoreCrash
  /\ pc' = [p \in Resolvers |-> "idle"]
  /\ ctx' = [p \in Resolvers |-> "live"]
  /\ todo' = [p \in Resolvers |-> <<>>]
  /\ expected' = [p \in Resolvers |-> NoMachine]
  /\ tried' = [p \in Resolvers |-> <<>>]
  /\ chosen' = [p \in Resolvers |-> NoConnection]
  /\ err' = [p \in Resolvers |-> "none"]
  /\ UNCHANGED <<profile, validated>>

Resolve(p) ==
  \/ ConfigFails(p)
  \/ ReadCandidates(p)
  \/ SkipCandidates(p)
  \/ ProbeCandidate(p)
  \/ CandidatesFailed(p)
  \/ Discover(p)
  \/ ProbeAdvertised(p)
  \/ AdvertisedFailed(p)
  \/ Remember(p)

Next ==
  \/ \E p \in Resolvers : Resolve(p) \/ ContextEnds(p) \/ Again(p)
  \/ Crash

Spec == Init /\ [][Next]_vars

----------------------------------------------------------------------------
(* Properties *)

\* Before discovery at most three candidates are probed, no URI twice, however
\* the durable cache is filled (docs/monitoring.md, step 3).
ProbesAreBounded ==
  \A p \in Resolvers :
    /\ Len(tried[p]) + (IF pc[p] = "cached" THEN Len(todo[p]) ELSE 0) <= MaxServeCandidates
    /\ \A i, j \in DOMAIN tried[p] : i # j => tried[p][i].uri # tried[p][j].uri

\* No resolver turns to Plex.tv before it has tried the profile's own endpoint,
\* although cached candidates compete for the same three probes
\* (serveCandidates' comment: it "always receives one probe").
ProfileIsTried ==
  \A p \in Resolvers :
    pc[p] = "discovering" /\ profile.machine # NoMachine /\ profile.url # NoURI
      => HasURI(tried[p], profile.url)

\* Whatever is cached, advertised or left by an earlier process, serve uses and
\* remembers a connection only after the profile's machine answered there.
OnlyValidatedIsUsed ==
  /\ \A c \in ToSet(WithCurrent(file)) : Endpoint(c) \in validated
  /\ \A p \in Resolvers : chosen[p] # NoConnection => Endpoint(chosen[p]) \in validated

\* A connection that validated in this call settles it: although its context may
\* end, another resolver may hold the durable cache and the write may fail, the
\* resolver returns no error (root.go:1797, :1902 ignore Put's) unless the
\* process crashes.  And it returns none without a connection that validated in
\* this call, however recently another one did.
ValidationSettles ==
  [][\A p \in Resolvers :
       /\ (chosen[p] # NoConnection) =>
            \/ chosen'[p] = chosen[p]
            \/ pc'[p] = "done" /\ err'[p] = "none"
            \/ pc'[p] = "idle"
       /\ (pc[p] # "done" /\ pc'[p] = "done" /\ err'[p] = "none") =>
            (chosen[p] # NoConnection \/ profile.machine = NoMachine)]_vars

\* With concurrent resolvers, failing writes and crashes between the read and
\* the rename, the durable cache is the list of the last connections put.
Recent == INSTANCE RecentConnections WITH offered <- CandidatesOf(file)
CacheIsRecent == Recent!RecentSpec

----------------------------------------------------------------------------
(* What the documentation says and the code does not do *)

\* docs/monitoring.md:56-57: "Within that pre-discovery sequence, never probe
\* the same URI twice".
NoEndpointTwice ==
  \A p \in Resolvers : \A i, j \in DOMAIN tried[p] :
    i # j => Endpoint(tried[p][i]) # Endpoint(tried[p][j])

\* internal/cli/root.go:1915-1916: terminal context causes are preserved "so the
\* monitor can avoid retrying work that already exceeded its detached resolution
\* budget".
TerminalCauseIsKept ==
  [][\A p \in Resolvers :
       pc[p] = "advertised" /\ ctx[p] # "live" /\ pc'[p] = "done" => err'[p] = ctx[p]]_vars
=============================================================================
