------------------------------ MODULE Sharing ------------------------------
(***************************************************************************)
(* sharing remove, update, invite and removed (internal/cli/sharing.go)    *)
(* against the shares Plex.tv keeps (internal/plexauth).  A command is a   *)
(* chain of requests: between two of them another command or another       *)
(* client may change the shares and the libraries, a request may fail, its *)
(* answer may be lost although Plex.tv did as asked, and the command may   *)
(* be interrupted.                                                         *)
(***************************************************************************)
EXTENDS SharingHistory

CONSTANTS Commands,
          Servers,          \* what --server may be: a profile's, a machine or a name
          Profiles,         \* the machine identifier of each configured server
          Requests,         \* [cmd, server, id, requested]: what commands are run with
          ResourceLists,    \* sequences of [machine, name, owned]: what Plex.tv may list
          Libraries,        \* library section IDs, the same of every server
          Users, Home,      \* Home: the users of the owner's Plex Home
          InitialShares,    \* sets of [id, user, owned, machine, pending, grants]
          MaxShares, MaxChanges, MaxRuns, MaxCut, MaxAge,
          NoMachine, NoShare

OwnedMachines == {r.machine : r \in {r \in UNION {ToSet(rs) : rs \in ResourceLists} : r.owned}}

\* What the commands may revoke.
Revocable == [id : 1 .. MaxShares, user : Users, owned : {TRUE}, machine : OwnedMachines,
              pending : BOOLEAN, grants : SUBSET Libraries]

Share(s) == s \in [id : 1 .. MaxShares, user : {s.user}, owned : {s.owned}, machine : {s.machine},
                   pending : {s.pending}, grants : {s.grants}]

\* A machine identifier is of one server.  Older versions recorded shares that
\* are gone, and numbered them upwards.
ASSUME SharingAssumption ==
  /\ MaxShares \in Nat /\ MaxTime \in Nat \ {0}
  /\ Revocable \subseteq Snapshots /\ 0 \in Offsets
  /\ \A rs \in ResourceLists :
       /\ rs \in Seq(ToSet(rs))
       /\ \A i, j \in DOMAIN rs : rs[i].machine = rs[j].machine => i = j
  /\ \A ss \in InitialShares : \A s \in ss :
       Share(s) /\ s.user \in Users /\ s.pending \in BOOLEAN /\ s.grants \subseteq Libraries
  /\ \A rs \in InitialRows :
       /\ rs \subseteq [id : Nat, at : Times, offset : Offsets, share : Snapshots]
       /\ \A r, q \in rs : r.id = q.id => r = q
       /\ \E n \in {0} \cup {r.id : r \in rs} : \A r \in rs : r.id <= n
       /\ \A r \in rs : r.share.id \notin 1 .. MaxShares

VARIABLES
  resources,    \* the servers Plex.tv lists for the account
  shares,       \* the shares Plex.tv lists: two may have the same identifier
  issued,       \* the last identifier Plex.tv has given to a share
  libraries,    \* the libraries at present
  proc,         \* proc[c]: the command c runs
  runs, changes,
  \* of the properties:
  fresh,        \* commands that know their share as it is: see KnowsAgain
  revoked,      \* [share, fresh]: what commands have revoked
  cut,          \* shares whose removal was cut short after the revocation
  purged        \* shares whose record was purged

plexVars == <<resources, shares, issued, libraries>>
ghostVars == <<fresh, revoked, cut, purged>>
vars == <<historyVars, plexVars, proc, runs, changes, ghostVars>>

Idle == [phase |-> "idle", cmd |-> "none", server |-> NoMachine, selector |-> NoMachine, machine |-> NoMachine,
         id |-> 0, snapshot |-> NoShare, requested |-> {}]

Phases == {"idle", "resources", "users", "grants", "libraries", "send", "record"}

SharingTypeOK ==
  /\ HistoryTypeOK
  /\ libraries \subseteq Libraries
  /\ \A s \in shares : s.id \in 1 .. MaxShares /\ s.grants \subseteq Libraries
  /\ \A c \in Commands : /\ proc[c].phase \in Phases
                         /\ proc[c].requested \subseteq Libraries
                         /\ proc[c].phase = "record" => proc[c].snapshot \in Snapshots
  /\ fresh \subseteq Commands
  /\ cut \subseteq 1 .. MaxShares

SharingInit ==
  /\ HistoryInit
  /\ resources \in ResourceLists
  /\ shares \in InitialShares
  /\ issued = Max({0} \cup {s.id : s \in shares})
  /\ libraries = Libraries
  /\ proc = [c \in Commands |-> Idle]
  /\ runs = 0 /\ changes = 0
  /\ fresh = {} /\ revoked = {} /\ cut = {} /\ purged = {}

At(c, cmds, phase) == proc[c].cmd \in cmds /\ proc[c].phase = phase
Become(c, command) == proc' = [proc EXCEPT ![c] = command]
Ends(c) == proc' = [proc EXCEPT ![c] = Idle]

OnlyAsks == UNCHANGED <<historyVars, plexVars, runs, changes, revoked, cut, purged>>

\* Any request may fail or be refused: the command returns the error.
Fails(c) ==
  /\ proc[c].phase \notin {"idle", "record"}
  /\ Ends(c)
  /\ fresh' = fresh \ {c}
  /\ OnlyAsks

(***************************************************************************)
(* Starting.  Dry runs, and remove without --yes, go no further.           *)
(* --libraries names at least one, and no library stands for               *)
(* --all-libraries; an invitation has no share yet.                        *)
(***************************************************************************)
WellFormed(r) ==
  /\ r.cmd \in {"remove", "update", "invite"} /\ r.server \in Servers
  /\ IF r.cmd = "invite" THEN r.id = 0 ELSE r.id \in 1 .. MaxShares
  /\ IF r.cmd = "remove" THEN r.requested = {} ELSE r.requested \in SUBSET Libraries

\* The machine identifier of the configured profile, or else what was given.
SharingInviteProfile(server) ==
  IF server \in DOMAIN Profiles THEN Profiles[server] ELSE server

Begin(c) ==
  /\ proc[c].phase = "idle" /\ runs < MaxRuns
  /\ runs' = runs + 1
  /\ \E r \in Requests :
       /\ WellFormed(r)
       /\ Become(c, [phase |-> "resources", cmd |-> r.cmd, server |-> r.server,
                     selector |-> SharingInviteProfile(r.server), machine |-> NoMachine,
                     id |-> r.id, snapshot |-> NoShare, requested |-> r.requested])
  /\ UNCHANGED <<historyVars, plexVars, changes, ghostVars>>

(***************************************************************************)
(* The selected server must be one, and owned.                             *)
(***************************************************************************)
Matching(selector) ==
  LET byId == Among(resources, {r \in ToSet(resources) : r.machine = selector})
  IN IF byId # <<>> THEN byId ELSE Among(resources, {r \in ToSet(resources) : r.name = selector})

ResolveOwnedResource(selector) ==
  LET matches == Matching(selector)
  IN IF Len(matches) = 1 /\ matches[1].owned THEN matches[1].machine ELSE NoMachine

ResolveServer(c) ==
  LET machine == ResolveOwnedResource(proc[c].selector) IN
  /\ proc[c].phase = "resources"
  /\ machine # NoMachine
  /\ Become(c, [proc[c] EXCEPT !.machine = machine,
                               !.phase = IF proc[c].cmd = "invite" THEN "libraries" ELSE "users"])
  /\ UNCHANGED fresh
  /\ OnlyAsks

(***************************************************************************)
(* The share must be listed once, owned, external, on that server.         *)
(***************************************************************************)
TrustsTheIdentifier(machine, id) == {s \in shares : s.id = id /\ s.user \notin Home /\ s.owned}
FindExternalOwnedShare(machine, id) ==
  {s \in shares : /\ s.id = id /\ s.machine = machine /\ s.owned /\ s.user \notin Home
                  /\ \A t \in shares : t.id = id => t = s}

FindShare(c) ==
  /\ At(c, {"remove", "update"}, "users")
  /\ \E s \in FindExternalOwnedShare(proc[c].machine, proc[c].id) :
       Become(c, [proc[c] EXCEPT !.snapshot = s,
                                 !.phase = IF proc[c].cmd = "remove" THEN "grants" ELSE "libraries"])
  /\ fresh' = fresh \cup {c}
  /\ OnlyAsks

\* sharing users: a share whose server is listed no longer is left out.
SharingUsers == {s \in shares : /\ s.user \notin Home /\ s.owned
                                /\ ResolveOwnedResource(s.machine) # NoMachine}

\* The share as Plex.tv has it now; a request about one it no longer has fails.
Addressed(c) == {s \in shares : s.id = proc[c].id /\ s.machine = proc[c].machine}

\* Once the grants are read anew, a command knows the share as it is unless
\* something else of it changed since it was listed.
KnowsAgain(c, s) ==
  fresh' = fresh \cup {d \in {c} : [proc[d].snapshot EXCEPT !.grants = s.grants] = s}

\* Mutation: the grants the listing of users showed are recorded.
KeepsListedGrants(c) ==
  /\ At(c, {"remove"}, "grants")
  /\ \E s \in Addressed(c) : Become(c, [proc[c] EXCEPT !.phase = "send"]) /\ KnowsAgain(c, s)
  /\ OnlyAsks

\* The grants come from a request of their own, and replace what was listed.
SharedServerSections(c) ==
  /\ At(c, {"remove"}, "grants")
  /\ \E s \in Addressed(c) :
       /\ Become(c, [proc[c] EXCEPT !.snapshot.grants = s.grants, !.phase = "send"])
       /\ KnowsAgain(c, s)
  /\ OnlyAsks

Requested(c) == IF proc[c].requested = {} THEN libraries ELSE proc[c].requested

\* An unknown library is refused, and an empty set of grants is never sent.
ValidateLibraryIDs(requested) == requested # {} /\ requested \subseteq libraries

ServerLibraries(c) ==
  /\ At(c, {"update", "invite"}, "libraries")
  /\ ValidateLibraryIDs(Requested(c))
  /\ Become(c, [proc[c] EXCEPT !.requested = Requested(c), !.phase = "send"])
  /\ UNCHANGED fresh
  /\ OnlyAsks

(***************************************************************************)
(* The request that changes something.  Of update and invite the command   *)
(* ends whether the answer arrives or not.                                 *)
(***************************************************************************)
Touches(c) == fresh' = {d \in fresh \ {c} : proc[d].id # proc[c].id}

RemoveShare(c) ==
  /\ At(c, {"remove"}, "send")
  /\ Addressed(c) # {}
  /\ shares' = shares \ Addressed(c)
  /\ revoked' = revoked \cup {[share |-> s, fresh |-> c \in fresh] : s \in Addressed(c)}
  /\ Touches(c)
  /\ \/ Become(c, [proc[c] EXCEPT !.phase = "record"]) /\ UNCHANGED cut
     \/ Ends(c) /\ cut' = cut \cup {proc[c].id} /\ Cardinality(cut') <= MaxCut
  /\ UNCHANGED <<historyVars, resources, issued, libraries, runs, changes, purged>>

UpdateShare(c) ==
  /\ At(c, {"update"}, "send")
  /\ Addressed(c) # {}
  /\ shares' = {IF s \in Addressed(c) THEN [s EXCEPT !.grants = proc[c].requested] ELSE s : s \in shares}
  /\ Touches(c)
  /\ Ends(c)
  /\ UNCHANGED <<historyVars, resources, issued, libraries, runs, changes, revoked, cut, purged>>

\* Plex.tv answers 409 or 422 when the user has a share of the server.
Invite(c) ==
  LET id == issued + 1 IN
  /\ At(c, {"invite"}, "send")
  /\ id <= MaxShares
  /\ issued' = id
  /\ \E u \in Users :
       /\ \A s \in shares : s.user # u \/ s.machine # proc[c].machine
       /\ shares' = shares \cup {[id |-> id, user |-> u, owned |-> TRUE, pending |-> TRUE,
                                  machine |-> proc[c].machine, grants |-> proc[c].requested]}
  /\ Ends(c)
  /\ UNCHANGED <<historyVars, resources, libraries, runs, changes, ghostVars>>

(***************************************************************************)
(* The record, after the share was revoked.                                *)
(***************************************************************************)
Recording(c) == At(c, {"remove"}, "record")

RecordsAccepted(c) ==
  /\ Recording(c)
  /\ IF proc[c].snapshot.pending THEN UNCHANGED historyVars ELSE AppendRecord(proc[c].snapshot, TRUE)
  /\ Ends(c)
  /\ UNCHANGED <<plexVars, runs, changes, ghostVars>>
RecordRemoval(c) ==
  /\ Recording(c)
  /\ AppendRecord(proc[c].snapshot, TRUE)
  /\ Ends(c)
  /\ UNCHANGED <<plexVars, runs, changes, ghostVars>>

\* "Plex share revocation succeeded but local history recording failed" (the
\* file, a lock of another process, the end of the command's context), or the
\* command was interrupted before it could record.
RecordingCut(c) ==
  /\ Recording(c)
  /\ AppendRecord(proc[c].snapshot, FALSE)
  /\ Ends(c)
  /\ cut' = cut \cup {proc[c].id} /\ Cardinality(cut') <= MaxCut
  /\ UNCHANGED <<plexVars, runs, changes, fresh, revoked, purged>>

(***************************************************************************)
(* The commands of the history alone, one step each.                       *)
(***************************************************************************)
RemovedPurge ==
  /\ \E age \in 1 .. MaxAge, ok \in BOOLEAN : PurgeBefore(clock - age, ok)
  /\ purged' = purged \cup {r.share.id : r \in {r \in rows : \A s \in rows' : s.id # r.id}}
  /\ UNCHANGED <<plexVars, proc, runs, changes, fresh, revoked, cut>>

RemovedList ==
  /\ \E ok \in BOOLEAN : List(ok)
  /\ UNCHANGED <<plexVars, proc, runs, changes, ghostVars>>

(***************************************************************************)
(* What others do: another client edits, accepts or removes a share, a     *)
(* library comes or goes, time passes.                                     *)
(***************************************************************************)
OthersEdit(s) ==
  /\ \/ shares' = shares \ {s}
     \/ s.pending /\ shares' = (shares \ {s}) \cup {[s EXCEPT !.pending = FALSE]}
     \/ \E g \in SUBSET libraries \ {s.grants} :
          shares' = (shares \ {s}) \cup {[s EXCEPT !.grants = g]}
  /\ fresh' = {c \in fresh : proc[c].id # s.id}
  /\ UNCHANGED libraries

LibraryChanges(l) ==
  /\ libraries' = IF l \in libraries THEN libraries \ {l} ELSE libraries \cup {l}
  /\ UNCHANGED <<shares, fresh>>

OthersChange ==
  /\ changes < MaxChanges
  /\ changes' = changes + 1
  /\ (\E s \in shares : OthersEdit(s)) \/ (\E l \in Libraries : LibraryChanges(l))
  /\ UNCHANGED <<historyVars, resources, issued, proc, runs, revoked, cut, purged>>

Tick ==
  /\ clock < MaxTime
  /\ clock' = clock + 1
  /\ UNCHANGED <<rows, database, plexVars, proc, runs, changes, ghostVars>>

CommandStep(c) ==
  \/ Begin(c) \/ ResolveServer(c) \/ FindShare(c) \/ SharedServerSections(c) \/ ServerLibraries(c)
  \/ RemoveShare(c) \/ UpdateShare(c) \/ Invite(c)
  \/ RecordRemoval(c) \/ RecordingCut(c) \/ Fails(c)

SharingNext ==
  \/ RemovedPurge \/ RemovedList
  \/ OthersChange \/ Tick
  \/ \E c \in Commands : CommandStep(c)

Spec == SharingInit /\ [][SharingNext]_vars

(***************************************************************************)
(* What the commands promise.                                              *)
(***************************************************************************)
NewRows == {r \in rows : r.share.id \in 1 .. MaxShares}

\* "A redacted snapshot of a successfully removed external share"
\* (history.go:39): a record is about a share a command has revoked, there is
\* one per share, and it says what the share was when it was revoked.  Only a
\* change in the last interval can escape it: of the grants between the request
\* for them (sharing.go:319) and the revocation (:323), of the rest since the
\* share was listed (:311).
RecordsAreRevocations ==
  \A r \in NewRows :
    /\ \E v \in revoked : v.share.id = r.share.id /\ (v.fresh => v.share = r.share)
    /\ \A q \in NewRows : q.share.id = r.share.id => q = r

\* Every share a command revoked (sharing.go:323) has its record, had it
\* purged, is about to get it, or lost it to a command that was cut short
\* between the revocation and the record.
RevocationsAreRecorded ==
  \A v \in revoked : \/ v.share.id \in cut \cup purged
                     \/ \E r \in NewRows : r.share.id = v.share.id
                     \/ \E c \in Commands : Recording(c) /\ proc[c].id = v.share.id

\* The selector names this machine and no other.
NamedAlone(selector, machine) ==
  \E r \in ToSet(resources) :
    /\ r.machine = machine /\ r.owned
    /\ \/ machine = selector
       \/ \A q \in ToSet(resources) : r.name = selector /\ (q.name = selector => q = r)

\* What a command revokes, replaces or adds is on the owned server its
\* selector names alone, and what it revokes or replaces is the one share with
\* that identifier, which `sharing users` would list (client.go:562, :599,
\* sharing.go:166), whatever changed between the command's requests.
OnlySelectedShares ==
  [][\A c \in Commands : proc[c].phase = "send" /\ proc'[c] # proc[c] =>
       /\ shares' # shares => NamedAlone(proc[c].selector, proc[c].machine)
       /\ \A s \in shares' \ shares : s.machine = proc[c].machine /\ s.grants # {}
       /\ \A s \in shares \ shares' : /\ s.machine = proc[c].machine /\ s.id = proc[c].id
                                      /\ s.user = proc[c].snapshot.user
                                      /\ s \in SharingUsers]_vars
=============================================================================
