---------------------------- MODULE SharingProofs ----------------------------
(***************************************************************************)
(* What is recorded was revoked, what was revoked is recorded, and nothing *)
(* but the selected share is touched, for any number of commands, shares,  *)
(* servers and libraries, however Plex.tv, the history database and other  *)
(* commands behave between two requests.                                   *)
(***************************************************************************)
EXTENDS Sharing, SelectionsProofs, TLAPS

(***************************************************************************)
(* The inductive invariant.                                                *)
(***************************************************************************)
Command(p) ==
  p \in [phase : Phases, cmd : {"none", "remove", "update", "invite"}, server : {p.server},
         selector : {p.selector}, machine : {p.machine}, id : 0 .. MaxShares,
         snapshot : {p.snapshot}, requested : {p.requested}]

RowsOK(rs) ==
  /\ \A r \in rs : r \in [id : Nat, at : {r.at}, offset : {r.offset}, share : {r.share}]
  /\ \A r, q \in rs : r.id = q.id => r = q
  /\ \E n \in Nat : \A r \in rs : r.id <= n

StateOK ==
  /\ DOMAIN proc = Commands
  /\ \A c \in Commands : Command(proc[c])
  /\ \A s \in shares : Share(s)
  /\ \A v \in revoked : v \in [share : {v.share}, fresh : {v.fresh}] /\ Share(v.share)
  /\ RowsOK(rows)
  /\ issued \in Nat
  /\ \A s \in shares : s.id <= issued
  /\ \A v \in revoked : v.share.id <= issued

Found(c) ==
  /\ proc[c].cmd \in {"remove", "update"}
  /\ proc[c].phase \in {"grants", "libraries", "send", "record"}

\* Plex.tv listed the share once, and no later share takes its identifier.
FoundOnce ==
  \A c \in Commands : Found(c) =>
    /\ Share(proc[c].snapshot) /\ proc[c].snapshot.id = proc[c].id
    /\ \A s, t \in shares : s.id = proc[c].id /\ t.id = proc[c].id => s = t

FreshIsTrue ==
  \A c \in fresh :
    c \in Commands /\ Found(c) /\ proc[c].phase # "record" /\ proc[c].snapshot \in shares

RevokedIsGone == \A v \in revoked, s \in shares : s.id # v.share.id

RecordingIsRevoked ==
  \A c \in Commands : Recording(c) =>
    \E v \in revoked : v.share.id = proc[c].id /\ (v.fresh => v.share = proc[c].snapshot)

\* Two commands never record the same share, and none records it again.
RecordingOnce ==
  \A c \in Commands : Recording(c) =>
    /\ \A d \in Commands : Recording(d) /\ proc[d].id = proc[c].id => d = c
    /\ \A r \in NewRows : r.share.id # proc[c].id

SharingInv ==
  /\ StateOK
  /\ FoundOnce /\ FreshIsTrue /\ RevokedIsGone
  /\ RecordingIsRevoked /\ RecordingOnce
  /\ RecordsAreRevocations /\ RevocationsAreRecorded

(***************************************************************************)
(* Numbers.                                                                *)
(***************************************************************************)
LEMMA MaxExists ==
  ASSUME NEW S \in SUBSET Nat, S # {}, NEW b \in Nat, \A x \in S : x <= b
  PROVE  Max(S) \in S /\ \A x \in S : x <= Max(S)
<1> DEFINE U == {n \in Nat : \A x \in S : x <= n}
<1>1. PICK m \in U : \A n \in U : m <= n
  <2>1. U \in SUBSET Nat /\ U # {} OBVIOUS
  <2> QED BY <2>1, SmallestOf
<1>2. m \in S
  <2>1. SUFFICES ASSUME m \notin S PROVE FALSE OBVIOUS
  <2>2. m \in Nat /\ \A x \in S : x < m BY <1>1, <2>1
  <2>3. PICK x \in S : TRUE OBVIOUS
  <2>4. m - 1 \in U BY <2>2, <2>3
  <2> QED BY <1>1, <2>2, <2>4
<1> QED BY <1>1, <1>2 DEF Max

\* A new row has a number of its own.
LEMMA NextIdIsNew ==
  ASSUME NEW rs, RowsOK(rs)
  PROVE  NextId(rs) \in Nat /\ \A r \in rs : r.id < NextId(rs)
<1> DEFINE S == {0} \cup {r.id : r \in rs}
<1>1. PICK n \in Nat : \A r \in rs : r.id <= n BY DEF RowsOK
<1>2. S \in SUBSET Nat /\ S # {} /\ \A x \in S : x <= n BY <1>1 DEF RowsOK
<1>3. Max(S) \in S /\ \A x \in S : x <= Max(S)
  <2> HIDE DEF S
  <2> QED BY <1>2, MaxExists
<1>4. NextId(rs) = 1 + Max(S) BY DEF NextId
<1>5. Max(S) \in Nat BY <1>2, <1>3
<1>6. ASSUME NEW r \in rs PROVE r.id \in Nat /\ r.id <= Max(S) BY <1>3 DEF RowsOK
<1> HIDE DEF S
<1> QED BY <1>4, <1>5, <1>6

(***************************************************************************)
(* The table.                                                              *)
(***************************************************************************)
SameRecords(rs, qs) == \A q \in qs : \E r \in rs : q.id = r.id /\ q.share = r.share

LEMMA NormalizingKeepsRecords ==
  ASSUME NEW rs, RowsOK(rs)
  PROVE  /\ RowsOK(NormalizeTimestamps(rs))
         /\ SameRecords(rs, NormalizeTimestamps(rs)) /\ SameRecords(NormalizeTimestamps(rs), rs)
<1>1. \A r \in rs : /\ [r EXCEPT !.offset = 0] \in [id : Nat, at : {r.at}, offset : {0}, share : {r.share}]
                    /\ [r EXCEPT !.offset = 0].id = r.id
                    /\ [r EXCEPT !.offset = 0].at = r.at
                    /\ [r EXCEPT !.offset = 0].offset = 0
                    /\ [r EXCEPT !.offset = 0].share = r.share
  BY DEF RowsOK
<1>2. SameRecords(rs, NormalizeTimestamps(rs)) /\ SameRecords(NormalizeTimestamps(rs), rs)
  BY <1>1 DEF SameRecords, NormalizeTimestamps
<1>3. \A q \in NormalizeTimestamps(rs) : q \in [id : Nat, at : {q.at}, offset : {q.offset}, share : {q.share}]
  BY <1>1 DEF NormalizeTimestamps
<1>4. \A q, p \in NormalizeTimestamps(rs) : q.id = p.id => q = p
  BY <1>1 DEF NormalizeTimestamps, RowsOK
<1>5. PICK n \in Nat : \A r \in rs : r.id <= n BY DEF RowsOK
<1>6. \A q \in NormalizeTimestamps(rs) : q.id <= n BY <1>1, <1>5 DEF NormalizeTimestamps
<1> QED BY <1>2, <1>3, <1>4, <1>6 DEF RowsOK

LEMMA FewerRows ==
  ASSUME NEW rs, NEW qs, RowsOK(rs), qs \subseteq rs
  PROVE  RowsOK(qs) /\ SameRecords(rs, qs)
BY DEF RowsOK, SameRecords

(***************************************************************************)
(* A command goes on without changing a share or a row.                    *)
(***************************************************************************)
FoundBy(p) == p.cmd \in {"remove", "update"} /\ p.phase \in {"grants", "libraries", "send"}

LEMMA OneCommandChanges ==
  ASSUME DOMAIN proc = Commands, NEW c \in Commands, NEW p, Become(c, p)
  PROVE  /\ DOMAIN proc' = Commands
         /\ proc'[c] = p
         /\ \A d \in Commands \ {c} : proc'[d] = proc[d]
BY DEF Become

LEMMA AskingKeepsInv ==
  ASSUME SharingInv, NEW c \in Commands, NEW p, Command(p), Become(c, p),
         UNCHANGED <<rows, shares, issued, revoked, cut, purged>>,
         ~Recording(c), p.phase # "record",
         FoundBy(p) => /\ Share(p.snapshot) /\ p.snapshot.id = p.id
                       /\ \A s, t \in shares : s.id = p.id /\ t.id = p.id => s = t,
         fresh' \subseteq fresh \cup {c},
         c \in fresh' => FoundBy(p) /\ p.snapshot \in shares
  PROVE  SharingInv'
<1>1. /\ DOMAIN proc' = Commands
      /\ proc'[c] = p
      /\ \A d \in Commands \ {c} : proc'[d] = proc[d]
  BY OneCommandChanges DEF SharingInv, StateOK
<1>2. StateOK' BY <1>1 DEF SharingInv, StateOK, Command, RowsOK, Share
<1>3. FoundOnce'
  BY <1>1 DEF SharingInv, FoundOnce, Found, FoundBy, Share
<1>4. FreshIsTrue' BY <1>1 DEF SharingInv, FreshIsTrue, Found, FoundBy
<1>5. RevokedIsGone' BY DEF SharingInv, RevokedIsGone
<1>6. \A d \in Commands : Recording(d)' => Recording(d) /\ proc'[d] = proc[d]
  BY <1>1 DEF Recording, At
<1>7. \A d \in Commands : Recording(d) => Recording(d)' /\ proc'[d] = proc[d]
  BY <1>1 DEF Recording, At
<1>8. RecordingIsRevoked' BY <1>6 DEF SharingInv, RecordingIsRevoked
<1>9. RecordingOnce' BY <1>6 DEF SharingInv, RecordingOnce, NewRows
<1>10. RecordsAreRevocations' BY DEF SharingInv, RecordsAreRevocations, NewRows
<1>11. RevocationsAreRecorded' BY <1>7 DEF SharingInv, RevocationsAreRecorded, NewRows
<1> QED BY <1>2, <1>3, <1>4, <1>5, <1>8, <1>9, <1>10, <1>11 DEF SharingInv

LEMMA CommandsAreRecords ==
  ASSUME StateOK, NEW c \in Commands
  PROVE  /\ Command(proc[c])
         /\ \A ph \in Phases : Command([proc[c] EXCEPT !.phase = ph])
BY DEF StateOK, Command

LEMMA IdleIsACommand == Command(Idle)
BY SharingAssumption DEF Command, Idle, Phases

LEMMA FailsKeepsInv ==
  ASSUME SharingInv, NEW c \in Commands, Fails(c)
  PROVE  SharingInv'
<1>1. Become(c, Idle) /\ ~Recording(c) /\ Idle.phase # "record" /\ ~FoundBy(Idle)
  BY DEF Fails, Ends, Become, Recording, At, Idle, FoundBy
<1>2. UNCHANGED <<rows, shares, issued, revoked, cut, purged>> /\ fresh' = fresh \ {c}
  BY DEF Fails, OnlyAsks, historyVars, plexVars
<1> QED BY <1>1, <1>2, IdleIsACommand, AskingKeepsInv

LEMMA BeginKeepsInv ==
  ASSUME SharingInv, NEW c \in Commands, Begin(c)
  PROVE  SharingInv'
<1>1. PICK r \in Requests :
        /\ WellFormed(r)
        /\ Become(c, [phase |-> "resources", cmd |-> r.cmd, server |-> r.server,
                      selector |-> SharingInviteProfile(r.server), machine |-> NoMachine,
                      id |-> r.id, snapshot |-> NoShare, requested |-> r.requested])
  BY DEF Begin
<1> DEFINE selector == SharingInviteProfile(r.server)
           p == [phase |-> "resources", cmd |-> r.cmd, server |-> r.server, selector |-> selector,
                 machine |-> NoMachine, id |-> r.id, snapshot |-> NoShare, requested |-> r.requested]
<1>2. Become(c, p) BY <1>1
<1>3. r.cmd \in {"remove", "update", "invite"} /\ r.id \in 0 .. MaxShares
  BY <1>1, SharingAssumption DEF WellFormed
<1>5. Command(p) /\ p.phase = "resources"
  <2> HIDE DEF selector
  <2> QED BY <1>3 DEF Command, Phases
<1>6. ~Recording(c) /\ c \notin fresh
  BY DEF Begin, Recording, At, SharingInv, FreshIsTrue, Found
<1>7. UNCHANGED <<rows, shares, issued, revoked, cut, purged, fresh>>
  BY DEF Begin, historyVars, plexVars, ghostVars
<1>8. ~FoundBy(p) BY <1>5 DEF FoundBy
<1> HIDE DEF p
<1> QED BY <1>2, <1>5, <1>6, <1>7, <1>8, AskingKeepsInv

LEMMA ResolveServerKeepsInv ==
  ASSUME SharingInv, NEW c \in Commands, ResolveServer(c)
  PROVE  SharingInv'
<1> DEFINE machine == ResolveOwnedResource(proc[c].selector)
           next == IF proc[c].cmd = "invite" THEN "libraries" ELSE "users"
           p == [proc[c] EXCEPT !.machine = machine, !.phase = next]
<1>1. Become(c, p) /\ proc[c].phase = "resources" BY DEF ResolveServer
<1>2. Command(proc[c]) BY DEF SharingInv, StateOK
<1>3. Command(p) /\ p.phase = next /\ p.cmd = proc[c].cmd
  <2> HIDE DEF machine
  <2> QED BY <1>2 DEF Command, Phases
<1>4. ~Recording(c) /\ c \notin fresh
  BY <1>1 DEF Recording, At, SharingInv, FreshIsTrue, Found
<1>5. UNCHANGED <<rows, shares, issued, revoked, cut, purged, fresh>>
  BY DEF ResolveServer, OnlyAsks, historyVars, plexVars
<1>6. ~FoundBy(p) /\ p.phase # "record" BY <1>3 DEF FoundBy
<1> HIDE DEF p
<1> QED BY <1>1, <1>3, <1>4, <1>5, <1>6, AskingKeepsInv

LEMMA FindShareKeepsInv ==
  ASSUME SharingInv, NEW c \in Commands, FindShare(c)
  PROVE  SharingInv'
<1> DEFINE next == IF proc[c].cmd = "remove" THEN "grants" ELSE "libraries"
<1>1. PICK s \in FindExternalOwnedShare(proc[c].machine, proc[c].id) :
        Become(c, [proc[c] EXCEPT !.snapshot = s, !.phase = next])
  BY DEF FindShare
<1> DEFINE p == [proc[c] EXCEPT !.snapshot = s, !.phase = next]
<1>2. s \in shares /\ s.id = proc[c].id /\ \A t \in shares : t.id = proc[c].id => t = s
  BY DEF FindExternalOwnedShare
<1>3. Command(proc[c]) BY DEF SharingInv, StateOK
<1>4. Command(p) /\ p.phase = next /\ p.snapshot = s /\ p.id = proc[c].id /\ p.cmd = proc[c].cmd
  BY <1>3 DEF Command, Phases
<1>5. Share(s) BY <1>2 DEF SharingInv, StateOK
<1>6. ~Recording(c) /\ proc[c].cmd \in {"remove", "update"} BY DEF FindShare, Recording, At
<1>7. UNCHANGED <<rows, shares, issued, revoked, cut, purged>> /\ fresh' = fresh \cup {c}
  BY DEF FindShare, OnlyAsks, historyVars, plexVars
<1>8. FoundBy(p) /\ p.phase # "record" BY <1>4, <1>6 DEF FoundBy
<1>9. \A x, t \in shares : x.id = p.id /\ t.id = p.id => x = t BY <1>2, <1>4
<1>10. Become(c, p) BY <1>1
<1> HIDE DEF p
<1> QED BY <1>10, <1>2, <1>4, <1>5, <1>6, <1>7, <1>8, <1>9, AskingKeepsInv

\* The grants read anew make the snapshot the share itself, unless more of it
\* changed since it was listed.
LEMMA SharedServerSectionsKeepsInv ==
  ASSUME SharingInv, NEW c \in Commands, SharedServerSections(c)
  PROVE  SharingInv'
<1>1. PICK s \in Addressed(c) :
        /\ Become(c, [proc[c] EXCEPT !.snapshot.grants = s.grants, !.phase = "send"])
        /\ KnowsAgain(c, s)
  BY DEF SharedServerSections
<1> DEFINE new == [proc[c].snapshot EXCEPT !.grants = s.grants]
           p == [proc[c] EXCEPT !.snapshot = new, !.phase = "send"]
<1>2. Command(proc[c]) /\ Found(c) /\ ~Recording(c) /\ s \in shares /\ s.id = proc[c].id
  BY DEF SharingInv, StateOK, SharedServerSections, At, Found, Recording, Addressed
<1>3. Share(proc[c].snapshot) /\ proc[c].snapshot.id = proc[c].id BY <1>2 DEF SharingInv, FoundOnce
<1>4. Share(new) /\ new.id = proc[c].id BY <1>3 DEF Share
<1>5. fresh' \subseteq fresh \cup {c} /\ (c \in fresh' => c \in fresh \/ new = s)
  BY <1>1 DEF KnowsAgain
<1>12. c \in fresh' => new \in shares
  <2>3. CASE new = s BY <1>2, <2>3
  <2> SUFFICES ASSUME c \in fresh PROVE new \in shares BY <1>5, <2>3
  <2>1. proc[c].snapshot = s BY <1>2, <1>3 DEF SharingInv, FreshIsTrue, FoundOnce
  <2>2. new = s BY <2>1, <1>3 DEF Share
  <2> QED BY <2>2, <1>2
<1>6. [proc[c] EXCEPT !.snapshot.grants = s.grants, !.phase = "send"] = p BY <1>2 DEF Command
<1>7. Command(p) /\ p.phase = "send" /\ p.snapshot = new /\ p.id = proc[c].id /\ p.cmd = proc[c].cmd
  <2> HIDE DEF new
  <2> QED BY <1>2 DEF Command, Phases
<1>8. UNCHANGED <<rows, shares, issued, revoked, cut, purged>>
  BY DEF SharedServerSections, OnlyAsks, historyVars, plexVars
<1>9. FoundBy(p) BY <1>2, <1>7 DEF FoundBy, Found
<1>10. \A x, t \in shares : x.id = p.id /\ t.id = p.id => x = t
  BY <1>2, <1>7 DEF SharingInv, FoundOnce
<1>11. Become(c, p) BY <1>1, <1>6
<1> HIDE DEF p, new
<1> QED BY <1>11, <1>12, <1>2, <1>4, <1>5, <1>7, <1>8, <1>9, <1>10, AskingKeepsInv

LEMMA ServerLibrariesKeepsInv ==
  ASSUME SharingInv, NEW c \in Commands, ServerLibraries(c)
  PROVE  SharingInv'
<1> DEFINE p == [proc[c] EXCEPT !.requested = Requested(c), !.phase = "send"]
<1>1. Become(c, p) /\ proc[c].phase = "libraries" BY DEF ServerLibraries, At
<1>2. Command(proc[c]) BY DEF SharingInv, StateOK
<1>3. /\ Command(p) /\ p.phase = "send" /\ p.cmd = proc[c].cmd
      /\ p.id = proc[c].id /\ p.snapshot = proc[c].snapshot
  BY <1>2 DEF Command, Phases
<1>4. UNCHANGED <<rows, shares, issued, revoked, cut, purged, fresh>>
  BY DEF ServerLibraries, OnlyAsks, historyVars, plexVars
<1>5. ~Recording(c) BY <1>1 DEF Recording, At
<1>6. FoundBy(p) <=> Found(c) BY <1>1, <1>3 DEF FoundBy, Found
<1>7. FoundBy(p) => /\ Share(p.snapshot) /\ p.snapshot.id = p.id
                    /\ \A s, t \in shares : s.id = p.id /\ t.id = p.id => s = t
  BY <1>3, <1>6 DEF SharingInv, FoundOnce
<1>8. c \in fresh => FoundBy(p) /\ p.snapshot \in shares
  BY <1>3, <1>6 DEF SharingInv, FreshIsTrue
<1> HIDE DEF p
<1> QED BY <1>1, <1>3, <1>4, <1>5, <1>7, <1>8, AskingKeepsInv

(***************************************************************************)
(* The shares change, and no command's record is concerned.                *)
(***************************************************************************)
LEMMA EditingKeepsInv ==
  ASSUME SharingInv, NEW id,
         DOMAIN proc' = Commands,
         \A d \in Commands : proc'[d] = proc[d] \/ (proc'[d] = Idle /\ ~Recording(d)),
         UNCHANGED <<rows, revoked, cut, purged>>,
         issued' \in Nat, issued <= issued', \A x \in shares' : x.id <= issued',
         \A x \in shares' : Share(x) /\ \A v \in revoked : x.id # v.share.id,
         \A x \in shares : x.id # id => x \in shares',
         \A k \in 1 .. MaxShares :
           (\A x, y \in shares : x.id = k /\ y.id = k => x = y)
             => (\A x, y \in shares' : x.id = k /\ y.id = k => x = y),
         fresh' \subseteq {d \in fresh : proc'[d] = proc[d] /\ proc[d].id # id}
  PROVE  SharingInv'
<1>1. Command(Idle) /\ Idle.cmd = "none" BY IdleIsACommand DEF Idle
<1>2. StateOK'
  <2>1. \A v \in revoked' : v.share.id <= issued'
    <3>1. \A v \in revoked : v.share.id \in Nat /\ v.share.id <= issued /\ issued \in Nat
      BY SharingAssumption DEF SharingInv, StateOK, Share
    <3> QED BY <3>1
  <2> QED BY <1>1, <2>1 DEF SharingInv, StateOK, Command, Share, RowsOK
<1>3. FoundOnce'
  <2> SUFFICES ASSUME NEW d \in Commands, Found(d)'
               PROVE  /\ Share(proc'[d].snapshot) /\ proc'[d].snapshot.id = proc'[d].id
                      /\ \A s, t \in shares' : s.id = proc'[d].id /\ t.id = proc'[d].id => s = t
    BY DEF FoundOnce, Share
  <2>1. proc'[d] = proc[d] /\ Found(d) BY <1>1 DEF Found
  <2>2. /\ Share(proc[d].snapshot) /\ proc[d].snapshot.id = proc[d].id
        /\ \A s, t \in shares : s.id = proc[d].id /\ t.id = proc[d].id => s = t
    BY <2>1 DEF SharingInv, FoundOnce
  <2>3. proc[d].id \in 1 .. MaxShares BY <2>2 DEF Share
  <2> QED BY <2>1, <2>2, <2>3
<1>4. FreshIsTrue' BY DEF SharingInv, FreshIsTrue, FoundOnce, Found
<1>5. RevokedIsGone' BY DEF RevokedIsGone
<1>6. \A d \in Commands : (Recording(d)' <=> Recording(d)) /\ (Recording(d) => proc'[d] = proc[d])
  BY <1>1 DEF Recording, At
<1>7. RecordingIsRevoked' /\ RecordingOnce' /\ RecordsAreRevocations' /\ RevocationsAreRecorded'
  BY <1>6 DEF SharingInv, RecordingIsRevoked, RecordingOnce, RecordsAreRevocations,
              RevocationsAreRecorded, NewRows
<1> QED BY <1>2, <1>3, <1>4, <1>5, <1>7 DEF SharingInv

LEMMA OthersChangeKeepsInv ==
  ASSUME SharingInv, OthersChange
  PROVE  SharingInv'
<1>1. UNCHANGED <<rows, issued, proc, revoked, cut, purged>> BY DEF OthersChange, historyVars
<1>2. /\ DOMAIN proc' = Commands /\ \A d \in Commands : proc'[d] = proc[d]
      /\ \A x \in shares : Share(x) /\ \A v \in revoked : x.id # v.share.id
      /\ issued \in Nat /\ \A x \in shares : x.id \in Nat /\ x.id <= issued
  BY <1>1, SharingAssumption DEF SharingInv, StateOK, RevokedIsGone, Share
<1>5. issued' \in Nat /\ issued <= issued' BY <1>1, <1>2
<1>3. CASE \E s \in shares : OthersEdit(s)
  <2>1. PICK s \in shares : OthersEdit(s) BY <1>3
  <2>2. fresh' = {c \in fresh : proc[c].id # s.id} BY <2>1 DEF OthersEdit
  <2>3. CASE shares' = shares \ {s}
    <3>1. \A x \in shares' : x.id <= issued' BY <1>1, <1>2, <2>3
    <3> QED BY <1>1, <1>2, <1>5, <2>2, <2>3, <3>1, EditingKeepsInv
  <2>4. ASSUME NEW t, Share(t), t.id = s.id, shares' = (shares \ {s}) \cup {t} PROVE SharingInv'
    <3>1. \A x \in shares' : x.id <= issued' BY <1>1, <1>2, <2>4
    <3> QED BY <1>1, <1>2, <1>5, <2>2, <2>4, <3>1, EditingKeepsInv
  <2>5. Share(s) BY <1>2
  <2>6. CASE s.pending /\ shares' = (shares \ {s}) \cup {[s EXCEPT !.pending = FALSE]}
    <3>1. Share([s EXCEPT !.pending = FALSE]) /\ [s EXCEPT !.pending = FALSE].id = s.id
      BY <2>5 DEF Share
    <3> QED BY <2>4, <2>6, <3>1
  <2>7. ASSUME NEW g, shares' = (shares \ {s}) \cup {[s EXCEPT !.grants = g]} PROVE SharingInv'
    <3>1. Share([s EXCEPT !.grants = g]) /\ [s EXCEPT !.grants = g].id = s.id
      BY <2>5 DEF Share
    <3> QED BY <2>4, <2>7, <3>1
  <2> QED BY <2>1, <2>3, <2>6, <2>7 DEF OthersEdit
<1>4. CASE \E l \in Libraries : LibraryChanges(l)
  <2>1. UNCHANGED <<shares, fresh>> BY <1>4 DEF LibraryChanges
  <2>2. \A d \in fresh : proc[d].id # 0
    BY DEF SharingInv, FreshIsTrue, FoundOnce, Share
  <2>3. \A x \in shares' : x.id <= issued' BY <1>1, <1>2, <2>1
  <2> QED BY <1>1, <1>2, <1>5, <2>1, <2>2, <2>3, EditingKeepsInv
<1> QED BY <1>3, <1>4 DEF OthersChange

LEMMA TickKeepsInv ==
  ASSUME SharingInv, UNCHANGED <<rows, shares, issued, proc, fresh, revoked, cut, purged>>
  PROVE  SharingInv'
<1>1. /\ DOMAIN proc' = Commands /\ \A d \in Commands : proc'[d] = proc[d]
      /\ \A x \in shares : Share(x) /\ \A v \in revoked : x.id # v.share.id
  BY DEF SharingInv, StateOK, RevokedIsGone
<1>2. \A d \in fresh : proc[d].id # 0
  BY DEF SharingInv, FreshIsTrue, FoundOnce, Share
<1>3. issued' \in Nat /\ issued <= issued' /\ \A x \in shares' : x.id <= issued'
  BY DEF SharingInv, StateOK
<1> QED BY <1>1, <1>2, <1>3, EditingKeepsInv

LEMMA UpdateShareKeepsInv ==
  ASSUME SharingInv, NEW c \in Commands, UpdateShare(c)
  PROVE  SharingInv'
<1>1. Become(c, Idle) /\ ~Recording(c) BY DEF UpdateShare, Ends, Become, Recording, At
<1>2. /\ DOMAIN proc' = Commands /\ \A d \in Commands : proc'[d] = proc[d] \/ (proc'[d] = Idle /\ ~Recording(d))
      /\ \A d \in Commands \ {c} : proc'[d] = proc[d]
  BY <1>1, OneCommandChanges DEF SharingInv, StateOK
<1>3. UNCHANGED <<rows, issued, revoked, cut, purged>> BY DEF UpdateShare, historyVars
<1>4. fresh' \subseteq {d \in fresh : proc'[d] = proc[d] /\ proc[d].id # proc[c].id}
  BY <1>2 DEF UpdateShare, Touches, SharingInv, FreshIsTrue
<1> DEFINE New(s) == IF s \in Addressed(c) THEN [s EXCEPT !.grants = proc[c].requested] ELSE s
<1>5. shares' = {New(s) : s \in shares} BY DEF UpdateShare
<1>6. /\ \A s \in shares : Share(New(s)) /\ New(s).id = s.id /\ s.id <= issued
      /\ issued \in Nat
  BY DEF SharingInv, StateOK, Share
<1>7. \A s \in shares : s.id # proc[c].id => New(s) = s BY DEF Addressed
<1> HIDE DEF New
<1>8. \A x \in shares' : Share(x) /\ x.id <= issued /\ \A v \in revoked : x.id # v.share.id
  BY <1>5, <1>6 DEF SharingInv, RevokedIsGone
<1>9. \A x \in shares : x.id # proc[c].id => x \in shares' BY <1>5, <1>7
<1>10. ASSUME NEW k \in 1 .. MaxShares, \A x, y \in shares : x.id = k /\ y.id = k => x = y
       PROVE  \A x, y \in shares' : x.id = k /\ y.id = k => x = y
  BY <1>5, <1>6, <1>10
<1>11. issued' \in Nat /\ issued <= issued' /\ \A x \in shares' : x.id <= issued'
  BY <1>3, <1>6, <1>8
<1> QED BY <1>11, <1>2, <1>3, <1>4, <1>8, <1>9, <1>10, EditingKeepsInv

LEMMA InviteKeepsInv ==
  ASSUME SharingInv, NEW c \in Commands, Invite(c)
  PROVE  SharingInv'
<1> DEFINE id == issued + 1
<1>3. /\ \A s \in shares : s.id \in Nat /\ s.id < id
      /\ \A v \in revoked : v.share.id \in Nat /\ v.share.id < id
      /\ id \in Nat /\ id # 0 /\ issued \in Nat /\ issued' = id
  BY SharingAssumption DEF SharingInv, StateOK, Share, Invite
<1>4. PICK u \in Users :
        shares' = shares \cup {[id |-> id, user |-> u, owned |-> TRUE, pending |-> TRUE,
                                machine |-> proc[c].machine, grants |-> proc[c].requested]}
  BY DEF Invite
<1>5. id <= MaxShares BY DEF Invite
<1> DEFINE new == [id |-> id, user |-> u, owned |-> TRUE, pending |-> TRUE,
                  machine |-> proc[c].machine, grants |-> proc[c].requested]
<1>6. shares' = shares \cup {new} BY <1>4
<1>7. Share(new) /\ new.id = id
  <2> HIDE DEF id
  <2> QED BY <1>3, <1>5, SharingAssumption DEF Share
<1>8. Become(c, Idle) /\ ~Recording(c) /\ c \notin fresh
  BY DEF Invite, Ends, Become, Recording, At, SharingInv, FreshIsTrue, Found
<1>9. /\ DOMAIN proc' = Commands /\ \A d \in Commands : proc'[d] = proc[d] \/ (proc'[d] = Idle /\ ~Recording(d))
      /\ \A d \in Commands \ {c} : proc'[d] = proc[d]
  BY <1>8, OneCommandChanges DEF SharingInv, StateOK
<1>10. UNCHANGED <<rows, revoked, cut, purged, fresh>> BY DEF Invite, historyVars, ghostVars
<1>11. fresh' \subseteq {d \in fresh : proc'[d] = proc[d] /\ proc[d].id # 0}
  BY <1>8, <1>9, <1>10 DEF SharingInv, FreshIsTrue, FoundOnce, Share
<1>2. issued <= issued' BY <1>3
<1> HIDE DEF new, id
<1>12. \A x \in shares' : Share(x) /\ x.id <= id /\ \A v \in revoked : x.id # v.share.id
  BY <1>3, <1>6, <1>7 DEF SharingInv, StateOK, RevokedIsGone
<1>13. ASSUME NEW k \in 1 .. MaxShares, \A x, y \in shares : x.id = k /\ y.id = k => x = y
       PROVE  \A x, y \in shares' : x.id = k /\ y.id = k => x = y
  BY <1>3, <1>6, <1>7, <1>13
<1>14. \A x \in shares : x.id # 0 => x \in shares' BY <1>6
<1> QED BY <1>2, <1>3, <1>9, <1>10, <1>11, <1>12, <1>13, <1>14, EditingKeepsInv

(***************************************************************************)
(* The revocation.  The share was listed once, so none of its identifier   *)
(* is left, nobody has revoked it before and nobody is recording it.       *)
(***************************************************************************)
LEMMA RemoveShareKeepsInv ==
  ASSUME SharingInv, NEW c \in Commands, RemoveShare(c)
  PROVE  SharingInv'
<1> DEFINE id == proc[c].id
           going == [proc[c] EXCEPT !.phase = "record"]
<1>1. /\ Found(c) /\ ~Recording(c) /\ Command(proc[c]) /\ proc[c].cmd = "remove"
      /\ UNCHANGED <<rows, issued, purged>>
      /\ shares' = shares \ Addressed(c)
      /\ revoked' = revoked \cup {[share |-> s, fresh |-> c \in fresh] : s \in Addressed(c)}
  BY DEF RemoveShare, At, Found, Recording, historyVars, SharingInv, StateOK
<1>2. PICK s0 : s0 \in Addressed(c) BY DEF RemoveShare
<1>3. /\ s0 \in shares /\ s0.id = id /\ Share(s0)
      /\ \A s \in shares : s.id = id => s = s0
  BY <1>1, <1>2 DEF Addressed, SharingInv, StateOK, FoundOnce
<1>4. Addressed(c) = {s0} BY <1>2, <1>3 DEF Addressed
<1> DEFINE new == [share |-> s0, fresh |-> c \in fresh]
<1>5. /\ shares' = shares \ {s0} /\ revoked' = revoked \cup {new}
      /\ \A s \in shares' : s.id # id
  BY <1>1, <1>3, <1>4
<1>6. \A v \in revoked : v.share.id # id BY <1>3 DEF SharingInv, RevokedIsGone
<1>7. /\ \A r \in NewRows : r.share.id # id
      /\ \A d \in Commands : Recording(d) => proc[d].id # id
  BY <1>6 DEF SharingInv, RecordsAreRevocations, RecordingIsRevoked
<1>8. /\ Command(going) /\ going.phase = "record" /\ going.id = id
      /\ going.cmd = "remove" /\ going.snapshot = proc[c].snapshot
  BY <1>1 DEF Command, Phases
<1>9. /\ DOMAIN proc' = Commands
      /\ \A d \in Commands \ {c} : proc'[d] = proc[d]
      /\ \/ proc'[c] = going /\ UNCHANGED cut
         \/ proc'[c] = Idle /\ cut' = cut \cup {id}
  <2>1. \/ Become(c, going) /\ UNCHANGED cut
        \/ Become(c, Idle) /\ cut' = cut \cup {id}
    BY DEF RemoveShare, Ends, Become
  <2> QED BY <2>1, OneCommandChanges DEF SharingInv, StateOK
<1>10. Command(Idle) /\ Idle.cmd = "none" BY IdleIsACommand DEF Idle
<1> HIDE DEF going
<1>11. StateOK'
  <2>1. \A d \in Commands : Command(proc'[d]) BY <1>8, <1>9, <1>10 DEF SharingInv, StateOK
  <2>2. \A v \in revoked' : v \in [share : {v.share}, fresh : {v.fresh}] /\ Share(v.share)
    BY <1>3, <1>5 DEF SharingInv, StateOK
  <2>3. \A s \in shares' : Share(s) BY <1>5 DEF SharingInv, StateOK
  <2>4. RowsOK(rows') BY <1>1 DEF SharingInv, StateOK
  <2>5. issued' \in Nat /\ \A s \in shares' : s.id <= issued'
    BY <1>1, <1>5 DEF SharingInv, StateOK
  <2>6. \A v \in revoked' : v.share.id <= issued'
    BY <1>1, <1>3, <1>5 DEF SharingInv, StateOK
  <2> QED BY <1>9, <2>1, <2>2, <2>3, <2>4, <2>5, <2>6 DEF StateOK, Command, Share, RowsOK
<1>12. FoundOnce'
  <2> SUFFICES ASSUME NEW d \in Commands, Found(d)'
               PROVE  /\ Share(proc'[d].snapshot) /\ proc'[d].snapshot.id = proc'[d].id
                      /\ \A s, t \in shares' : s.id = proc'[d].id /\ t.id = proc'[d].id => s = t
    BY DEF FoundOnce, Share
  <2>1. /\ Found(d) /\ proc'[d].snapshot = proc[d].snapshot /\ proc'[d].id = proc[d].id
    BY <1>1, <1>8, <1>9, <1>10 DEF Found
  <2> QED BY <2>1, <1>5 DEF SharingInv, FoundOnce
<1>13. FreshIsTrue'
  <2>1. \A d \in fresh' : d \in fresh /\ d # c /\ proc[d].id # id
    BY DEF RemoveShare, Touches
  <2>2. \A d \in fresh' : proc[d].snapshot # s0
    BY <2>1, <1>3 DEF SharingInv, FreshIsTrue, FoundOnce
  <2> QED BY <2>1, <2>2, <1>5, <1>9 DEF SharingInv, FreshIsTrue, Found
<1>14. RevokedIsGone' BY <1>3, <1>5 DEF SharingInv, RevokedIsGone
<1>15. \A d \in Commands : d # c => (Recording(d)' <=> Recording(d)) /\ proc'[d] = proc[d]
  BY <1>9 DEF Recording, At
<1>16. RecordingIsRevoked'
  <2>1. ASSUME NEW d \in Commands \ {c}, Recording(d)'
        PROVE  \E v \in revoked' : v.share.id = proc'[d].id /\ (v.fresh => v.share = proc'[d].snapshot)
    BY <2>1, <1>5, <1>15 DEF SharingInv, RecordingIsRevoked
  <2>2. ASSUME Recording(c)'
        PROVE  \E v \in revoked' : v.share.id = proc'[c].id /\ (v.fresh => v.share = proc'[c].snapshot)
    <3>1. proc'[c].id = id /\ proc'[c].snapshot = proc[c].snapshot
      BY <2>2, <1>8, <1>9, <1>10 DEF Recording, At
    <3>2. c \in fresh => proc[c].snapshot = s0
      BY <1>1, <1>3 DEF SharingInv, FreshIsTrue, FoundOnce
    <3>3. new \in revoked' /\ new.share = s0 /\ (new.fresh => c \in fresh)
      <4>1. new \in revoked' BY <1>5
      <4>2. new.share = s0 OBVIOUS
      <4>3. new.fresh <=> c \in fresh BY Zenon
      <4> QED BY <4>1, <4>2, <4>3
    <3>4. new.share.id = proc'[c].id BY <3>1, <3>3, <1>3
    <3>5. new.fresh => new.share = proc'[c].snapshot BY <3>1, <3>2, <3>3
    <3> HIDE DEF new
    <3> QED BY <3>3, <3>4, <3>5
  <2> QED BY <2>1, <2>2 DEF RecordingIsRevoked
<1>17. Recording(c)' => proc'[c].id = id
  BY <1>8, <1>9, <1>10 DEF Recording, At
<1>18. RecordingOnce'
  BY <1>1, <1>7, <1>15, <1>17 DEF SharingInv, RecordingOnce, NewRows
<1>19. RecordsAreRevocations'
  BY <1>1, <1>5 DEF SharingInv, RecordsAreRevocations, NewRows
<1>20. RevocationsAreRecorded'
  <2>1. ASSUME NEW v \in revoked
        PROVE  \/ v.share.id \in cut' \cup purged'
               \/ \E r \in NewRows' : r.share.id = v.share.id
               \/ \E d \in Commands : Recording(d)' /\ proc'[d].id = v.share.id
    BY <1>1, <1>9, <1>15 DEF SharingInv, RevocationsAreRecorded, NewRows
  <2>2. id \in cut' \/ (Recording(c)' /\ proc'[c].id = id)
    BY <1>8, <1>9 DEF Recording, At
  <2> QED BY <2>1, <2>2, <1>3, <1>5 DEF RevocationsAreRecorded
<1> QED BY <1>11, <1>12, <1>13, <1>14, <1>16, <1>18, <1>19, <1>20 DEF SharingInv

(***************************************************************************)
(* The record.                                                             *)
(***************************************************************************)
LEMMA EndingKeepsTheOthers ==
  ASSUME SharingInv, NEW c \in Commands, Recording(c), Ends(c), RowsOK(rows'),
         UNCHANGED <<shares, issued, fresh, revoked>>
  PROVE  /\ StateOK' /\ FoundOnce' /\ FreshIsTrue' /\ RevokedIsGone' /\ RecordingIsRevoked'
         /\ \A d \in Commands : Recording(d)' => d # c /\ Recording(d) /\ proc'[d] = proc[d]
         /\ \A d \in Commands \ {c} : Recording(d) => Recording(d)' /\ proc'[d] = proc[d]
<1>1. /\ DOMAIN proc' = Commands /\ proc'[c] = Idle
      /\ \A d \in Commands \ {c} : proc'[d] = proc[d]
  BY OneCommandChanges DEF Ends, Become, SharingInv, StateOK
<1>2. Command(Idle) /\ Idle.cmd = "none" BY IdleIsACommand DEF Idle
<1>3. StateOK' BY <1>1, <1>2 DEF SharingInv, StateOK, Command, Share, RowsOK
<1>4. FoundOnce'
  <2> SUFFICES ASSUME NEW d \in Commands, Found(d)'
               PROVE  /\ Share(proc'[d].snapshot) /\ proc'[d].snapshot.id = proc'[d].id
                      /\ \A s, t \in shares' : s.id = proc'[d].id /\ t.id = proc'[d].id => s = t
    BY DEF FoundOnce, Share
  <2>1. proc'[d] = proc[d] /\ Found(d) BY <1>1, <1>2 DEF Found
  <2> QED BY <2>1 DEF SharingInv, FoundOnce
<1>5. c \notin fresh BY DEF SharingInv, FreshIsTrue, Recording, At
<1>6. FreshIsTrue' BY <1>1, <1>5 DEF SharingInv, FreshIsTrue, Found
<1>7. RevokedIsGone' BY DEF SharingInv, RevokedIsGone
<1>8. /\ \A d \in Commands : Recording(d)' => d # c /\ Recording(d) /\ proc'[d] = proc[d]
      /\ \A d \in Commands \ {c} : Recording(d) => Recording(d)' /\ proc'[d] = proc[d]
  BY <1>1, <1>2 DEF Recording, At
<1>9. RecordingIsRevoked' BY <1>8 DEF SharingInv, RecordingIsRevoked
<1> QED BY <1>3, <1>4, <1>6, <1>7, <1>8, <1>9

\* Rows that were there say the same of the same shares.
LEMMA OldRecordsStayTrue ==
  ASSUME SharingInv, NEW qs, RowsOK(qs), SameRecords(rows, qs)
  PROVE  LET new == {q \in qs : q.share.id \in 1 .. MaxShares} IN
         /\ \A q \in new : \E r \in NewRows : q.id = r.id /\ q.share = r.share
         /\ \A q \in new : \E v \in revoked : v.share.id = q.share.id /\ (v.fresh => v.share = q.share)
         /\ \A p, q \in new : q.share.id = p.share.id => q = p
<1> DEFINE new == {q \in qs : q.share.id \in 1 .. MaxShares}
<1>1. \A q \in new : \E r \in NewRows : q.id = r.id /\ q.share = r.share
  BY DEF SameRecords, NewRows
<1>2. \A q \in new : \E v \in revoked : v.share.id = q.share.id /\ (v.fresh => v.share = q.share)
  BY <1>1 DEF SharingInv, RecordsAreRevocations
<1>3. ASSUME NEW p \in new, NEW q \in new, q.share.id = p.share.id PROVE q = p
  <2>1. PICK r \in NewRows : q.id = r.id /\ q.share = r.share BY <1>1
  <2>2. PICK t \in NewRows : p.id = t.id /\ p.share = t.share BY <1>1
  <2>3. r = t BY <1>3, <2>1, <2>2 DEF SharingInv, RecordsAreRevocations
  <2> QED BY <2>1, <2>2, <2>3 DEF RowsOK
<1> QED BY <1>1, <1>2, <1>3

LEMMA RecordRemovalKeepsInv ==
  ASSUME SharingInv, NEW c \in Commands, RecordRemoval(c)
  PROVE  SharingInv'
<1> DEFINE old == NormalizeTimestamps(rows)
           new == [id |-> NextId(rows), at |-> clock, offset |-> 0, share |-> proc[c].snapshot]
<1>1. Recording(c) /\ Ends(c) /\ rows' = old \cup {new} /\ UNCHANGED <<shares, issued, fresh, revoked, cut, purged>>
  BY DEF RecordRemoval, AppendRecord, Inserted, plexVars, ghostVars
<1>2. RowsOK(rows) BY DEF SharingInv, StateOK
<1>3. RowsOK(old) /\ SameRecords(rows, old) /\ SameRecords(old, rows)
  BY <1>2, NormalizingKeepsRecords
<1>4. /\ new.id \in Nat /\ new.share = proc[c].snapshot
      /\ new \in [id : Nat, at : {new.at}, offset : {new.offset}, share : {new.share}]
  BY <1>2, NextIdIsNew
<1>5. \A q \in old : q.id \in Nat /\ q.id < new.id
  BY <1>2, <1>3, NextIdIsNew DEF SameRecords, RowsOK
<1>6. Found(c) BY <1>1 DEF Recording, At, Found
<1>7. new.share.id = proc[c].id /\ proc[c].id \in 1 .. MaxShares
  BY <1>4, <1>6 DEF SharingInv, FoundOnce, Share
<1> HIDE DEF old, new
<1>8. RowsOK(rows') BY <1>1, <1>3, <1>4, <1>5 DEF RowsOK
<1>9. /\ StateOK' /\ FoundOnce' /\ FreshIsTrue' /\ RevokedIsGone' /\ RecordingIsRevoked'
      /\ \A d \in Commands : Recording(d)' => d # c /\ Recording(d) /\ proc'[d] = proc[d]
      /\ \A d \in Commands \ {c} : Recording(d) => Recording(d)' /\ proc'[d] = proc[d]
  BY <1>1, <1>8, EndingKeepsTheOthers
<1> DEFINE kept == {q \in old : q.share.id \in 1 .. MaxShares}
<1>10. /\ \A q \in kept : \E r \in NewRows : q.id = r.id /\ q.share = r.share
       /\ \A q \in kept : \E v \in revoked : v.share.id = q.share.id /\ (v.fresh => v.share = q.share)
       /\ \A p, q \in kept : q.share.id = p.share.id => q = p
  BY <1>3, OldRecordsStayTrue
<1>11. NewRows' = kept \cup {new} BY <1>1, <1>7 DEF NewRows
<1>12. \A r \in NewRows : r.share.id # proc[c].id BY <1>1 DEF SharingInv, RecordingOnce
<1>13. \A q \in kept : q.share.id # new.share.id BY <1>7, <1>10, <1>12
<1>14. \E v \in revoked : v.share.id = new.share.id /\ (v.fresh => v.share = new.share)
  BY <1>1, <1>4, <1>7 DEF SharingInv, RecordingIsRevoked
<1>15. RecordsAreRevocations'
  BY <1>1, <1>10, <1>11, <1>13, <1>14 DEF RecordsAreRevocations
<1>16. RecordingOnce'
  <2>1. \A d \in Commands : Recording(d)' => proc'[d].id # new.share.id
    BY <1>1, <1>7, <1>9 DEF SharingInv, RecordingOnce
  <2>2. \A d \in Commands : Recording(d)' => \A q \in kept : q.share.id # proc'[d].id
    BY <1>9, <1>10 DEF SharingInv, RecordingOnce
  <2>3. \A d \in Commands : Recording(d)' =>
          \A e \in Commands : Recording(e)' /\ proc'[e].id = proc'[d].id => e = d
    BY <1>9 DEF SharingInv, RecordingOnce
  <2> QED BY <2>1, <2>2, <2>3, <1>11 DEF RecordingOnce
<1>17. \A r \in NewRows : \E q \in NewRows' : q.share.id = r.share.id
  BY <1>3, <1>11 DEF SameRecords, NewRows
<1>18. RevocationsAreRecorded'
  BY <1>1, <1>7, <1>9, <1>11, <1>17 DEF SharingInv, RevocationsAreRecorded
<1> QED BY <1>9, <1>15, <1>16, <1>18 DEF SharingInv

LEMMA RecordingCutKeepsInv ==
  ASSUME SharingInv, NEW c \in Commands, RecordingCut(c)
  PROVE  SharingInv'
<1>1. /\ Recording(c) /\ Ends(c) /\ UNCHANGED <<shares, issued, fresh, revoked, purged>>
      /\ rows' \in {rows, NormalizeTimestamps(rows)} /\ cut' = cut \cup {proc[c].id}
  BY DEF RecordingCut, AppendRecord, plexVars
<1>2. RowsOK(rows) BY DEF SharingInv, StateOK
<1>3. RowsOK(rows') /\ SameRecords(rows, rows') /\ SameRecords(rows', rows)
  BY <1>1, <1>2, NormalizingKeepsRecords DEF SameRecords
<1>4. /\ StateOK' /\ FoundOnce' /\ FreshIsTrue' /\ RevokedIsGone' /\ RecordingIsRevoked'
      /\ \A d \in Commands : Recording(d)' => d # c /\ Recording(d) /\ proc'[d] = proc[d]
      /\ \A d \in Commands \ {c} : Recording(d) => Recording(d)' /\ proc'[d] = proc[d]
  BY <1>1, <1>3, EndingKeepsTheOthers
<1>5. /\ \A q \in NewRows' : \E r \in NewRows : q.id = r.id /\ q.share = r.share
      /\ \A q \in NewRows' : \E v \in revoked : v.share.id = q.share.id /\ (v.fresh => v.share = q.share)
      /\ \A p, q \in NewRows' : q.share.id = p.share.id => q = p
  BY <1>3, OldRecordsStayTrue DEF NewRows
<1>6. RecordsAreRevocations' BY <1>1, <1>5 DEF RecordsAreRevocations
<1>7. RecordingOnce' BY <1>4, <1>5 DEF SharingInv, RecordingOnce
<1>8. \A r \in NewRows : \E q \in NewRows' : q.share.id = r.share.id
  BY <1>3 DEF SameRecords, NewRows
<1>9. RevocationsAreRecorded'
  BY <1>1, <1>4, <1>8 DEF SharingInv, RevocationsAreRecorded
<1> QED BY <1>4, <1>6, <1>7, <1>9 DEF SharingInv

(***************************************************************************)
(* The commands of the history alone, which keep a record or purge it, and *)
(* the steps that leave the table as it is.                                *)
(***************************************************************************)
LEMMA KeptOrPurgedKeepsInv ==
  ASSUME SharingInv, UNCHANGED <<shares, issued, proc, fresh, revoked, cut>>,
         RowsOK(rows'), SameRecords(rows, rows'), purged \subseteq purged',
         \A r \in rows : r.share.id \in purged' \/ \E q \in rows' : q.id = r.id
  PROVE  SharingInv'
<1>1. /\ \A q \in NewRows' : \E r \in NewRows : q.id = r.id /\ q.share = r.share
      /\ \A q \in NewRows' : \E v \in revoked : v.share.id = q.share.id /\ (v.fresh => v.share = q.share)
      /\ \A p, q \in NewRows' : q.share.id = p.share.id => q = p
  BY OldRecordsStayTrue DEF NewRows
<1>2. \A d \in Commands : proc'[d] = proc[d] /\ (Recording(d)' <=> Recording(d))
  BY DEF Recording, At
<1>3. StateOK' BY DEF SharingInv, StateOK, Command, Share, RowsOK
<1>4. FoundOnce' /\ FreshIsTrue' /\ RevokedIsGone'
  BY DEF SharingInv, FoundOnce, FreshIsTrue, Found, RevokedIsGone, Share
<1>5. RecordingIsRevoked' BY <1>2 DEF SharingInv, RecordingIsRevoked
<1>6. RecordsAreRevocations' BY <1>1 DEF RecordsAreRevocations
<1>7. RecordingOnce' BY <1>1, <1>2 DEF SharingInv, RecordingOnce
<1>8. ASSUME NEW r \in NewRows
      PROVE  r.share.id \in purged' \/ \E q \in NewRows' : q.share.id = r.share.id
  <2>1. SUFFICES ASSUME NEW q \in rows', q.id = r.id
                 PROVE  q \in NewRows' /\ q.share.id = r.share.id
    BY DEF NewRows
  <2>2. PICK t \in rows : q.id = t.id /\ q.share = t.share BY DEF SameRecords
  <2>3. t = r BY <2>1, <2>2 DEF NewRows, SharingInv, StateOK, RowsOK
  <2> QED BY <2>2, <2>3 DEF NewRows
<1>9. RevocationsAreRecorded'
  BY <1>2, <1>8 DEF SharingInv, RevocationsAreRecorded
<1> QED BY <1>3, <1>4, <1>5, <1>6, <1>7, <1>9 DEF SharingInv

LEMMA RemovedListKeepsInv ==
  ASSUME SharingInv, RemovedList
  PROVE  SharingInv'
<1>1. rows' \in {rows, NormalizeTimestamps(rows)} /\ UNCHANGED <<shares, issued, proc, fresh, revoked, cut, purged>>
  BY DEF RemovedList, List, plexVars, ghostVars
<1>2. RowsOK(rows') /\ SameRecords(rows, rows') /\ SameRecords(rows', rows)
  BY <1>1, NormalizingKeepsRecords DEF SharingInv, StateOK, SameRecords
<1>3. \A r \in rows : \E q \in rows' : q.id = r.id BY <1>2 DEF SameRecords
<1> QED BY <1>1, <1>2, <1>3, KeptOrPurgedKeepsInv

LEMMA RemovedPurgeKeepsInv ==
  ASSUME SharingInv, RemovedPurge
  PROVE  SharingInv'
<1>1. /\ purged' = purged \cup {r.share.id : r \in {r \in rows : \A q \in rows' : q.id # r.id}}
      /\ UNCHANGED <<shares, issued, proc, fresh, revoked, cut>>
  BY DEF RemovedPurge, plexVars
<1>2. rows' = rows \/ rows' \subseteq NormalizeTimestamps(rows)
  BY DEF RemovedPurge, PurgeBefore
<1>3. RowsOK(rows) BY DEF SharingInv, StateOK
<1>4. RowsOK(rows') /\ SameRecords(rows, rows')
  <2>1. CASE rows' = rows BY <1>3, <2>1 DEF SameRecords
  <2>2. CASE rows' \subseteq NormalizeTimestamps(rows)
    <3>1. RowsOK(NormalizeTimestamps(rows)) /\ SameRecords(rows, NormalizeTimestamps(rows))
      BY <1>3, NormalizingKeepsRecords
    <3> QED BY <2>2, <3>1, FewerRows DEF SameRecords
  <2> QED BY <1>2, <2>1, <2>2
<1>5. \A r \in rows : r.share.id \in purged' \/ \E q \in rows' : q.id = r.id BY <1>1
<1> QED BY <1>1, <1>4, <1>5, KeptOrPurgedKeepsInv

(***************************************************************************)
(* The invariant, initially and at every step.                             *)
(***************************************************************************)
LEMMA InitHoldsInv ==
  ASSUME SharingInit
  PROVE  SharingInv
<1>1. /\ rows \in InitialRows /\ shares \in InitialShares
      /\ DOMAIN proc = Commands /\ \A c \in Commands : proc[c] = Idle
      /\ fresh = {} /\ revoked = {}
  BY DEF SharingInit, HistoryInit
<1>2. Command(Idle) /\ Idle.phase = "idle" BY IdleIsACommand DEF Idle
<1>3. \A s \in shares : Share(s) BY <1>1, SharingAssumption
<1>4. /\ rows \subseteq [id : Nat, at : Times, offset : Offsets, share : Snapshots]
      /\ \A r, q \in rows : r.id = q.id => r = q
      /\ \E n \in {0} \cup {r.id : r \in rows} : \A r \in rows : r.id <= n
      /\ \A r \in rows : r.share.id \notin 1 .. MaxShares
  BY <1>1, SharingAssumption
<1>5. \A r \in rows : r \in [id : Nat, at : {r.at}, offset : {r.offset}, share : {r.share}]
  BY <1>4
<1>6. RowsOK(rows)
  <2>1. \A r \in rows : r.id \in Nat BY <1>4
  <2>2. \E n \in Nat : \A r \in rows : r.id <= n BY <1>4, <2>1
  <2> QED BY <1>4, <1>5, <2>2 DEF RowsOK
<1>10. issued \in Nat /\ \A s \in shares : s.id <= issued
  <2> DEFINE S == {0} \cup {s.id : s \in shares}
  <2>1. S \in SUBSET Nat /\ S # {} /\ \A x \in S : x <= MaxShares
    BY <1>3, SharingAssumption DEF Share
  <2>2. issued = Max(S) /\ \A s \in shares : s.id \in S BY DEF SharingInit
  <2> HIDE DEF S
  <2> QED BY <2>1, <2>2, SharingAssumption, MaxExists
<1>7. StateOK BY <1>1, <1>2, <1>3, <1>6, <1>10 DEF StateOK
<1>8. NewRows = {} BY <1>4 DEF NewRows
<1>9. \A c \in Commands : ~Found(c) /\ ~Recording(c) BY <1>1, <1>2 DEF Found, Recording, At
<1> QED BY <1>1, <1>7, <1>8, <1>9
    DEF SharingInv, FoundOnce, FreshIsTrue, RevokedIsGone, RecordingIsRevoked, RecordingOnce,
        RecordsAreRevocations, RevocationsAreRecorded

LEMMA NextKeepsInv ==
  ASSUME SharingInv, [SharingNext]_vars
  PROVE  SharingInv'
<1>1. CASE RemovedPurge BY <1>1, RemovedPurgeKeepsInv
<1>2. CASE RemovedList BY <1>2, RemovedListKeepsInv
<1>3. CASE OthersChange BY <1>3, OthersChangeKeepsInv
<1>4. CASE Tick BY <1>4, TickKeepsInv DEF Tick, plexVars, ghostVars
<1>5. CASE UNCHANGED vars
  BY <1>5, TickKeepsInv DEF vars, historyVars, plexVars, ghostVars
<1>6. ASSUME NEW c \in Commands, CommandStep(c) PROVE SharingInv'
  <2>1. CASE Begin(c) BY <2>1, BeginKeepsInv
  <2>2. CASE ResolveServer(c) BY <2>2, ResolveServerKeepsInv
  <2>3. CASE FindShare(c) BY <2>3, FindShareKeepsInv
  <2>4. CASE SharedServerSections(c) BY <2>4, SharedServerSectionsKeepsInv
  <2>5. CASE ServerLibraries(c) BY <2>5, ServerLibrariesKeepsInv
  <2>6. CASE RemoveShare(c) BY <2>6, RemoveShareKeepsInv
  <2>7. CASE UpdateShare(c) BY <2>7, UpdateShareKeepsInv
  <2>8. CASE Invite(c) BY <2>8, InviteKeepsInv
  <2>9. CASE RecordRemoval(c) BY <2>9, RecordRemovalKeepsInv
  <2>10. CASE RecordingCut(c) BY <2>10, RecordingCutKeepsInv
  <2>11. CASE Fails(c) BY <2>11, FailsKeepsInv
  <2> QED BY <1>6, <2>1, <2>2, <2>3, <2>4, <2>5, <2>6, <2>7, <2>8, <2>9, <2>10, <2>11 DEF CommandStep
<1> QED BY <1>1, <1>2, <1>3, <1>4, <1>5, <1>6 DEF SharingNext

\* Between two requests anything may happen to the shares, and yet a command
\* that has found its share knows the only one of that identifier, no share a
\* command revoked is listed again, and two commands never record the same one
\* (runSharingRemove, sharing.go:166-330).
THEOREM SharingSafety == Spec => []SharingInv
<1>1. SharingInit => SharingInv BY InitHoldsInv
<1>2. SharingInv /\ [SharingNext]_vars => SharingInv' BY NextKeepsInv
<1> QED BY <1>1, <1>2, PTL DEF Spec

\* The history holds one record per revoked share, and it says what the share
\* was when it was revoked, but for a change in the interval between the request
\* that read it and the revocation (history.go:39, sharing.go:311-347).
THEOREM RecordsAreTrue == Spec => []RecordsAreRevocations
<1>1. SharingInv => RecordsAreRevocations BY DEF SharingInv
<1> QED BY <1>1, SharingSafety, PTL

\* No revocation is forgotten but by a purge, or by a command that was cut
\* short between the revocation and its record (sharing.go:323-347).
THEOREM NoRevocationForgotten == Spec => []RevocationsAreRecorded
<1>1. SharingInv => RevocationsAreRecorded BY DEF SharingInv
<1> QED BY <1>1, SharingSafety, PTL

(***************************************************************************)
(* Which server a selector names, and that a share on it is one that       *)
(* sharing users lists.                                                    *)
(***************************************************************************)
LEMMA ResolvedIsNamedAlone ==
  ASSUME resources \in ResourceLists, NEW selector, ResolveOwnedResource(selector) # NoMachine
  PROVE  /\ NamedAlone(selector, ResolveOwnedResource(selector))
         /\ ResolveOwnedResource(selector) \in OwnedMachines
<1> DEFINE ById == {r \in ToSet(resources) : r.machine = selector}
           ByName == {r \in ToSet(resources) : r.name = selector}
           machine == ResolveOwnedResource(selector)
<1>1. resources \in Seq(ToSet(resources)) BY SharingAssumption
<1>2. PICK matches : /\ matches = Matching(selector) /\ Len(matches) = 1
                     /\ matches[1].owned /\ machine = matches[1].machine
  BY DEF ResolveOwnedResource
<1>3. CASE Among(resources, ById) # <<>>
  <2>1. matches = Among(resources, ById) BY <1>2, <1>3 DEF Matching
  <2>2. matches[1] \in ToSet(resources) \cap ById BY <1>1, <1>2, <2>1, SelectedAlone
  <2>3. NamedAlone(selector, machine) BY <1>2, <2>2 DEF NamedAlone
  <2>4. machine \in OwnedMachines BY <1>2, <2>2 DEF OwnedMachines
  <2> QED BY <2>3, <2>4
<1>4. CASE Among(resources, ById) = <<>>
  <2>1. matches = Among(resources, ByName) BY <1>2, <1>4 DEF Matching
  <2>2. /\ matches[1] \in ToSet(resources) \cap ByName
        /\ \A k \in 1 .. Len(resources) : resources[k] \in ByName => resources[k] = matches[1]
    <3> HIDE DEF ByName
    <3> QED BY <1>1, <1>2, <2>1, SelectedAlone
  <2>3. \A q \in ToSet(resources) : q.name = selector => q = matches[1]
    <3>1. ASSUME NEW q \in ToSet(resources), q.name = selector PROVE q = matches[1]
      <4>1. PICK k \in 1 .. Len(resources) : resources[k] = q BY <1>1 DEF ToSet
      <4>2. q \in ByName BY <3>1
      <4> HIDE DEF ByName
      <4> QED BY <2>2, <4>1, <4>2
    <3> QED BY <3>1
  <2>4. NamedAlone(selector, machine) BY <1>2, <2>2, <2>3 DEF NamedAlone
  <2>5. machine \in OwnedMachines BY <1>2, <2>2 DEF OwnedMachines
  <2> QED BY <2>4, <2>5
<1> QED BY <1>3, <1>4

LEMMA OwnMachineResolves ==
  ASSUME resources \in ResourceLists, NEW r \in ToSet(resources), r.owned
  PROVE  ResolveOwnedResource(r.machine) = r.machine
<1> DEFINE ById == {q \in ToSet(resources) : q.machine = r.machine}
           matches == Among(resources, ById)
<1>1. /\ resources \in Seq(ToSet(resources))
      /\ \A i, j \in 1 .. Len(resources) : resources[i].machine = resources[j].machine => i = j
  BY SharingAssumption
<1>2. PICK k \in 1 .. Len(resources) : resources[k] = r BY <1>1 DEF ToSet
<1>3. resources[k] \in ById /\ \A i \in 1 .. Len(resources) : resources[i] \in ById => i = k
  BY <1>1, <1>2
<1>4. Len(matches) = 1 /\ matches[1] = r /\ matches # <<>>
  <2> HIDE DEF ById
  <2> QED BY <1>1, <1>2, <1>3, SelectionOfOne
<1>5. Matching(r.machine) = matches BY <1>4 DEF Matching
<1> HIDE DEF matches
<1> QED BY <1>4, <1>5 DEF ResolveOwnedResource

(***************************************************************************)
(* What a command has selected.                                            *)
(***************************************************************************)
Listable(s) == s.user \in Users /\ s.pending \in BOOLEAN /\ s.grants \subseteq Libraries

\* Nobody but Plex.tv makes shares, under new identifiers; what others edit of
\* one is neither its user nor its server.
Selected(c) ==
  LET p == proc[c] IN
  /\ p.requested \subseteq Libraries
  /\ p.phase \in {"users", "grants", "libraries", "send", "record"} =>
       p.machine = ResolveOwnedResource(p.selector) /\ p.machine # NoMachine
  /\ p.cmd \in {"update", "invite"} /\ p.phase = "send" => p.requested # {}
  /\ p.phase = "record" => p.cmd = "remove"
  /\ Found(c) =>
       /\ Listable(p.snapshot) /\ p.snapshot.machine = p.machine
       /\ p.snapshot.owned = TRUE /\ p.snapshot.user \notin Home
       /\ p.id <= issued
       /\ \A s \in shares : s.id = p.id =>
            s.user = p.snapshot.user /\ s.machine = p.machine /\ s.owned

SelectInv ==
  /\ resources \in ResourceLists
  /\ libraries \subseteq Libraries
  /\ \A s \in shares : Listable(s)
  /\ \A c \in Commands : Selected(c)

Continues(s, t) == t.id = s.id /\ t.user = s.user /\ t.machine = s.machine /\ t.owned = s.owned

LEMMA OthersStaySelected ==
  ASSUME SelectInv, StateOK, UNCHANGED resources, libraries' \subseteq Libraries,
         \A x \in shares' : /\ Share(x) /\ Listable(x)
                            /\ issued < x.id \/ \E s \in shares : Continues(s, x),
         issued' \in Nat, issued <= issued',
         \A c \in Commands : proc'[c] = proc[c] \/ proc'[c] = Idle \/ Selected(c)'
  PROVE  SelectInv'
<1>1. ASSUME NEW c \in Commands, proc'[c] = proc[c] PROVE Selected(c)'
  <2>1. Selected(c) /\ proc[c].id \in Nat /\ issued \in Nat
    BY SharingAssumption DEF SelectInv, StateOK, Command
  <2>2. Found(c)' <=> Found(c) BY <1>1 DEF Found
  <2>3. ResolveOwnedResource(proc[c].selector)' = ResolveOwnedResource(proc[c].selector)
    BY <1>1 DEF ResolveOwnedResource, Matching
  <2>4. Found(c) => proc[c].id <= issued' BY <2>1 DEF Selected
  <2>5. ASSUME Found(c), NEW x \in shares', x.id = proc[c].id
        PROVE  x.user = proc[c].snapshot.user /\ x.machine = proc[c].machine /\ x.owned
    <3>1. proc[c].id <= issued BY <2>1, <2>5 DEF Selected
    <3>2. ~(issued < x.id) BY <2>1, <2>5, <3>1
    <3>3. PICK s \in shares : Continues(s, x) BY <3>2
    <3> QED BY <2>1, <2>5, <3>3 DEF Selected, Continues
  <2> QED BY <1>1, <2>1, <2>2, <2>3, <2>4, <2>5 DEF Selected, Listable
<1>2. ASSUME NEW c \in Commands, proc'[c] = Idle PROVE Selected(c)'
  BY <1>2 DEF Selected, Found, Idle
<1>3. \A s \in shares' : Listable(s) OBVIOUS
<1> QED BY <1>1, <1>2, <1>3 DEF SelectInv, Listable

LEMMA AskingKeepsSelect ==
  ASSUME SelectInv, SharingInv, NEW c \in Commands, NEW p, Become(c, p),
         UNCHANGED plexVars, Selected(c)'
  PROVE  SelectInv'
<1>1. \A d \in Commands : proc'[d] = proc[d] \/ Selected(d)'
  BY OneCommandChanges DEF SharingInv, StateOK
<1>2. \A x \in shares' : Share(x) /\ Listable(x) /\ Continues(x, x)
  BY DEF plexVars, SharingInv, StateOK, SelectInv, Continues
<1>3. /\ UNCHANGED resources /\ shares' = shares /\ libraries' \subseteq Libraries
      /\ issued' \in Nat /\ issued <= issued'
  BY DEF plexVars, SelectInv, SharingInv, StateOK
<1> QED BY <1>1, <1>2, <1>3, OthersStaySelected DEF SharingInv

LEMMA EndingKeepsSelect ==
  ASSUME SelectInv, SharingInv, NEW c \in Commands, Ends(c), UNCHANGED plexVars
  PROVE  SelectInv'
<1>1. Become(c, Idle) BY DEF Ends, Become
<1>2. proc'[c] = Idle BY <1>1, OneCommandChanges DEF SharingInv, StateOK
<1>3. Selected(c)' BY <1>2 DEF Selected, Found, Idle
<1> QED BY <1>1, <1>3, AskingKeepsSelect

LEMMA BeginKeepsSelect ==
  ASSUME SelectInv, SharingInv, NEW c \in Commands, Begin(c)
  PROVE  SelectInv'
<1>1. PICK r \in Requests :
        /\ WellFormed(r)
        /\ Become(c, [phase |-> "resources", cmd |-> r.cmd, server |-> r.server,
                      selector |-> SharingInviteProfile(r.server), machine |-> NoMachine,
                      id |-> r.id, snapshot |-> NoShare, requested |-> r.requested])
  BY DEF Begin
<1>2. proc'[c].phase = "resources" /\ proc'[c].requested = r.requested
  BY <1>1, OneCommandChanges DEF SharingInv, StateOK
<1>3. r.requested \subseteq Libraries BY <1>1 DEF WellFormed
<1>4. Selected(c)' BY <1>2, <1>3 DEF Selected, Found
<1> QED BY <1>1, <1>4, AskingKeepsSelect DEF Begin

LEMMA ResolveServerKeepsSelect ==
  ASSUME SelectInv, SharingInv, NEW c \in Commands, ResolveServer(c)
  PROVE  SelectInv'
<1> DEFINE machine == ResolveOwnedResource(proc[c].selector)
           next == IF proc[c].cmd = "invite" THEN "libraries" ELSE "users"
           p == [proc[c] EXCEPT !.machine = machine, !.phase = next]
<1>1. Become(c, p) /\ machine # NoMachine /\ UNCHANGED plexVars BY DEF ResolveServer, OnlyAsks
<1>2. proc'[c] = p BY <1>1, OneCommandChanges DEF SharingInv, StateOK
<1>3. Command(proc[c]) BY DEF SharingInv, StateOK
<1>4. /\ p.machine = machine /\ p.phase = next /\ p.selector = proc[c].selector
      /\ p.cmd = proc[c].cmd /\ p.requested = proc[c].requested
  <2> HIDE DEF machine, next
  <2> QED BY <1>3 DEF Command
<1>5. proc'[c].selector = proc[c].selector BY <1>2, <1>4
<1>6. ResolveOwnedResource(proc[c].selector)' = machine
  BY <1>1, <1>5 DEF ResolveOwnedResource, Matching, plexVars
<1>7. proc[c].requested \subseteq Libraries BY DEF SelectInv, Selected
<1>8. ~Found(c)' /\ proc'[c].phase # "send" BY <1>2, <1>4 DEF Found
<1> HIDE DEF machine, p
<1>9. Selected(c)' BY <1>1, <1>2, <1>4, <1>6, <1>7, <1>8 DEF Selected
<1> QED BY <1>1, <1>9, AskingKeepsSelect

\* The server stays resolved, whatever else a command finds out.
LEMMA StaysResolved ==
  ASSUME SelectInv, NEW c \in Commands, UNCHANGED resources,
         proc[c].phase \in {"users", "grants", "libraries", "send", "record"},
         proc'[c].machine = proc[c].machine, proc'[c].selector = proc[c].selector
  PROVE  /\ proc[c].machine = ResolveOwnedResource(proc[c].selector) /\ proc[c].machine # NoMachine
         /\ proc'[c].machine # NoMachine /\ proc'[c].machine = ResolveOwnedResource(proc[c].selector)'
<1>1. proc[c].machine = ResolveOwnedResource(proc[c].selector) /\ proc[c].machine # NoMachine
  BY DEF SelectInv, Selected
<1>2. ResolveOwnedResource(proc[c].selector)' = ResolveOwnedResource(proc[c].selector)
  BY DEF ResolveOwnedResource, Matching
<1> QED BY <1>1, <1>2

LEMMA FindShareKeepsSelect ==
  ASSUME SelectInv, SharingInv, NEW c \in Commands, FindShare(c)
  PROVE  SelectInv'
<1> DEFINE next == IF proc[c].cmd = "remove" THEN "grants" ELSE "libraries"
<1>1. PICK s \in FindExternalOwnedShare(proc[c].machine, proc[c].id) :
        Become(c, [proc[c] EXCEPT !.snapshot = s, !.phase = next])
  BY DEF FindShare
<1> DEFINE p == [proc[c] EXCEPT !.snapshot = s, !.phase = next]
<1>2. Become(c, p) /\ UNCHANGED plexVars /\ proc[c].phase = "users" /\ proc[c].cmd \in {"remove", "update"}
  BY <1>1 DEF FindShare, OnlyAsks, At
<1>3. proc'[c] = p BY <1>2, OneCommandChanges DEF SharingInv, StateOK
<1>4. Command(proc[c]) BY DEF SharingInv, StateOK
<1>5. /\ p.machine = proc[c].machine /\ p.phase = next /\ p.selector = proc[c].selector
      /\ p.cmd = proc[c].cmd /\ p.requested = proc[c].requested /\ p.snapshot = s /\ p.id = proc[c].id
  BY <1>4 DEF Command
<1>6. /\ s \in shares /\ s.id = proc[c].id /\ s.machine = proc[c].machine /\ s.owned /\ s.user \notin Home
      /\ \A t \in shares : t.id = proc[c].id => t = s
  BY DEF FindExternalOwnedShare
<1>7. Listable(s) /\ s.id <= issued /\ s.owned \in BOOLEAN BY <1>6 DEF SelectInv, SharingInv, StateOK
<1>8. proc[c].requested \subseteq Libraries BY DEF SelectInv, Selected
<1> HIDE DEF p
<1>9. /\ proc'[c].machine # NoMachine
      /\ proc'[c].machine = ResolveOwnedResource(proc[c].selector)'
  BY <1>2, <1>3, <1>5, StaysResolved DEF plexVars
<1>10. next # "send" /\ next # "record" OBVIOUS
<1> HIDE DEF next
<1>11. Selected(c)'
  BY <1>2, <1>3, <1>5, <1>6, <1>7, <1>8, <1>9, <1>10 DEF Selected, Listable, plexVars
<1> QED BY <1>2, <1>11, AskingKeepsSelect

LEMMA SharedServerSectionsKeepsSelect ==
  ASSUME SelectInv, SharingInv, NEW c \in Commands, SharedServerSections(c)
  PROVE  SelectInv'
<1>1. PICK s \in Addressed(c) : Become(c, [proc[c] EXCEPT !.snapshot.grants = s.grants, !.phase = "send"])
  BY DEF SharedServerSections
<1> DEFINE new == [proc[c].snapshot EXCEPT !.grants = s.grants]
           p == [proc[c] EXCEPT !.snapshot = new, !.phase = "send"]
<1>2. /\ Command(proc[c]) /\ Found(c) /\ proc[c].cmd = "remove" /\ proc[c].phase = "grants" /\ s \in shares
      /\ UNCHANGED plexVars
  BY DEF SharingInv, StateOK, SharedServerSections, OnlyAsks, At, Found, Addressed
<1>3. Share(proc[c].snapshot) BY <1>2 DEF SharingInv, FoundOnce
<1>4. /\ new.grants = s.grants /\ new.user = proc[c].snapshot.user /\ new.machine = proc[c].snapshot.machine
      /\ new.owned = proc[c].snapshot.owned /\ new.pending = proc[c].snapshot.pending
  BY <1>3 DEF Share
<1>5. Listable(s) /\ Selected(c) BY <1>2 DEF SelectInv
<1>6. Listable(new) BY <1>2, <1>4, <1>5 DEF Listable, Selected
<1>7. [proc[c] EXCEPT !.snapshot.grants = s.grants, !.phase = "send"] = p BY <1>2 DEF Command
<1> HIDE DEF new
<1>8. /\ p.phase = "send" /\ p.snapshot = new /\ p.id = proc[c].id /\ p.cmd = proc[c].cmd
      /\ p.machine = proc[c].machine /\ p.selector = proc[c].selector /\ p.requested = proc[c].requested
  BY <1>2 DEF Command
<1> HIDE DEF p
<1>9. Become(c, p) BY <1>1, <1>7
<1>10. proc'[c] = p BY <1>9, OneCommandChanges DEF SharingInv, StateOK
<1>11. /\ proc'[c].machine # NoMachine
       /\ proc'[c].machine = ResolveOwnedResource(proc[c].selector)'
  BY <1>2, <1>8, <1>10, StaysResolved DEF plexVars
<1>12. Selected(c)'
  BY <1>2, <1>4, <1>5, <1>6, <1>8, <1>10, <1>11 DEF Selected, Listable, plexVars
<1> QED BY <1>2, <1>9, <1>12, AskingKeepsSelect

LEMMA ServerLibrariesKeepsSelect ==
  ASSUME SelectInv, SharingInv, NEW c \in Commands, ServerLibraries(c)
  PROVE  SelectInv'
<1> DEFINE p == [proc[c] EXCEPT !.requested = Requested(c), !.phase = "send"]
<1>1. /\ Become(c, p) /\ proc[c].phase = "libraries" /\ UNCHANGED plexVars
      /\ Requested(c) # {} /\ Requested(c) \subseteq Libraries
  BY DEF ServerLibraries, At, OnlyAsks, ValidateLibraryIDs, SelectInv
<1>2. Command(proc[c]) BY DEF SharingInv, StateOK
<1>3. /\ p.phase = "send" /\ p.cmd = proc[c].cmd /\ p.requested = Requested(c)
      /\ p.id = proc[c].id /\ p.snapshot = proc[c].snapshot
      /\ p.machine = proc[c].machine /\ p.selector = proc[c].selector
  BY <1>2 DEF Command
<1> HIDE DEF p
<1>4. proc'[c] = p BY <1>1, OneCommandChanges DEF SharingInv, StateOK
<1>5. /\ proc'[c].machine # NoMachine
      /\ proc'[c].machine = ResolveOwnedResource(proc[c].selector)'
  BY <1>1, <1>3, <1>4, StaysResolved DEF plexVars
<1>6. Found(c)' <=> Found(c) BY <1>1, <1>3, <1>4 DEF Found
<1>7. Selected(c) BY DEF SelectInv
<1>8. Selected(c)'
  BY <1>1, <1>3, <1>4, <1>5, <1>6, <1>7 DEF Selected, Listable, plexVars
<1> QED BY <1>1, <1>8, AskingKeepsSelect

(***************************************************************************)
(* The shares change.                                                      *)
(***************************************************************************)
LEMMA RemoveShareKeepsSelect ==
  ASSUME SelectInv, SharingInv, NEW c \in Commands, RemoveShare(c)
  PROVE  SelectInv'
<1> DEFINE p == [proc[c] EXCEPT !.phase = "record"]
<1>1. /\ shares' \subseteq shares /\ UNCHANGED <<resources, issued, libraries>>
      /\ proc[c].cmd = "remove" /\ proc[c].phase = "send"
      /\ Become(c, p) \/ Become(c, Idle)
  BY DEF RemoveShare, Ends, Become, At
<1>2. Command(proc[c]) /\ Selected(c) BY DEF SharingInv, StateOK, SelectInv
<1>3. /\ p.phase = "record" /\ p.cmd = proc[c].cmd /\ p.requested = proc[c].requested
      /\ p.id = proc[c].id /\ p.snapshot = proc[c].snapshot
      /\ p.machine = proc[c].machine /\ p.selector = proc[c].selector
  BY <1>2 DEF Command
<1> HIDE DEF p
<1>4. proc'[c] = p \/ proc'[c] = Idle BY <1>1, OneCommandChanges DEF SharingInv, StateOK
<1>5. ASSUME proc'[c] = p PROVE Selected(c)'
  <2>1. /\ proc'[c].machine # NoMachine
        /\ proc'[c].machine = ResolveOwnedResource(proc[c].selector)'
    BY <1>1, <1>3, <1>5, StaysResolved
  <2>2. Found(c) BY <1>1 DEF Found
  <2> QED BY <1>1, <1>2, <1>3, <1>5, <2>1, <2>2 DEF Selected, Listable
<1>6. \A d \in Commands : proc'[d] = proc[d] \/ proc'[d] = Idle \/ Selected(d)'
  BY <1>1, <1>4, <1>5, OneCommandChanges DEF SharingInv, StateOK
<1>7. \A x \in shares' : Share(x) /\ Listable(x) /\ x \in shares /\ Continues(x, x)
  BY <1>1 DEF SharingInv, StateOK, SelectInv, Continues
<1>8. libraries' \subseteq Libraries /\ issued' \in Nat /\ issued <= issued'
  BY <1>1 DEF SharingInv, StateOK, SelectInv
<1> QED BY <1>1, <1>6, <1>7, <1>8, OthersStaySelected DEF SharingInv

LEMMA UpdateShareKeepsSelect ==
  ASSUME SelectInv, SharingInv, NEW c \in Commands, UpdateShare(c)
  PROVE  SelectInv'
<1>1. Become(c, Idle) /\ UNCHANGED <<resources, issued, libraries>> BY DEF UpdateShare, Ends, Become
<1>2. \A d \in Commands : proc'[d] = proc[d] \/ proc'[d] = Idle
  BY <1>1, OneCommandChanges DEF SharingInv, StateOK
<1> DEFINE New(s) == IF s \in Addressed(c) THEN [s EXCEPT !.grants = proc[c].requested] ELSE s
<1>3. shares' = {New(s) : s \in shares} BY DEF UpdateShare
<1>4. proc[c].requested \subseteq Libraries BY DEF SelectInv, Selected
<1>5. \A s \in shares : Share(New(s)) /\ Listable(New(s)) /\ Continues(s, New(s))
  BY <1>4 DEF SharingInv, StateOK, Share, SelectInv, Listable, Continues
<1> HIDE DEF New
<1>6. \A x \in shares' : Share(x) /\ Listable(x) /\ \E s \in shares : Continues(s, x)
  BY <1>3, <1>5
<1>7. libraries' \subseteq Libraries /\ issued' \in Nat /\ issued <= issued'
  BY <1>1 DEF SharingInv, StateOK, SelectInv
<1> QED BY <1>1, <1>2, <1>6, <1>7, OthersStaySelected DEF SharingInv

LEMMA InviteKeepsSelect ==
  ASSUME SelectInv, SharingInv, SharingInv', NEW c \in Commands, Invite(c)
  PROVE  SelectInv'
<1>1. /\ Become(c, Idle) /\ UNCHANGED <<resources, libraries>> /\ issued' = issued + 1
      /\ issued \in Nat
  BY DEF Invite, Ends, Become, SharingInv, StateOK
<1>2. \A d \in Commands : proc'[d] = proc[d] \/ proc'[d] = Idle
  BY <1>1, OneCommandChanges DEF SharingInv, StateOK
<1>3. PICK u \in Users :
        shares' = shares \cup {[id |-> issued + 1, user |-> u, owned |-> TRUE, pending |-> TRUE,
                                machine |-> proc[c].machine, grants |-> proc[c].requested]}
  BY DEF Invite
<1>4. proc[c].requested \subseteq Libraries BY DEF SelectInv, Selected
<1>5. \A x \in shares : Listable(x) /\ Continues(x, x) BY DEF SelectInv, Continues
<1>6. \A x \in shares' : x \in shares \/ (Listable(x) /\ x.id = issued + 1)
  <2> DEFINE new == [id |-> issued + 1, user |-> u, owned |-> TRUE, pending |-> TRUE,
                     machine |-> proc[c].machine, grants |-> proc[c].requested]
  <2>1. new.user = u /\ new.pending = TRUE /\ new.grants = proc[c].requested /\ new.id = issued + 1
    OBVIOUS
  <2>2. shares' = shares \cup {new} BY <1>3
  <2> HIDE DEF new
  <2>3. Listable(new) BY <1>4, <2>1 DEF Listable
  <2> QED BY <2>1, <2>2, <2>3
<1>7. \A x \in shares' : x \in shares \/ (Listable(x) /\ issued < x.id)
  BY <1>1, <1>6
<1>8. \A x \in shares' : Share(x) BY DEF SharingInv, StateOK, Share
<1>9. libraries' \subseteq Libraries /\ issued' \in Nat /\ issued <= issued'
  BY <1>1 DEF SelectInv
<1> QED BY <1>1, <1>2, <1>5, <1>7, <1>8, <1>9, OthersStaySelected DEF SharingInv

LEMMA OthersChangeKeepsSelect ==
  ASSUME SelectInv, SharingInv, SharingInv', OthersChange
  PROVE  SelectInv'
<1>1. UNCHANGED <<resources, issued, proc>> BY DEF OthersChange
<1>2. \A d \in Commands : proc'[d] = proc[d] BY <1>1
<1>3. \A x \in shares' : Share(x) BY DEF SharingInv, StateOK, Share
<1>4. issued' \in Nat /\ issued <= issued' BY <1>1 DEF SharingInv, StateOK
<1>5. \A x \in shares : Listable(x) /\ Share(x) /\ Continues(x, x)
  BY DEF SelectInv, SharingInv, StateOK, Continues
<1>6. libraries' \subseteq Libraries
  BY DEF OthersChange, OthersEdit, LibraryChanges, SelectInv
<1>7. \A x \in shares' : Listable(x) /\ \E s \in shares : Continues(s, x)
  <2>1. CASE shares' \subseteq shares BY <1>5, <2>1
  <2>2. ASSUME NEW s \in shares, NEW t, Listable(t), Continues(s, t), shares' = (shares \ {s}) \cup {t}
        PROVE  \A x \in shares' : Listable(x) /\ \E q \in shares : Continues(q, x)
    BY <1>5, <2>2
  <2>3. ASSUME NEW s \in shares, OthersEdit(s)
        PROVE  \A x \in shares' : Listable(x) /\ \E q \in shares : Continues(q, x)
    <3>1. Share(s) /\ Listable(s) BY <1>5
    <3>2. CASE shares' = shares \ {s} BY <2>1, <3>2
    <3>3. CASE shares' = (shares \ {s}) \cup {[s EXCEPT !.pending = FALSE]}
      <4>1. Listable([s EXCEPT !.pending = FALSE]) /\ Continues(s, [s EXCEPT !.pending = FALSE])
        BY <3>1 DEF Share, Listable, Continues
      <4> QED BY <2>2, <3>3, <4>1
    <3>4. ASSUME NEW g \in SUBSET libraries, shares' = (shares \ {s}) \cup {[s EXCEPT !.grants = g]}
          PROVE  \A x \in shares' : Listable(x) /\ \E q \in shares : Continues(q, x)
      <4>1. g \subseteq Libraries BY <3>4 DEF SelectInv
      <4>2. Listable([s EXCEPT !.grants = g]) /\ Continues(s, [s EXCEPT !.grants = g])
        BY <3>1, <4>1 DEF Share, Listable, Continues
      <4> QED BY <2>2, <3>4, <4>2
    <3> QED BY <2>3, <3>2, <3>3, <3>4 DEF OthersEdit
  <2>4. CASE \E l \in Libraries : LibraryChanges(l)
    <3>1. shares' = shares BY <2>4 DEF LibraryChanges
    <3> QED BY <2>1, <3>1
  <2> QED BY <2>3, <2>4 DEF OthersChange
<1> QED BY <1>1, <1>2, <1>3, <1>4, <1>6, <1>7, OthersStaySelected DEF SharingInv

LEMMA InitHoldsSelect ==
  ASSUME SharingInit
  PROVE  SelectInv
<1>1. /\ resources \in ResourceLists /\ libraries = Libraries /\ shares \in InitialShares
      /\ \A c \in Commands : proc[c] = Idle
  BY DEF SharingInit
<1>2. \A s \in shares : Listable(s) BY <1>1, SharingAssumption DEF Listable
<1>3. \A c \in Commands : Selected(c) BY <1>1 DEF Selected, Found, Idle
<1> QED BY <1>1, <1>2, <1>3 DEF SelectInv

LEMMA NextKeepsSelect ==
  ASSUME SelectInv, SharingInv, SharingInv', [SharingNext]_vars
  PROVE  SelectInv'
<1>1. ASSUME UNCHANGED <<resources, shares, issued, libraries, proc>> PROVE SelectInv'
  <2>1. \A d \in Commands : proc'[d] = proc[d] BY <1>1
  <2>2. \A x \in shares' : Share(x) /\ Listable(x) /\ x \in shares /\ Continues(x, x)
    BY <1>1 DEF SharingInv, StateOK, SelectInv, Continues
  <2>3. libraries' \subseteq Libraries /\ issued' \in Nat /\ issued <= issued'
    BY <1>1 DEF SharingInv, StateOK, SelectInv
  <2> QED BY <1>1, <2>1, <2>2, <2>3, OthersStaySelected DEF SharingInv
<1>2. CASE RemovedPurge BY <1>1, <1>2 DEF RemovedPurge, plexVars
<1>3. CASE RemovedList BY <1>1, <1>3 DEF RemovedList, plexVars
<1>4. CASE OthersChange BY <1>4, OthersChangeKeepsSelect
<1>5. CASE Tick BY <1>1, <1>5 DEF Tick, plexVars
<1>6. CASE UNCHANGED vars BY <1>1, <1>6 DEF vars, plexVars
<1>7. ASSUME NEW c \in Commands, CommandStep(c) PROVE SelectInv'
  <2>1. CASE Begin(c) BY <2>1, BeginKeepsSelect
  <2>2. CASE ResolveServer(c) BY <2>2, ResolveServerKeepsSelect
  <2>3. CASE FindShare(c) BY <2>3, FindShareKeepsSelect
  <2>4. CASE SharedServerSections(c) BY <2>4, SharedServerSectionsKeepsSelect
  <2>5. CASE ServerLibraries(c) BY <2>5, ServerLibrariesKeepsSelect
  <2>6. CASE RemoveShare(c) BY <2>6, RemoveShareKeepsSelect
  <2>7. CASE UpdateShare(c) BY <2>7, UpdateShareKeepsSelect
  <2>8. CASE Invite(c) BY <2>8, InviteKeepsSelect
  <2>9. CASE RecordRemoval(c) BY <2>9, EndingKeepsSelect DEF RecordRemoval
  <2>10. CASE RecordingCut(c) BY <2>10, EndingKeepsSelect DEF RecordingCut
  <2>11. CASE Fails(c) BY <2>11, EndingKeepsSelect DEF Fails, OnlyAsks
  <2> QED BY <1>7, <2>1, <2>2, <2>3, <2>4, <2>5, <2>6, <2>7, <2>8, <2>9, <2>10, <2>11 DEF CommandStep
<1> QED BY <1>2, <1>3, <1>4, <1>5, <1>6, <1>7 DEF SharingNext

LEMMA SelectionHolds == Spec => []SelectInv
<1>1. SharingInit => SelectInv BY InitHoldsSelect
<1>2. SelectInv /\ SharingInv /\ SharingInv' /\ [SharingNext]_vars => SelectInv' BY NextKeepsSelect
<1> QED BY <1>1, <1>2, SharingSafety, PTL DEF Spec

(***************************************************************************)
(* Types.                                                                  *)
(***************************************************************************)
LEMMA WhatIsRecorded ==
  ASSUME SharingInv, SelectInv, NEW c \in Commands, Found(c)
  PROVE  proc[c].id \in 1 .. MaxShares /\ proc[c].snapshot \in Snapshots
<1> DEFINE s == proc[c].snapshot
<1>1. Share(s) /\ s.id = proc[c].id BY DEF SharingInv, FoundOnce
<1>2. Selected(c) /\ proc[c].phase \in {"grants", "libraries", "send", "record"} BY DEF SelectInv, Found
<1>3. s.machine = ResolveOwnedResource(proc[c].selector) /\ s.machine # NoMachine
  BY <1>2 DEF Selected
<1>4. s.machine \in OwnedMachines BY <1>3, ResolvedIsNamedAlone DEF SelectInv
<1>5. s.user \in Users /\ s.pending \in BOOLEAN /\ s.grants \in SUBSET Libraries /\ s.owned = TRUE
  BY <1>2 DEF Selected, Listable
<1>6. proc[c].id \in 1 .. MaxShares BY <1>1 DEF Share
<1>7. s \in Revocable BY <1>1, <1>4, <1>5 DEF Share, Revocable
<1> QED BY <1>6, <1>7, SharingAssumption

LEMMA RowsHaveTypes ==
  ASSUME rows \subseteq Row
  PROVE  NormalizeTimestamps(rows) \subseteq Row
<1>1. \A r \in rows : [r EXCEPT !.offset = 0] \in Row BY SharingAssumption DEF Row
<1> QED BY <1>1 DEF NormalizeTimestamps

TableInv == HistoryTypeOK /\ cut \subseteq 1 .. MaxShares

TableOK == rows \subseteq Row /\ (rows # {} => database) /\ clock \in Times

LEMMA OpeningKeepsTypes ==
  ASSUME TableOK, NEW ok \in BOOLEAN, OpenDatabase(ok),
         rows' = rows \/ rows' \subseteq NormalizeTimestamps(rows)
  PROVE  TableOK'
<1>1. NormalizeTimestamps(rows) \subseteq Row /\ (NormalizeTimestamps(rows) # {} => rows # {})
  BY RowsHaveTypes DEF TableOK, NormalizeTimestamps
<1>2. (database => database') /\ clock' = clock BY DEF OpenDatabase
<1>3. rows' \subseteq Row /\ (rows' # {} => rows # {}) BY <1>1 DEF TableOK
<1> QED BY <1>2, <1>3 DEF TableOK, Row, Times

LEMMA InsertingKeepsTypes ==
  ASSUME TableOK, SharingInv, NEW share \in Snapshots, OpenDatabase(TRUE), rows' = Inserted(share)
  PROVE  TableOK'
<1>1. NormalizeTimestamps(rows) \subseteq Row BY RowsHaveTypes DEF TableOK
<1>2. NextId(rows) \in Nat BY NextIdIsNew DEF SharingInv, StateOK
<1>3. [id |-> NextId(rows), at |-> clock, offset |-> 0, share |-> share] \in Row
  BY <1>2, SharingAssumption DEF Row, TableOK
<1>4. rows' \subseteq Row BY <1>1, <1>3 DEF Inserted
<1>5. database' = TRUE /\ clock' = clock BY DEF OpenDatabase
<1> QED BY <1>4, <1>5 DEF TableOK, Row, Times

LEMMA NextKeepsTable ==
  ASSUME TableInv, SharingInv, SelectInv, SharingInv', [SharingNext]_vars
  PROVE  TableInv'
<1> DEFINE Goal == TableOK' /\ cut' \subseteq 1 .. MaxShares
<1>1. TableOK /\ cut \subseteq 1 .. MaxShares BY DEF TableInv, HistoryTypeOK, TableOK
<1>2. ASSUME Goal PROVE TableInv'
  <2>1. \A r, s \in rows' : r.id = s.id => r = s BY DEF SharingInv, StateOK, RowsOK
  <2> QED BY <1>2, <2>1 DEF TableInv, HistoryTypeOK, TableOK
<1>3. ASSUME UNCHANGED <<historyVars, cut>> PROVE Goal
  BY <1>1, <1>3 DEF historyVars, TableOK, Row, Times
<1>4. ASSUME RemovedPurge PROVE Goal
  <2>1. PICK age \in 1 .. MaxAge, ok \in BOOLEAN : PurgeBefore(clock - age, ok)
    BY <1>4 DEF RemovedPurge
  <2>2. OpenDatabase(ok) /\ (rows' = rows \/ rows' \subseteq NormalizeTimestamps(rows)) /\ cut' = cut
    BY <1>4, <2>1 DEF PurgeBefore, RemovedPurge
  <2> QED BY <1>1, <2>2, OpeningKeepsTypes
<1>5. ASSUME RemovedList PROVE Goal
  <2>1. PICK ok \in BOOLEAN : List(ok) BY <1>5 DEF RemovedList
  <2>2. OpenDatabase(ok) /\ (rows' = rows \/ rows' \subseteq NormalizeTimestamps(rows)) /\ cut' = cut
    BY <1>5, <2>1 DEF List, RemovedList, ghostVars
  <2> QED BY <1>1, <2>2, OpeningKeepsTypes
<1>6. ASSUME Tick PROVE Goal
  <2>1. clock' \in Times BY <1>1, <1>6, SharingAssumption DEF Tick, TableOK, Times
  <2>2. UNCHANGED <<rows, database, cut>> BY <1>6 DEF Tick, ghostVars
  <2> QED BY <1>1, <2>1, <2>2 DEF TableOK, Row, Times
<1>7. ASSUME NEW c \in Commands, RemoveShare(c) PROVE Goal
  <2>1. UNCHANGED historyVars BY <1>7 DEF RemoveShare
  <2>2. Found(c) BY <1>7 DEF RemoveShare, At, Found
  <2>3. proc[c].id \in 1 .. MaxShares BY <2>2, WhatIsRecorded
  <2>4. cut' \subseteq 1 .. MaxShares BY <1>1, <1>7, <2>3 DEF RemoveShare
  <2> QED BY <1>1, <2>1, <2>4 DEF historyVars, TableOK, Row, Times
<1>8. ASSUME NEW c \in Commands, RecordRemoval(c) PROVE Goal
  <2>1. Found(c) BY <1>8 DEF RecordRemoval, Recording, At, Found
  <2>2. proc[c].snapshot \in Snapshots BY <2>1, WhatIsRecorded
  <2>3. OpenDatabase(TRUE) /\ rows' = Inserted(proc[c].snapshot) /\ cut' = cut
    BY <1>8 DEF RecordRemoval, AppendRecord, ghostVars
  <2> QED BY <1>1, <2>2, <2>3, InsertingKeepsTypes
<1>9. ASSUME NEW c \in Commands, RecordingCut(c) PROVE Goal
  <2>1. Found(c) BY <1>9 DEF RecordingCut, Recording, At, Found
  <2>2. proc[c].id \in 1 .. MaxShares BY <2>1, WhatIsRecorded
  <2>3. cut' \subseteq 1 .. MaxShares BY <1>1, <1>9, <2>2 DEF RecordingCut
  <2>4. OpenDatabase(FALSE) /\ (rows' = rows \/ rows' \subseteq NormalizeTimestamps(rows))
    BY <1>9 DEF RecordingCut, AppendRecord
  <2> QED BY <1>1, <2>3, <2>4, OpeningKeepsTypes
<1>10. ASSUME NEW c \in Commands, CommandStep(c) PROVE Goal
  <2>1. \/ RemoveShare(c) \/ RecordRemoval(c) \/ RecordingCut(c) \/ UNCHANGED <<historyVars, cut>>
    BY <1>10 DEF CommandStep, Begin, ResolveServer, FindShare, SharedServerSections, ServerLibraries,
                 UpdateShare, Invite, Fails, OnlyAsks, ghostVars
  <2> QED BY <1>3, <1>7, <1>8, <1>9, <2>1
<1>11. OthersChange \/ UNCHANGED vars => UNCHANGED <<historyVars, cut>>
  BY DEF OthersChange, vars, ghostVars
<1> HIDE DEF Goal
<1>12. Goal BY <1>3, <1>4, <1>5, <1>6, <1>10, <1>11 DEF SharingNext
<1> QED BY <1>2, <1>12

LEMMA InitHoldsTable ==
  ASSUME SharingInit
  PROVE  TableInv
<1>1. /\ rows \in InitialRows /\ database = (rows # {}) /\ clock = MaxTime - 1 /\ cut = {}
  BY DEF SharingInit, HistoryInit
<1>2. rows \subseteq Row /\ \A r, s \in rows : r.id = s.id => r = s
  BY <1>1, SharingAssumption DEF Row
<1>3. clock \in Times BY <1>1, SharingAssumption DEF Times
<1> QED BY <1>1, <1>2, <1>3 DEF TableInv, HistoryTypeOK

\* The variables of the commands and of the history have their types: above
\* all, what a command is about to record is a share the history can hold, one
\* of an external user on an owned server (sharing.go:303-323, history.go:22).
THEOREM SharingTypes == Spec => []SharingTypeOK
<1>1. SharingInit => TableInv BY InitHoldsTable
<1>2. TableInv /\ SharingInv /\ SelectInv /\ SharingInv' /\ [SharingNext]_vars => TableInv'
  BY NextKeepsTable
<1>3. TableInv /\ SharingInv /\ SelectInv => SharingTypeOK
  <2> SUFFICES ASSUME TableInv, SharingInv, SelectInv PROVE SharingTypeOK OBVIOUS
  <2>1. \A s \in shares : s.id \in 1 .. MaxShares /\ s.grants \subseteq Libraries
    BY DEF SharingInv, StateOK, Share, SelectInv, Listable
  <2>2. ASSUME NEW c \in Commands
        PROVE  /\ proc[c].phase \in Phases /\ proc[c].requested \subseteq Libraries
               /\ proc[c].phase = "record" => proc[c].snapshot \in Snapshots
    <3>1. proc[c].phase \in Phases BY DEF SharingInv, StateOK, Command
    <3>2. proc[c].requested \subseteq Libraries BY DEF SelectInv, Selected
    <3>3. proc[c].phase = "record" => Found(c) BY DEF SelectInv, Selected, Found
    <3> QED BY <3>1, <3>2, <3>3, WhatIsRecorded
  <2>3. fresh \subseteq Commands BY DEF SharingInv, FreshIsTrue
  <2> QED BY <2>1, <2>2, <2>3 DEF SharingTypeOK, TableInv, SelectInv
<1> QED BY <1>1, <1>2, <1>3, SharingSafety, SelectionHolds, PTL DEF Spec

(***************************************************************************)
(* What a command changes.                                                 *)
(***************************************************************************)
LEMMA OneCommandMoves ==
  ASSUME DOMAIN proc = Commands, [SharingNext]_vars, NEW c \in Commands, proc'[c] # proc[c]
  PROVE  CommandStep(c)
<1>1. ~(RemovedPurge \/ RemovedList \/ OthersChange \/ Tick \/ UNCHANGED vars)
  BY DEF RemovedPurge, RemovedList, OthersChange, Tick, vars
<1>2. PICK d \in Commands : CommandStep(d) BY <1>1 DEF SharingNext
<1>3. ASSUME NEW p, Become(d, p) PROVE d = c BY <1>3, OneCommandChanges
<1>4. d = c
  BY <1>2, <1>3
  DEF CommandStep, Begin, ResolveServer, FindShare, SharedServerSections, ServerLibraries,
      RemoveShare, UpdateShare, Invite, RecordRemoval, RecordingCut, Fails, Ends, Become
<1> QED BY <1>2, <1>4

\* Whatever changes between the requests of a command, what it revokes,
\* replaces or adds is on the owned server its selector names alone, and what
\* it revokes or replaces is the one share with that identifier, which
\* `sharing users` would list (client.go:562 and :599, sharing.go:166).
THEOREM OnlySelectedSharesChange == Spec => OnlySelectedShares
<1> DEFINE Step(c) ==
      proc[c].phase = "send" /\ proc'[c] # proc[c] =>
        /\ shares' # shares => NamedAlone(proc[c].selector, proc[c].machine)
        /\ \A s \in shares' \ shares : s.machine = proc[c].machine /\ s.grants # {}
        /\ \A s \in shares \ shares' : /\ s.machine = proc[c].machine /\ s.id = proc[c].id
                                       /\ s.user = proc[c].snapshot.user
                                       /\ s \in SharingUsers
<1>1. ASSUME SharingInv, SelectInv, [SharingNext]_vars, NEW c \in Commands PROVE Step(c)
  <2> SUFFICES ASSUME proc[c].phase = "send", proc'[c] # proc[c]
               PROVE  /\ shares' # shares => NamedAlone(proc[c].selector, proc[c].machine)
                      /\ \A s \in shares' \ shares : s.machine = proc[c].machine /\ s.grants # {}
                      /\ \A s \in shares \ shares' : /\ s.machine = proc[c].machine /\ s.id = proc[c].id
                                                     /\ s.user = proc[c].snapshot.user
                                                     /\ s \in SharingUsers
    OBVIOUS
  <2>1. CommandStep(c) BY <1>1, OneCommandMoves DEF SharingInv, StateOK
  <2>2. Selected(c) BY <1>1 DEF SelectInv
  <2>3. /\ proc[c].machine = ResolveOwnedResource(proc[c].selector)
        /\ proc[c].machine # NoMachine
    BY <2>2 DEF Selected
  <2>4. NamedAlone(proc[c].selector, proc[c].machine)
    BY <1>1, <2>3, ResolvedIsNamedAlone DEF SelectInv
  <2>5. \/ RemoveShare(c) \/ UpdateShare(c) \/ Invite(c) \/ shares' = shares
    BY <2>1 DEF CommandStep, Begin, ResolveServer, FindShare, SharedServerSections, ServerLibraries,
                RecordRemoval, RecordingCut, Fails, OnlyAsks, plexVars
  <2>6. ASSUME Found(c), NEW s \in Addressed(c)
        PROVE  /\ s.machine = proc[c].machine /\ s.id = proc[c].id
               /\ s.user = proc[c].snapshot.user /\ s \in SharingUsers
    <3>1. s \in shares /\ s.id = proc[c].id /\ s.machine = proc[c].machine BY DEF Addressed
    <3>2. s.user = proc[c].snapshot.user /\ s.owned /\ s.user \notin Home
      BY <2>2, <2>6, <3>1 DEF Selected
    <3>3. ResolveOwnedResource(s.machine) # NoMachine
      <4>1. PICK r \in ToSet(resources) : r.machine = proc[c].machine /\ r.owned
        BY <2>4 DEF NamedAlone
      <4>2. ResolveOwnedResource(r.machine) = r.machine
        BY <1>1, <4>1, OwnMachineResolves DEF SelectInv
      <4> QED BY <2>3, <3>1, <4>1, <4>2
    <3> QED BY <3>1, <3>2, <3>3 DEF SharingUsers
  <2>7. CASE RemoveShare(c)
    <3>1. shares' = shares \ Addressed(c) /\ Found(c) BY <2>7 DEF RemoveShare, At, Found
    <3> QED BY <2>4, <2>6, <3>1
  <2>8. CASE UpdateShare(c)
    <3> DEFINE New(s) == IF s \in Addressed(c) THEN [s EXCEPT !.grants = proc[c].requested] ELSE s
    <3>1. shares' = {New(s) : s \in shares} /\ Found(c) /\ proc[c].requested # {}
      BY <2>2, <2>8 DEF UpdateShare, At, Found, Selected
    <3>2. ASSUME NEW s \in Addressed(c)
          PROVE  New(s).machine = proc[c].machine /\ New(s).grants = proc[c].requested
      <4>1. s \in shares /\ s.machine = proc[c].machine BY DEF Addressed
      <4>2. Share(s) BY <1>1, <4>1 DEF SharingInv, StateOK
      <4>3. New(s) = [s EXCEPT !.grants = proc[c].requested] OBVIOUS
      <4> HIDE DEF New
      <4> QED BY <4>1, <4>2, <4>3 DEF Share
    <3>3. \A s \in shares : s \notin Addressed(c) => New(s) = s OBVIOUS
    <3>4. \A s \in Addressed(c) : s \in shares BY DEF Addressed
    <3> HIDE DEF New
    <3>5. ASSUME NEW x \in shares' \ shares PROVE x.machine = proc[c].machine /\ x.grants # {}
      <4>1. PICK s \in shares : x = New(s) BY <3>1
      <4>2. s \in Addressed(c) BY <3>3, <4>1
      <4> QED BY <3>1, <3>2, <4>1, <4>2
    <3>6. \A s \in shares \ shares' : s \in Addressed(c) BY <3>1, <3>3
    <3> QED BY <2>4, <2>6, <3>1, <3>5, <3>6
  <2>9. CASE Invite(c)
    <3>1. PICK u \in Users :
            shares' = shares \cup {[id |-> issued + 1, user |-> u, owned |-> TRUE, pending |-> TRUE,
                                    machine |-> proc[c].machine, grants |-> proc[c].requested]}
      BY <2>9 DEF Invite
    <3>2. proc[c].requested # {} BY <2>2, <2>9 DEF Invite, At, Selected
    <3> QED BY <2>4, <3>1, <3>2
  <2>10. CASE shares' = shares BY <2>10
  <2> QED BY <2>5, <2>7, <2>8, <2>9, <2>10
<1>2. SharingInv /\ SelectInv /\ [SharingNext]_vars => [\A c \in Commands : Step(c)]_vars
  BY <1>1
<1> QED BY <1>2, SharingSafety, SelectionHolds, PTL DEF Spec, OnlySelectedShares

(***************************************************************************)
(* The queries of the table.                                               *)
(***************************************************************************)
LEMMA TablesAreFinite ==
  ASSUME NEW rs, RowsOK(rs)
  PROVE  IsFiniteSet(rs)
<1> DEFINE S == {r.id : r \in rs}
           f == [r \in rs |-> r.id]
<1>1. PICK n \in Nat : \A r \in rs : r.id <= n
  BY DEF RowsOK
<1>2. S \in SUBSET Nat /\ \A x \in S : x <= n
  BY <1>1 DEF RowsOK
<1>3. IsFiniteSet(S)
  <2> HIDE DEF S
  <2>1. QED
    BY <1>2, FS_BoundedSetOfNaturals
<1>4. f \in Injection(rs, S)
  BY DEF Injection, IsInjective, RowsOK
<1>5. QED
  <2> HIDE DEF f, S
  <2>1. QED
    BY <1>3, <1>4, FS_Injection

\* Of rows in UTC, the order of the text is the order of the instants.
LEMMA TextIsInstant ==
  ASSUME rows \subseteq Row
  PROVE  \A q \in NormalizeTimestamps(rows) : q \in Row /\ q.at \in Nat /\ q.id \in Nat /\ Text(q) = q.at
<1>1. \A r \in rows : [r EXCEPT !.offset = 0] \in Row /\ [r EXCEPT !.offset = 0].offset = 0
  BY SharingAssumption DEF Row
<1>2. ASSUME NEW q \in NormalizeTimestamps(rows)
      PROVE  q \in Row /\ q.at \in Nat /\ q.id \in Nat /\ q.offset = 0
  BY <1>1, <1>2, SharingAssumption DEF NormalizeTimestamps, Row, Times
<1>3. QED
  BY <1>2 DEF Text

\* The purge and its dry run count the same rows.
LEMMA DryRunCounts ==
  ASSUME RowsOK(rows), rows \subseteq Row, NEW cutoff \in Times
  PROVE  CountBeforeReadOnly(rows, cutoff) = Cardinality(Before(NormalizeTimestamps(rows), cutoff))
<1> DEFINE N(r) == [r EXCEPT !.offset = 0]
           old == {r \in rows : r.at < cutoff}
           gone == Before(NormalizeTimestamps(rows), cutoff)
           f == [r \in old |-> N(r)]
<1>1. \A r \in rows : N(r).at = r.at /\ N(r).id = r.id
  BY DEF Row
<1>2. \A q \in NormalizeTimestamps(rows) : Text(q) = q.at
  BY TextIsInstant
<1>3. gone = {q \in NormalizeTimestamps(rows) : q.at < cutoff}
  BY <1>2 DEF Before, FormatTimestamp
<1>4. gone = {N(r) : r \in old}
  BY <1>1, <1>3 DEF NormalizeTimestamps
<1>5. \A r, s \in old : N(r) = N(s) => r = s
  <2>1. \A r, s \in rows : N(r) = N(s) => r.id = s.id
    BY <1>1
  <2>2. QED
    BY <2>1 DEF RowsOK
<1>6. IsFiniteSet(old)
  <2>1. IsFiniteSet(rows) /\ old \in SUBSET rows
    BY TablesAreFinite
  <2> HIDE DEF old
  <2>2. QED
    BY <2>1, FS_Subset
<1> HIDE DEF N, old, gone
<1>7. f \in Bijection(old, gone)
  BY <1>4, <1>5 DEF Bijection, Injection, Surjection, IsInjective
<1>8. ExistsBijection(old, gone)
  BY <1>7 DEF ExistsBijection
<1>9. Cardinality(gone) = Cardinality(old)
  BY <1>6, <1>8, FS_Bijection
<1>10. CountBeforeReadOnly(rows, cutoff) = Cardinality(old)
  BY DEF CountBeforeReadOnly, old
<1>11. QED
  BY <1>9, <1>10 DEF gone

\* The list has every row once, the newest first.
LEMMA ListIsSorted ==
  ASSUME NEW all, IsFiniteSet(all), \A q \in all : q.at \in Nat /\ q.id \in Nat /\ Text(q) = q.at,
         \A q, r \in all : q.id = r.id => q = r
  PROVE  \E list \in Seq(all), n \in Nat :
           /\ list = InOrder(all, Newest(all)) /\ Len(list) = n /\ n = Cardinality(all)
           /\ \A r \in all : \E i \in 1 .. n : list[i] = r
           /\ \A i, j \in 1 .. n : i < j => list[i].at >= list[j].at
<1> PICK list, n : list = InOrder(all, Newest(all)) /\ n = Cardinality(all)
  OBVIOUS
<1>1. \A q, r \in all : <<q, r>> \in Newest(all) <=> q.at > r.at \/ (q.at = r.at /\ q.id > r.id)
  BY DEF Newest, Newer
<1>2. StrictOrder(all, Newest(all))
  BY <1>1 DEF StrictOrder
<1>3. /\ n \in Nat /\ list \in [1 .. n -> all]
      /\ \A r \in all : \E i \in 1 .. n : list[i] = r
      /\ \A i, j \in 1 .. n : i < j => <<list[i], list[j]>> \in Newest(all)
  BY <1>2, PutInOrder
<1>4. list \in Seq(all) /\ Len(list) = n
  BY <1>3
<1>5. ASSUME NEW i \in 1 .. n, NEW j \in 1 .. n, i < j PROVE list[i].at >= list[j].at
  <2>1. list[i] \in all /\ list[j] \in all /\ <<list[i], list[j]>> \in Newest(all)
    BY <1>3, <1>5
  <2>2. QED
    BY <1>1, <2>1
<1>6. QED
  BY <1>3, <1>4, <1>5

LEMMA QueriesAgree == RowsOK(rows) /\ rows \subseteq Row => HistoryQueriesAgree
<1> SUFFICES ASSUME RowsOK(rows), rows \subseteq Row PROVE HistoryQueriesAgree
  OBVIOUS
<1>1. PICK all : all = NormalizeTimestamps(rows)
  OBVIOUS
<1>2. RowsOK(all) /\ IsFiniteSet(all) /\ SameRecords(rows, all) /\ SameRecords(all, rows)
  BY <1>1, NormalizingKeepsRecords, TablesAreFinite
<1>3. \A q \in all : q.at \in Nat /\ q.id \in Nat /\ Text(q) = q.at
  BY <1>1, TextIsInstant
<1>4. \A q, r \in all : q.id = r.id => q = r
  BY <1>2 DEF RowsOK
<1>5. PICK list \in Seq(all), n \in Nat :
        /\ list = InOrder(all, Newest(all)) /\ Len(list) = n /\ n = Cardinality(all)
        /\ \A r \in all : \E i \in 1 .. n : list[i] = r
        /\ \A i, j \in 1 .. n : i < j => list[i].at >= list[j].at
  BY <1>2, <1>3, <1>4, ListIsSorted
<1>6. Listed(rows) = list
  BY <1>1, <1>5 DEF Listed
<1>7. DOMAIN list = 1 .. n /\ ToSet(list) = all
  <2>1. DOMAIN list = 1 .. n /\ \A i \in 1 .. n : list[i] \in all
    BY <1>5
  <2>2. QED
    BY <1>5, <2>1 DEF ToSet
<1>8. {r.id : r \in all} = {r.id : r \in rows}
  BY <1>2 DEF SameRecords
<1>9. n = Cardinality(rows)
  <2> DEFINE N(r) == [r EXCEPT !.offset = 0]
             f == [r \in rows |-> N(r)]
  <2>1. \A r \in rows : N(r).id = r.id
    BY DEF Row
  <2>2. \A r, s \in rows : N(r) = N(s) => r = s
    <3>1. \A r, s \in rows : N(r) = N(s) => r.id = s.id
      BY <2>1
    <3>2. QED
      BY <3>1 DEF RowsOK
  <2>3. all = {N(r) : r \in rows}
    BY <1>1 DEF NormalizeTimestamps
  <2> HIDE DEF N
  <2>4. f \in Bijection(rows, all)
    BY <2>2, <2>3 DEF Bijection, Injection, Surjection, IsInjective
  <2>5. ExistsBijection(rows, all) /\ IsFiniteSet(rows)
    BY <2>4, TablesAreFinite DEF ExistsBijection
  <2>6. QED
    BY <1>5, <2>5, FS_Bijection
<1>10. \A cutoff \in Times :
         CountBeforeReadOnly(rows, cutoff) = Cardinality(Before(NormalizeTimestamps(rows), cutoff))
  BY DryRunCounts
<1>11. QED
  BY <1>5, <1>6, <1>7, <1>8, <1>9, <1>10 DEF HistoryQueriesAgree

\* Whatever older versions, commands and failures leave in the table, the purge
\* deletes as many rows as its dry run counts, and the list has every row once,
\* the newest first.
THEOREM QueriesOfTheHistoryAgree == Spec => []HistoryQueriesAgree
<1>1. SharingInv /\ SharingTypeOK => RowsOK(rows) /\ rows \subseteq Row
  BY DEF SharingInv, StateOK, SharingTypeOK, HistoryTypeOK
<1>2. QED
  BY <1>1, QueriesAgree, SharingSafety, SharingTypes, PTL
=============================================================================
