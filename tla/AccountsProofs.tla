--------------------------- MODULE AccountsProofs ---------------------------
(***************************************************************************)
(* What the commands that change the configuration and the credentials     *)
(* keep, for any accounts, servers, discoveries and commands at once.      *)
(***************************************************************************)
EXTENDS Accounts, SelectionsProofs, FiniteSetTheorems

(***************************************************************************)
(* Types, and at which phase which command is in which call of the store.  *)
(***************************************************************************)
Phases == {"idle", "load", "plex", "account", "servers", "journal", "write", "undo",
           "restore", "failed", "save", "next", "ended"}

Prior == [key : Keys, prior : Entry]
Read == [Keys -> Entry \cup {Unreadable}]

Process == [phase : Phases,
            cmd : {"none", "login", "import", "logout", "edit"},
            acct : Account \cup {NoAccount},
            token : Entry,
            names : SUBSET Account,
            conf : Config,
            old : Config,
            found : SUBSET Machines,
            own : SUBSET Machines,
            journal : Seq(Prior),
            seen : {<<>>} \cup Read,
            after : {"failed", "restore"},
            failed : BOOLEAN]

CallRecord == [op : {"set", "delete"}, key : Keys, value : Entry,
               inKeyring : BOOLEAN, loaded : [Keys -> Entry] \cup {Unreadable}]

Sets(x, k, v) == x.op = "set" /\ x.key = k /\ x.value = v
Deletes(x, k) == x.op = "delete" /\ x.key = k /\ x.value = NoToken

LastOf(p) == p.journal[Len(p.journal)]

\* Call x of process p is the one its phase makes.
CallFits(p, x) ==
  \/ p.cmd = "login" /\ p.phase = "account" /\ Sets(x, AccountKey(p.acct), p.token)
  \/ /\ p.cmd = "login" /\ p.phase = "servers"
     /\ \E id \in p.found \cap p.own : Sets(x, ServerKey(p.acct, id), p.token)
  \/ p.cmd = "logout" /\ p.phase = "account" /\ Deletes(x, AccountKey(p.acct))
  \/ /\ p.cmd = "logout" /\ p.phase = "servers"
     /\ \E id \in p.found : p.old.profiles[id].own /\ Deletes(x, ServerKey(p.acct, id))
  \/ p.cmd = "import" /\ p.phase = "write" /\ Sets(x, LastOf(p).key, p.token)
  \/ /\ p.cmd = "import" /\ p.phase = "undo"
     /\ IF LastOf(p).prior = NoToken THEN Deletes(x, LastOf(p).key)
        ELSE Sets(x, LastOf(p).key, LastOf(p).prior)

Shaped(p, x) ==
  /\ p.cmd \in {"login", "import"} => p.token \in Tokens
  /\ \/ p.cmd = "login"
     \/ p.cmd = "import" /\ p.phase # "next"
     \/ p.cmd = "logout" /\ p.phase \in {"account", "servers", "save"}
     => p.acct \in Account
  /\ p.phase \in {"write", "undo"} => p.journal # <<>>
  /\ x # NoCall => CallFits(p, x)

StoreTyped ==
  /\ keyring \in [Keys -> Entry]
  /\ tokenFile \in [Keys -> Entry]
  /\ broken \subseteq Parts
  /\ call \in [Commands -> CallRecord \cup {NoCall}]

RestTyped ==
  /\ config \in Config
  /\ events \in 0 .. MaxEvents
  /\ quiet \subseteq Commands
  /\ contested \subseteq Account
  /\ halfway \subseteq Account

CommandsShaped ==
  /\ proc \in [Commands -> Process]
  /\ \A c \in Commands : Shaped(proc[c], call[c])

CommandInv == StoreTyped /\ RestTyped /\ CommandsShaped

LEMMA KeysAreKeys ==
  /\ \A a \in Account : AccountKey(a) \in Keys
  /\ \A a \in Account, id \in Machines : ServerKey(a, id) \in Keys
  /\ \A a, b \in Account, id, jd \in Machines :
       /\ AccountKey(a) # ServerKey(b, id)
       /\ AccountKey(a) = AccountKey(b) => a = b
       /\ ServerKey(a, id) = ServerKey(b, jd) => a = b /\ id = jd
  /\ \A a \in Account, id \in Machines : ServerKey(a, id).id = id /\ ServerKey(a, id).acct = a
  /\ \A a \in Account : AccountKey(a).acct = a
BY AccountsAssumption DEF AccountKey, ServerKey

LEMMA EmptyConfigTyped == EmptyConfig \in Config
BY DEF EmptyConfig, Config

LEMMA IdleTyped == Idle \in Process
BY EmptyConfigTyped, EmptySeq, AccountsAssumption DEF Idle, Process, Phases, Entry

LEMMA GetTyped ==
  ASSUME StoreTyped, NEW k \in Keys
  PROVE  Get(k) \in Entry \cup {Unreadable}
BY AccountsAssumption DEF Get, FileFallback, StoreTyped

\* What the commands make of a configuration is one.
LEMMA ConfigsTyped ==
  ASSUME NEW conf \in Config, NEW a \in Account
  PROVE  /\ \A ids, own \in SUBSET Machines : WithProfiles(conf, a, ids, own) \in Config
         /\ \A id \in Machines : Without(conf, id) \in Config
         /\ \A ids \in SUBSET Machines : \A id \in ids \cup {NoMachine} :
              FirstServer(conf, ids, id) \in Machines \cup {NoMachine}
         /\ ProfilesOf(conf, a) \in SUBSET Machines
<1>1. ASSUME NEW ids \in SUBSET Machines, NEW own \in SUBSET Machines
      PROVE  WithProfiles(conf, a, ids, own) \in Config
  <2> DEFINE P == [id \in Machines |-> IF id \in ids THEN [acct |-> a, own |-> id \in own]
                                      ELSE conf.profiles[id]]
  <2>1. ASSUME NEW id \in Machines PROVE P[id] \in Profile \cup {NoProfile}
    <3>1. (id \in own) \in BOOLEAN
      OBVIOUS
    <3>2. [acct |-> a, own |-> id \in own] \in Profile
      BY <3>1 DEF Profile
    <3>3. conf.profiles[id] \in Profile \cup {NoProfile}
      BY DEF Config
    <3>4. QED
      BY <3>2, <3>3
  <2>2. P \in [Machines -> Profile \cup {NoProfile}]
    BY <2>1
  <2>3. WithProfiles(conf, a, ids, own) = [conf EXCEPT !.profiles = P]
    BY DEF WithProfiles
  <2> HIDE DEF P
  <2>4. QED
    BY <2>2, <2>3 DEF Config
<1>2. ASSUME NEW id \in Machines PROVE Without(conf, id) \in Config
  BY DEF Without, Config
<1>3. ASSUME NEW ids \in SUBSET Machines, NEW id \in ids \cup {NoMachine}
      PROVE  FirstServer(conf, ids, id) \in Machines \cup {NoMachine}
  BY DEF FirstServer, Config
<1>4. ProfilesOf(conf, a) \in SUBSET Machines
  BY DEF ProfilesOf
<1>5. QED
  BY <1>1, <1>2, <1>3, <1>4

LEMMA EditsTyped ==
  ASSUME NEW conf \in Config
  PROVE  Edited(conf) \subseteq Config
<1>1. ASSUME NEW n \in Names PROVE ConfigSet(conf, n) \in Config
  BY DEF ConfigSet, Config
<1>2. ASSUME NEW n \in conf.servers PROVE ConfigUse(conf, n) \in Config
  BY DEF ConfigUse, Config
<1>3. ASSUME NEW a \in conf.accounts PROVE AccountsUse(conf, a) \in Config
  <2>1. ProfilesOf(conf, a) # {} => Min(ProfilesOf(conf, a)) \in Machines
    <3>1. ProfilesOf(conf, a) \in SUBSET Nat /\ ProfilesOf(conf, a) \subseteq Machines
      BY AccountsAssumption DEF ProfilesOf
    <3>2. QED
      BY <3>1, SmallestOf DEF Min
  <2>2. QED
    BY <2>1 DEF AccountsUse, Config
<1>4. ASSUME NEW id \in Machines, conf.profiles[id] # NoProfile PROVE ServersUse(conf, id) \in Config
  BY <1>4 DEF ServersUse, Config, Profile
<1>5. QED
  BY <1>1, <1>2, <1>3, <1>4 DEF Edited

(***************************************************************************)
(* A step of a command changes its own process and call, and nothing of    *)
(* the others'.                                                            *)
(***************************************************************************)
Turns(c, q, x) == proc' = [proc EXCEPT ![c] = q] /\ call' = [call EXCEPT ![c] = x]

Moves(c) == \E q \in Process, x \in CallRecord \cup {NoCall} : Turns(c, q, x) /\ Shaped(q, x)

EntriesTyped == keyring \in [Keys -> Entry] /\ tokenFile \in [Keys -> Entry] /\ broken \subseteq Parts

LEMMA MovesKeep ==
  ASSUME CommandInv, NEW c \in Commands, Moves(c), EntriesTyped', RestTyped'
  PROVE  CommandInv'
<1>1. PICK q \in Process, x \in CallRecord \cup {NoCall} : Turns(c, q, x) /\ Shaped(q, x)
  BY DEF Moves
<1>2. proc' = [proc EXCEPT ![c] = q] /\ call' = [call EXCEPT ![c] = x]
  BY <1>1 DEF Turns
<1>3. /\ proc \in [Commands -> Process] /\ call \in [Commands -> CallRecord \cup {NoCall}]
      /\ \A d \in Commands : Shaped(proc[d], call[d])
  BY DEF CommandInv, CommandsShaped, StoreTyped
<1>4. proc' \in [Commands -> Process] /\ call' \in [Commands -> CallRecord \cup {NoCall}]
  BY <1>2, <1>3
<1>5. ASSUME NEW d \in Commands PROVE Shaped(proc'[d], call'[d])
  <2>1. CASE d = c
    <3>1. proc'[d] = q /\ call'[d] = x
      BY <1>2, <1>3, <2>1
    <3>2. QED
      BY <1>1, <3>1
  <2>2. CASE d # c
    <3>1. proc'[d] = proc[d] /\ call'[d] = call[d]
      BY <1>2, <1>3, <2>2
    <3>2. QED
      BY <1>3, <3>1
  <2>3. QED
    BY <2>1, <2>2
<1>6. (\A d \in Commands : Shaped(proc[d], call[d]))'
  BY <1>5 DEF Shaped, CallFits, LastOf, Sets, Deletes
<1>7. CommandsShaped'
  BY <1>4, <1>6 DEF CommandsShaped
<1>8. QED
  BY <1>4, <1>7 DEF CommandInv, StoreTyped, EntriesTyped

LEMMA BecomeMoves ==
  ASSUME CommandInv, NEW c \in Commands, NEW q \in Process, Become(c, q), call' = call,
         Shaped(q, call[c])
  PROVE  Moves(c)
<1>1. call \in [Commands -> CallRecord \cup {NoCall}]
  BY DEF CommandInv, StoreTyped
<1>2. call' = [call EXCEPT ![c] = call[c]] /\ call[c] \in CallRecord \cup {NoCall}
  BY <1>1
<1>3. Turns(c, q, call[c])
  BY <1>2 DEF Turns, Become
<1>4. QED
  BY <1>2, <1>3 DEF Moves

LEMMA ProcTyped ==
  ASSUME CommandInv, NEW c \in Commands
  PROVE  /\ proc[c] \in Process /\ call[c] \in CallRecord \cup {NoCall}
         /\ Shaped(proc[c], call[c]) /\ config \in Config /\ EntriesTyped
BY DEF CommandInv, CommandsShaped, StoreTyped, RestTyped, EntriesTyped

\* Of a process that makes no call, only little is asked.
LEMMA ShapedAlone ==
  ASSUME NEW q, q.phase \notin {"write", "undo"},
         q.cmd \in {"login", "import"} => q.token \in Tokens,
         \/ q.cmd = "login"
         \/ q.cmd = "import" /\ q.phase # "next"
         \/ q.cmd = "logout" /\ q.phase \in {"account", "servers", "save"}
         => q.acct \in Account
  PROVE  Shaped(q, NoCall)
BY DEF Shaped

LEMMA CallsBeginTyped ==
  ASSUME CommandInv, NEW c \in Commands, NEW k \in Keys, NEW t \in Entry,
         SetBegins(c, k, t) \/ DeleteBegins(c, k), UNCHANGED proc, Writes(c),
         SetBegins(c, k, t) => \A x \in CallRecord : Sets(x, k, t) => Shaped(proc[c], x),
         DeleteBegins(c, k) => \A x \in CallRecord : Deletes(x, k) => Shaped(proc[c], x)
  PROVE  CommandInv'
<1> DEFINE x(op, v) == [op |-> op, key |-> k, value |-> v,
                        inKeyring |-> Works("keyring"), loaded |-> LoadTokenFile]
<1>1. /\ proc[c] \in Process /\ proc \in [Commands -> Process] /\ EntriesTyped
      /\ NoToken \in Entry
  BY DEF CommandInv, CommandsShaped, StoreTyped, EntriesTyped, Entry
<1>2. Works("keyring") \in BOOLEAN /\ LoadTokenFile \in [Keys -> Entry] \cup {Unreadable}
  BY <1>1 DEF Works, LoadTokenFile, EntriesTyped
<1>3. x("set", t) \in CallRecord /\ x("delete", NoToken) \in CallRecord
  BY <1>1, <1>2 DEF CallRecord
<1>4. proc' = [proc EXCEPT ![c] = proc[c]]
  BY <1>1
<1>5. Moves(c) /\ EntriesTyped'
  <2>1. CASE SetBegins(c, k, t)
    <3>1. Turns(c, proc[c], x("set", t))
      BY <1>4, <2>1 DEF Turns, SetBegins, Enter
    <3>2. Shaped(proc[c], x("set", t))
      BY <1>3, <2>1 DEF Sets
    <3> HIDE DEF x
    <3>3. Moves(c)
      BY <1>1, <1>3, <3>1, <3>2 DEF Moves
    <3>4. EntriesTyped'
      BY <1>1, <2>1 DEF EntriesTyped, SetBegins, Enter
    <3>5. QED
      BY <3>3, <3>4
  <2>2. CASE DeleteBegins(c, k)
    <3>1. Turns(c, proc[c], x("delete", NoToken))
      BY <1>4, <2>2 DEF Turns, DeleteBegins, Enter
    <3>2. Shaped(proc[c], x("delete", NoToken))
      BY <1>3, <2>2 DEF Deletes
    <3> HIDE DEF x
    <3>3. Moves(c)
      BY <1>1, <1>3, <3>1, <3>2 DEF Moves
    <3>4. EntriesTyped'
      BY <1>1, <2>2 DEF EntriesTyped, DeleteBegins, Enter
    <3>5. QED
      BY <3>3, <3>4
  <2>3. QED
    BY <2>1, <2>2
<1>6. RestTyped'
  BY DEF CommandInv, RestTyped, Writes
<1>7. QED
  BY <1>5, <1>6, MovesKeep

LEMMA CallsEndTyped ==
  ASSUME CommandInv, NEW c \in Commands, NEW ok, CallEnds(c, ok)
  PROVE  EntriesTyped' /\ call[c] \in CallRecord /\ call' = [call EXCEPT ![c] = NoCall]
<1>1. call[c] \in CallRecord
  BY ProcTyped DEF CallEnds, SetEnds, DeleteEnds
<1>2. SaveTokenFile(call[c]) /\ broken' = broken
  BY DEF CallEnds, SetEnds, DeleteEnds
<1>3. keyring' \in [Keys -> Entry]
  BY <1>1, ProcTyped DEF CallEnds, SetEnds, DeleteEnds, EntriesTyped, CallRecord, Entry
<1>4. tokenFile' \in [Keys -> Entry]
  <2>1. FileValue(call[c]) \in Entry /\ call[c].key \in Keys
    BY <1>1 DEF FileValue, CallRecord, Entry
  <2>2. Saves(call[c]) => call[c].loaded \in [Keys -> Entry]
    BY <1>1 DEF Saves, Readable, CallRecord
  <2>3. tokenFile \in [Keys -> Entry]
    BY ProcTyped DEF EntriesTyped
  <2>4. QED
    BY <1>2, <2>1, <2>2, <2>3 DEF SaveTokenFile
<1>5. QED
  BY <1>1, <1>2, <1>3, <1>4, ProcTyped DEF CallEnds, EntriesTyped

LEMMA CallEndMoves ==
  ASSUME CommandInv, NEW c \in Commands, NEW ok, CallEnds(c, ok), NEW q \in Process, Become(c, q),
         Shaped(q, NoCall), Writes(c)
  PROVE  CommandInv'
<1>1. EntriesTyped' /\ Turns(c, q, NoCall)
  BY CallsEndTyped DEF Turns, Become
<1>2. Moves(c)
  BY <1>1 DEF Moves
<1>3. RestTyped'
  BY DEF CommandInv, RestTyped, Writes
<1>4. QED
  BY <1>1, <1>2, <1>3, MovesKeep

LEMMA LocalMoves ==
  ASSUME CommandInv, NEW c \in Commands, NEW q \in Process, Become(c, q), Local(c), Shaped(q, call[c])
  PROVE  CommandInv'
<1>1. call' = call /\ EntriesTyped' /\ RestTyped'
  BY DEF Local, storeVars, CommandInv, StoreTyped, RestTyped, EntriesTyped
<1>2. QED
  BY <1>1, BecomeMoves, MovesKeep

\* How commands end.
LEMMA EndedProcess ==
  ASSUME CommandInv, NEW c \in Commands, End(c) \/ (Fails(c) /\ proc[c].phase # "next")
  PROVE  \E q \in Process : Become(c, q) /\ Shaped(q, NoCall)
<1>1. proc[c] \in Process /\ Shaped(proc[c], call[c])
  BY ProcTyped
<1>2. CASE End(c)
  <2>1. CASE proc[c].cmd = "logout"
    <3> DEFINE q == [proc[c] EXCEPT !.phase = "ended", !.conf = EmptyConfig]
    <3>1. q \in Process /\ q.cmd = "logout" /\ q.phase = "ended"
      BY <1>1, <2>1, EmptyConfigTyped DEF Process, Phases
    <3>2. Become(c, q)
      BY <1>2, <2>1 DEF End
    <3> HIDE DEF q
    <3>3. QED
      BY <3>1, <3>2, ShapedAlone
  <2>2. CASE proc[c].cmd # "logout"
    <3> DEFINE q == [Idle EXCEPT !.phase = "ended"]
    <3>1. q \in Process /\ q.cmd = Idle.cmd /\ q.phase = "ended"
      BY IdleTyped DEF Process, Phases
    <3>2. q.cmd = "none"
      BY <3>1 DEF Idle
    <3>3. Become(c, q)
      BY <1>2, <2>2 DEF End
    <3> HIDE DEF q
    <3>4. QED
      BY <3>1, <3>2, <3>3, ShapedAlone
  <2>3. QED
    BY <2>1, <2>2
<1>3. CASE proc[c].cmd = "import" /\ proc[c].phase # "next" /\ Goto(c, "failed")
  <2> DEFINE q == [proc[c] EXCEPT !.phase = "failed"]
  <2>1. q \in Process /\ q.cmd = "import" /\ q.phase = "failed" /\ q.acct = proc[c].acct
        /\ q.token = proc[c].token
    BY <1>1, <1>3 DEF Process, Phases
  <2>2. Become(c, q)
    BY <1>3 DEF Goto
  <2> HIDE DEF q
  <2>3. QED
    BY <1>1, <1>3, <2>1, <2>2, ShapedAlone DEF Shaped
<1>4. QED
  BY <1>2, <1>3 DEF Fails

LEMMA EndMoves ==
  ASSUME CommandInv, NEW c \in Commands, End(c) \/ (Fails(c) /\ proc[c].phase # "next"),
         EntriesTyped', RestTyped', call' = [call EXCEPT ![c] = NoCall]
  PROVE  CommandInv'
<1>1. PICK q \in Process : Become(c, q) /\ Shaped(q, NoCall)
  BY EndedProcess
<1>2. Turns(c, q, NoCall)
  BY <1>1 DEF Turns, Become
<1>3. QED
  BY <1>1, <1>2, MovesKeep DEF Moves

LEMMA QuietCall ==
  ASSUME CommandInv, NEW c \in Commands, call[c] = NoCall, call' = call
  PROVE  call' = [call EXCEPT ![c] = NoCall]
BY DEF CommandInv, StoreTyped

LEMMA EndLocal ==
  ASSUME CommandInv, NEW c \in Commands, End(c) \/ (Fails(c) /\ proc[c].phase # "next"),
         call[c] = NoCall, Local(c)
  PROVE  CommandInv'
<1>1. call' = call /\ EntriesTyped' /\ RestTyped'
  BY DEF Local, storeVars, CommandInv, StoreTyped, RestTyped, EntriesTyped
<1>2. QED
  BY <1>1, QuietCall, EndMoves

LEMMA LargestOfTwo ==
  ASSUME NEW n \in Nat
  PROVE  Max({1, n}) \in Nat /\ Max({1, n}) >= 1
<1>1. \E x \in {1, n} : \A y \in {1, n} : x >= y
  <2>1. CASE n >= 1
    BY <2>1
  <2>2. CASE ~(n >= 1)
    BY <2>2
  <2>3. QED
    BY <2>1, <2>2
<1>2. Max({1, n}) \in {1, n} /\ \A y \in {1, n} : Max({1, n}) >= y
  BY <1>1 DEF Max
<1>3. QED
  BY <1>2

LEMMA BeginTyped ==
  ASSUME CommandInv, NEW c \in Commands, NEW cmd \in {"login", "import", "logout", "edit"},
         NEW accts \in SUBSET Account, IsFiniteSet(accts), cmd = "login" => accts # {},
         NEW phase \in Phases \ {"write", "undo"}, cmd = "import" => phase = "next",
         cmd = "logout" => phase = "load", Begin(c, cmd, accts, phase)
  PROVE  CommandInv'
<1> DEFINE a == IF cmd = "login" THEN CHOOSE a \in accts : TRUE ELSE NoAccount
           t == IF cmd \in {"login", "import"} THEN events' ELSE NoToken
<1>1. /\ call[c] = NoCall /\ call' = call /\ config' = config /\ quiet' = quiet
      /\ EntriesTyped'
  BY ProcTyped DEF Begin, Shaped, CallFits, storeVars, EntriesTyped
<1>2. events' \in 0 .. MaxEvents
  <2>1. Cardinality(accts) \in Nat
    BY FS_CardinalityType
  <2>2. Max({1, Cardinality(accts)}) \in Nat
    BY <2>1, LargestOfTwo
  <2>3. events \in 0 .. MaxEvents /\ MaxEvents \in Nat
    BY AccountsAssumption DEF CommandInv, RestTyped
  <2>4. QED
    BY <2>2, <2>3 DEF Begin
<1>3. contested' \subseteq Account /\ halfway' = halfway
  BY DEF Begin, CommandInv, RestTyped
<1>4. RestTyped'
  BY <1>1, <1>2, <1>3 DEF CommandInv, RestTyped
<1>5. a \in Account \cup {NoAccount} /\ (cmd = "login" => a \in Account)
  OBVIOUS
<1>6. t \in Entry /\ (cmd \in {"login", "import"} => t \in Tokens)
  BY <1>2, AccountsAssumption DEF Entry
<1>7. Become(c, [Idle EXCEPT !.phase = phase, !.cmd = cmd, !.names = accts, !.acct = a, !.token = t])
  BY DEF Begin
<1> HIDE DEF a, t
<1> DEFINE q == [Idle EXCEPT !.phase = phase, !.cmd = cmd, !.names = accts, !.acct = a, !.token = t]
<1>8. q \in Process
  BY <1>5, <1>6, IdleTyped DEF Process
<1>9. q.phase = phase /\ q.cmd = cmd /\ q.acct = a /\ q.token = t
  BY DEF Idle
<1>10. Become(c, q)
  BY <1>7
<1> HIDE DEF q
<1>11. Shaped(q, NoCall)
  BY <1>5, <1>6, <1>9, ShapedAlone
<1>12. QED
  BY <1>1, <1>4, <1>8, <1>10, <1>11, BecomeMoves, MovesKeep

LEMMA LoadsTyped ==
  ASSUME CommandInv, NEW c \in Commands, call[c] = NoCall, NEW p \in Process, NEW conf \in Config,
         Loads(c, p, conf), Shaped(p, NoCall)
  PROVE  CommandInv'
<1> DEFINE q == [p EXCEPT !.conf = conf, !.old = config]
<1>1. config \in Config
  BY ProcTyped
<1>2. q \in Process /\ q.phase = p.phase /\ q.cmd = p.cmd /\ q.acct = p.acct /\ q.token = p.token
      /\ q.journal = p.journal
  BY <1>1 DEF Process
<1>3. Become(c, q) /\ call' = call
  BY DEF Loads, storeVars
<1>4. EntriesTyped' /\ RestTyped'
  BY DEF Loads, storeVars, CommandInv, StoreTyped, RestTyped, EntriesTyped
<1> HIDE DEF q
<1>5. Shaped(q, NoCall)
  BY <1>2 DEF Shaped
<1>6. QED
  BY <1>2, <1>3, <1>4, <1>5, BecomeMoves, MovesKeep

LEMMA FindsTyped ==
  ASSUME NEW p \in Process, NEW a \in Account, NEW d \in Discoveries[a]
  PROVE  /\ Finds(p, d) \in Process /\ DOMAIN d \in SUBSET Machines
         /\ Finds(p, d).found = DOMAIN d /\ Finds(p, d).own = {id \in DOMAIN d : d[id]}
         /\ Finds(p, d).phase = p.phase /\ Finds(p, d).cmd = p.cmd /\ Finds(p, d).acct = p.acct
         /\ Finds(p, d).token = p.token /\ Finds(p, d).seen = p.seen
         /\ Finds(p, d).journal = p.journal /\ Finds(p, d).names = p.names
<1>1. DOMAIN d \in SUBSET Machines
  BY AccountsAssumption
<1>2. {id \in DOMAIN d : d[id]} \in SUBSET Machines
  BY <1>1
<1>3. QED
  BY <1>1, <1>2 DEF Finds, Process

LEMMA LoginLoadsTyped ==
  ASSUME CommandInv, NEW c \in Commands, LoginLoads(c)
  PROVE  CommandInv'
<1> DEFINE a == proc[c].acct
           p == [proc[c] EXCEPT !.phase = "account"]
<1>1. proc[c] \in Process /\ call[c] = NoCall /\ proc[c].cmd = "login" /\ a \in Account
      /\ proc[c].token \in Tokens /\ config \in Config
  BY ProcTyped DEF LoginLoads, At, Shaped
<1>2. p \in Process /\ p.phase = "account" /\ p.cmd = "login" /\ p.acct = a /\ p.token \in Tokens
  BY <1>1 DEF Process, Phases
<1>3. PICK d \in Discoveries[a] : Loads(c, Finds(p, d), config)
  BY DEF LoginLoads
<1> HIDE DEF a, p
<1>4. Finds(p, d) \in Process /\ Shaped(Finds(p, d), NoCall)
  BY <1>1, <1>2, FindsTyped, ShapedAlone
<1>5. QED
  BY <1>1, <1>3, <1>4, LoadsTyped

LEMMA ImportLoadsTyped ==
  ASSUME CommandInv, NEW c \in Commands, ImportLoads(c)
  PROVE  CommandInv'
<1> DEFINE a == proc[c].acct
           r == [proc[c] EXCEPT !.phase = "journal", !.seen = [k \in Keys |-> Get(k)]]
<1>1. proc[c] \in Process /\ call[c] = NoCall /\ proc[c].cmd = "import" /\ a \in Account
      /\ proc[c].token \in Tokens /\ config \in Config
  BY ProcTyped DEF ImportLoads, At, Shaped
<1>2. [k \in Keys |-> Get(k)] \in Read
  BY GetTyped DEF CommandInv, Read
<1>3. r \in Process /\ r.phase = "journal" /\ r.cmd = "import" /\ r.acct = a /\ r.token \in Tokens
  BY <1>1, <1>2 DEF Process, Phases
<1>4. PICK d \in Discoveries[a], first \in Machines :
        /\ DOMAIN d # {} => first \in DOMAIN d
        /\ Loads(c, Finds(r, d), [WithProfiles(config, a, Finds(r, d).found, Finds(r, d).own) EXCEPT
                                    !.accounts = @ \cup {a}, !.curAccount = a,
                                    !.curServer = FirstServer(config, Finds(r, d).found, first)])
  BY DEF ImportLoads
<1> HIDE DEF a, r
<1> DEFINE p == Finds(r, d)
           w == WithProfiles(config, a, p.found, p.own)
           f == FirstServer(config, p.found, first)
           conf == [w EXCEPT !.accounts = @ \cup {a}, !.curAccount = a, !.curServer = f]
<1>5. p \in Process /\ p.found = DOMAIN d /\ p.phase = "journal" /\ p.cmd = "import" /\ p.acct = a
      /\ p.token \in Tokens /\ p.found \in SUBSET Machines /\ p.own \in SUBSET Machines
  BY <1>1, <1>3, FindsTyped DEF Process
<1>6. Loads(c, p, conf)
  BY <1>4
<1> HIDE DEF p
<1>7. w \in Config
  BY <1>1, <1>5, ConfigsTyped
<1>8. f \in Machines \cup {NoMachine}
  <2>1. CASE p.found = {}
    BY <1>1, <2>1 DEF FirstServer, Config
  <2>2. CASE p.found # {}
    BY <1>1, <1>4, <1>5, <2>2, ConfigsTyped
  <2>3. QED
    BY <2>1, <2>2
<1> HIDE DEF w, f
<1>9. conf \in Config
  BY <1>1, <1>7, <1>8 DEF Config
<1>10. Shaped(p, NoCall)
  BY <1>1, <1>5, ShapedAlone
<1> HIDE DEF conf
<1>11. QED
  BY <1>1, <1>5, <1>6, <1>9, <1>10, LoadsTyped

LEMMA FileIsRead == ASSUME CommandInv PROVE tokenFile \in Read
BY DEF CommandInv, StoreTyped, Read

LEMMA LogoutLoadsTyped ==
  ASSUME CommandInv, NEW c \in Commands, LogoutLoads(c)
  PROVE  CommandInv'
<1>1. proc[c] \in Process /\ call[c] = NoCall /\ proc[c].cmd = "logout" /\ proc[c].phase = "load"
      /\ config \in Config
  BY ProcTyped DEF LogoutLoads, At
<1>2. PICK a \in proc[c].names :
       IF a \in config.accounts
       THEN Loads(c, [proc[c] EXCEPT !.phase = "account", !.acct = a,
                                     !.found = ProfilesOf(config, a), !.seen = tokenFile], config)
       ELSE Fails(c) /\ Local(c)
  BY DEF LogoutLoads
<1>3. CASE a \in config.accounts
  <2> DEFINE p == [proc[c] EXCEPT !.phase = "account", !.acct = a,
                             !.found = ProfilesOf(config, a), !.seen = tokenFile]
  <2>1. a \in Account /\ ProfilesOf(config, a) \in SUBSET Machines /\ tokenFile \in Read
    BY <1>1, <1>3, FileIsRead DEF Config, ProfilesOf
  <2>2. p \in Process /\ p.cmd = "logout" /\ p.phase = "account" /\ p.acct = a
    BY <1>1, <2>1 DEF Process, Phases
  <2>3. Loads(c, p, config)
    BY <1>2, <1>3
  <2> HIDE DEF p
  <2>4. Shaped(p, NoCall)
    BY <2>1, <2>2, ShapedAlone
  <2>5. QED
    BY <1>1, <2>2, <2>3, <2>4, LoadsTyped
<1>4. CASE a \notin config.accounts
  BY <1>1, <1>2, <1>4, EndLocal
<1>5. QED
  BY <1>3, <1>4

LEMMA EditLoadsTyped ==
  ASSUME CommandInv, NEW c \in Commands, EditLoads(c)
  PROVE  CommandInv'
<1>1. proc[c] \in Process /\ call[c] = NoCall /\ proc[c].cmd = "edit" /\ proc[c].phase = "load"
      /\ config \in Config
  BY ProcTyped DEF EditLoads, At
<1>2. CASE \E conf \in Edited(config) : Loads(c, [proc[c] EXCEPT !.phase = "save"], conf)
  <2>1. PICK conf \in Edited(config) : Loads(c, [proc[c] EXCEPT !.phase = "save"], conf)
    BY <1>2
  <2> DEFINE p == [proc[c] EXCEPT !.phase = "save"]
  <2>2. p \in Process /\ p.cmd = "edit" /\ p.phase = "save"
    BY <1>1 DEF Process, Phases
  <2>3. Loads(c, p, conf) /\ conf \in Config
    BY <1>1, <2>1, EditsTyped
  <2> HIDE DEF p
  <2>4. Shaped(p, NoCall)
    BY <2>2, ShapedAlone
  <2>5. QED
    BY <1>1, <2>2, <2>3, <2>4, LoadsTyped
<1>3. CASE Fails(c) /\ Local(c)
  BY <1>1, <1>3, EndLocal
<1>4. QED
  BY <1>2, <1>3 DEF EditLoads

(***************************************************************************)
(* Login.                                                                  *)
(***************************************************************************)
LEMMA OneCall ==
  ASSUME CommandInv, NEW c \in Commands, NEW k, NEW t, NEW j
  PROVE  ~(SetBegins(c, k, t) /\ DeleteBegins(c, j))
<1>1. SetBegins(c, k, t) => call'[c].op = "set"
  BY DEF SetBegins, Enter, CommandInv, StoreTyped
<1>2. DeleteBegins(c, j) => call'[c].op = "delete"
  BY DEF DeleteBegins, Enter, CommandInv, StoreTyped
<1>3. QED
  BY <1>1, <1>2

LEMMA LoginAccountTyped ==
  ASSUME CommandInv, NEW c \in Commands, LoginAccount(c)
  PROVE  CommandInv'
<1> DEFINE p == proc[c]
           k == AccountKey(p.acct)
<1>1. p.cmd = "login" /\ p.phase = "account" /\ Shaped(p, call[c]) /\ p \in Process
  BY ProcTyped DEF LoginAccount, At
<1>2. k \in Keys /\ p.token \in Entry
  BY <1>1, KeysAreKeys DEF Shaped, Entry
<1>3. SetBegins(c, k, p.token) /\ UNCHANGED proc /\ Writes(c)
  BY DEF LoginAccount
<1>4. ASSUME NEW x \in CallRecord, Sets(x, k, p.token) PROVE Shaped(p, x)
  BY <1>1, <1>4 DEF Shaped, CallFits
<1>5. ~DeleteBegins(c, k)
  BY <1>3, OneCall
<1> HIDE DEF k
<1>6. QED
  BY <1>2, <1>3, <1>4, <1>5, CallsBeginTyped

LEMMA AddServerTyped ==
  ASSUME CommandInv, NEW c \in Commands, NEW id \in Machines, AddServer(c, id),
         proc[c].cmd = "login", proc[c].phase = "servers"
  PROVE  \E q \in Process : Become(c, q) /\ Shaped(q, NoCall)
<1> DEFINE p == proc[c]
           w == WithProfiles(p.conf, p.acct, {id}, p.own)
           f == FirstServer(p.conf, {id}, id)
           conf == [w EXCEPT !.curServer = f]
           q == [p EXCEPT !.found = @ \ {id}, !.conf = conf]
<1>1. p \in Process /\ Shaped(p, call[c])
  BY ProcTyped
<1>2. p.acct \in Account /\ p.conf \in Config /\ p.own \in SUBSET Machines /\ p.found \in SUBSET Machines
  BY <1>1 DEF Shaped, Process
<1>3. w \in Config
  <2>1. {id} \in SUBSET Machines
    OBVIOUS
  <2>2. QED
    BY <1>2, <2>1, ConfigsTyped
<1>4. f \in Machines \cup {NoMachine}
  BY <1>2 DEF FirstServer, Config
<1>5. Become(c, q)
  BY DEF AddServer
<1> HIDE DEF w, f
<1>6. conf \in Config
  BY <1>3, <1>4 DEF Config
<1> HIDE DEF conf
<1>7. q \in Process
  BY <1>1, <1>2, <1>6 DEF Process
<1>8. q.cmd = p.cmd /\ q.phase = p.phase /\ q.acct = p.acct /\ q.token = p.token
  BY <1>1 DEF Process
<1> HIDE DEF q
<1>9. Shaped(q, NoCall)
  BY <1>1, <1>2, <1>8, ShapedAlone DEF Shaped
<1>10. QED
  BY <1>5, <1>7, <1>9

LEMMA LoginAccountStoredTyped ==
  ASSUME CommandInv, NEW c \in Commands, LoginAccountStored(c)
  PROVE  CommandInv'
<1> DEFINE p == proc[c]
           q == [p EXCEPT !.phase = "servers", !.conf.accounts = @ \cup {p.acct}]
<1>1. p.cmd = "login" /\ p.phase = "account" /\ Shaped(p, call[c]) /\ p \in Process /\ Writes(c)
  BY ProcTyped DEF LoginAccountStored, Calling
<1>2. PICK ok \in BOOLEAN : CallEnds(c, ok) /\ IF ok THEN Become(c, q) ELSE Fails(c)
  BY DEF LoginAccountStored
<1>3. CASE ok
  <2>1. p.acct \in Account /\ p.token \in Tokens /\ p.conf \in Config
    BY <1>1 DEF Shaped, Process
  <2>2. [p.conf EXCEPT !.accounts = @ \cup {p.acct}] \in Config
    BY <2>1 DEF Config
  <2>3. q \in Process /\ q.cmd = "login" /\ q.phase = "servers" /\ q.acct = p.acct /\ q.token = p.token
    <3> DEFINE conf == [p.conf EXCEPT !.accounts = @ \cup {p.acct}]
    <3>1. q = [p EXCEPT !.phase = "servers", !.conf = conf]
      BY <1>1 DEF Process
    <3> HIDE DEF conf, q
    <3>2. conf \in Config
      BY <2>2 DEF conf
    <3>3. QED
      BY <1>1, <3>1, <3>2 DEF Process, Phases
  <2> HIDE DEF q
  <2>4. Shaped(q, NoCall)
    BY <2>1, <2>3, ShapedAlone
  <2>5. QED
    BY <1>1, <1>2, <1>3, <2>3, <2>4, CallEndMoves
<1>4. CASE ~ok
  <2>1. EntriesTyped' /\ call' = [call EXCEPT ![c] = NoCall]
    BY <1>2, CallsEndTyped
  <2>2. RestTyped'
    BY <1>1 DEF CommandInv, RestTyped, Writes
  <2>3. QED
    BY <1>1, <1>2, <1>4, <2>1, <2>2, EndMoves
<1>5. QED
  BY <1>2, <1>3, <1>4

LEMMA LoginServerTyped ==
  ASSUME CommandInv, NEW c \in Commands, LoginServer(c)
  PROVE  CommandInv'
<1> DEFINE p == proc[c]
<1>1. p.cmd = "login" /\ p.phase = "servers" /\ Shaped(p, call[c]) /\ p \in Process /\ call[c] = NoCall
  BY ProcTyped DEF LoginServer, At
<1>2. p.acct \in Account /\ p.token \in Entry /\ p.found \in SUBSET Machines
  BY <1>1 DEF Shaped, Process
<1>3. PICK id \in p.found :
       \/ id \in p.own /\ SetBegins(c, ServerKey(p.acct, id), p.token) /\ Writes(c) /\ UNCHANGED proc
       \/ id \notin p.own /\ AddServer(c, id) /\ Local(c)
  BY DEF LoginServer
<1>4. CASE id \in p.own /\ SetBegins(c, ServerKey(p.acct, id), p.token) /\ Writes(c) /\ UNCHANGED proc
  <2> DEFINE k == ServerKey(p.acct, id)
  <2>1. k \in Keys
    BY <1>2, KeysAreKeys
  <2>2. ASSUME NEW x \in CallRecord, Sets(x, k, p.token) PROVE Shaped(p, x)
    BY <1>1, <1>4, <2>2 DEF Shaped, CallFits
  <2>3. SetBegins(c, k, p.token)
    BY <1>4
  <2> HIDE DEF k
  <2>4. ~DeleteBegins(c, k)
    BY <2>3, OneCall
  <2>5. QED
    BY <1>2, <1>4, <2>1, <2>2, <2>3, <2>4, CallsBeginTyped
<1>5. CASE id \notin p.own /\ AddServer(c, id) /\ Local(c)
  <2>1. PICK q \in Process : Become(c, q) /\ Shaped(q, NoCall)
    BY <1>1, <1>2, <1>5, AddServerTyped
  <2>2. QED
    BY <1>1, <1>5, <2>1, LocalMoves
<1>6. QED
  BY <1>3, <1>4, <1>5

LEMMA LoginServerStoredTyped ==
  ASSUME CommandInv, NEW c \in Commands, LoginServerStored(c)
  PROVE  CommandInv'
<1> DEFINE p == proc[c]
<1>1. p.cmd = "login" /\ p.phase = "servers" /\ Shaped(p, call[c]) /\ p \in Process /\ Writes(c)
      /\ call[c] # NoCall
  BY ProcTyped DEF LoginServerStored, Calling
<1>2. PICK ok \in BOOLEAN : CallEnds(c, ok) /\ IF ok THEN AddServer(c, call[c].key.id) ELSE Fails(c)
  BY DEF LoginServerStored
<1>3. CASE ok
  <2>1. PICK id \in p.found \cap p.own : Sets(call[c], ServerKey(p.acct, id), p.token)
    BY <1>1 DEF Shaped, CallFits
  <2>2. id \in Machines /\ call[c].key.id = id
    BY <1>1, <2>1 DEF Process, Sets, ServerKey
  <2>3. PICK q \in Process : Become(c, q) /\ Shaped(q, NoCall)
    BY <1>1, <1>2, <1>3, <2>2, AddServerTyped
  <2>4. QED
    BY <1>1, <1>2, <2>3, CallEndMoves
<1>4. CASE ~ok
  <2>1. EntriesTyped' /\ call' = [call EXCEPT ![c] = NoCall]
    BY <1>2, CallsEndTyped
  <2>2. RestTyped'
    BY <1>1 DEF CommandInv, RestTyped, Writes
  <2>3. QED
    BY <1>1, <1>2, <1>4, <2>1, <2>2, EndMoves
<1>5. QED
  BY <1>2, <1>3, <1>4

LEMMA LoginStoredTyped ==
  ASSUME CommandInv, NEW c \in Commands, LoginStored(c)
  PROVE  CommandInv'
<1> DEFINE p == proc[c]
           conf == [p.conf EXCEPT !.curAccount = IF @ = NoAccount THEN p.acct ELSE @]
           q == [p EXCEPT !.phase = "save", !.conf = conf]
<1>1. p.cmd = "login" /\ Shaped(p, call[c]) /\ p \in Process /\ call[c] = NoCall /\ Local(c)
  BY ProcTyped DEF LoginStored, At
<1>2. p.acct \in Account /\ p.conf \in Config /\ p.token \in Tokens
  BY <1>1 DEF Shaped, Process
<1>3. conf \in Config
  BY <1>2 DEF Config
<1>4. Become(c, q)
  BY <1>1 DEF LoginStored, Process
<1> HIDE DEF conf
<1>5. q \in Process /\ q.cmd = "login" /\ q.phase = "save" /\ q.acct = p.acct /\ q.token = p.token
  BY <1>1, <1>3 DEF Process, Phases
<1> HIDE DEF q
<1>6. QED
  BY <1>1, <1>2, <1>4, <1>5, ShapedAlone, LocalMoves

(***************************************************************************)
(* Import.                                                                 *)
(***************************************************************************)
LEMMA ImportNextTyped ==
  ASSUME CommandInv, NEW c \in Commands, ImportNext(c)
  PROVE  CommandInv'
<1> DEFINE p == proc[c]
<1>1. p.cmd = "import" /\ Shaped(p, call[c]) /\ p \in Process /\ call[c] = NoCall /\ Local(c)
  BY ProcTyped DEF ImportNext, At
<1>2. CASE \E a \in p.names, empty \in BOOLEAN :
             Become(c, [Idle EXCEPT !.cmd = "import", !.names = p.names \ {a}, !.acct = a,
                                    !.token = p.token, !.phase = IF empty THEN "next" ELSE "plex"])
  <2>1. PICK a \in p.names, empty \in BOOLEAN :
             Become(c, [Idle EXCEPT !.cmd = "import", !.names = p.names \ {a}, !.acct = a,
                                    !.token = p.token, !.phase = IF empty THEN "next" ELSE "plex"])
    BY <1>2
  <2> DEFINE ph == IF empty THEN "next" ELSE "plex"
             q == [Idle EXCEPT !.cmd = "import", !.names = p.names \ {a}, !.acct = a,
                               !.token = p.token, !.phase = ph]
  <2>2. a \in Account /\ p.names \ {a} \in SUBSET Account /\ p.token \in Tokens /\ p.token \in Entry
    BY <1>1 DEF Shaped, Process
  <2>3. Become(c, q)
    BY <2>1
  <2>4. ph \in {"next", "plex"}
    OBVIOUS
  <2> HIDE DEF ph
  <2>5. q \in Process
    BY <2>2, <2>4, IdleTyped DEF Process, Phases
  <2>6. q.cmd = "import" /\ q.phase = ph /\ q.acct = a /\ q.token = p.token
    BY DEF Idle
  <2> HIDE DEF q
  <2>7. Shaped(q, NoCall)
    BY <2>2, <2>4, <2>6, ShapedAlone
  <2>8. QED
    BY <1>1, <2>3, <2>5, <2>7, LocalMoves
<1>3. CASE End(c)
  BY <1>1, <1>3, EndLocal
<1>4. QED
  BY <1>2, <1>3 DEF ImportNext

LEMMA GotoTyped ==
  ASSUME NEW p \in Process, NEW phase \in Phases, Shaped(p, NoCall), p.cmd = "import", p.phase # "next",
         phase \in {"write", "undo"} => p.journal # <<>>
  PROVE  /\ [p EXCEPT !.phase = phase] \in Process
         /\ Shaped([p EXCEPT !.phase = phase], NoCall)
BY DEF Process, Shaped

\* An import in one phase goes to another, or undoes what it did.
LEMMA GotoMoves ==
  ASSUME CommandInv, NEW c \in Commands, NEW after \in {"failed", "restore"},
         NEW phase \in Phases \ {"write", "undo"}, Goto(c, phase) \/ Undo(c, after),
         proc[c].cmd = "import", proc[c].phase # "next"
  PROVE  \E q \in Process : Become(c, q) /\ Shaped(q, NoCall)
<1> DEFINE p == proc[c]
<1>1. p \in Process /\ Shaped(p, NoCall)
  BY ProcTyped DEF Shaped
<1>2. CASE Goto(c, phase)
  BY <1>1, <1>2, GotoTyped DEF Goto
<1>3. CASE Undo(c, after)
  <2> DEFINE ph == IF p.journal = <<>> THEN after ELSE "undo"
             q == [p EXCEPT !.phase = ph, !.after = after]
  <2>1. Become(c, q)
    BY <1>3 DEF Undo
  <2>2. ph \in {"failed", "restore", "undo"} /\ (ph = "undo" => p.journal # <<>>)
    OBVIOUS
  <2> HIDE DEF ph
  <2>3. q \in Process /\ q.cmd = p.cmd /\ q.phase = ph /\ q.acct = p.acct /\ q.token = p.token
        /\ q.journal = p.journal
    BY <1>1, <2>2 DEF Process, Phases
  <2> HIDE DEF q
  <2>4. Shaped(q, NoCall)
    BY <1>1, <2>2, <2>3 DEF Shaped
  <2>5. QED
    BY <2>1, <2>3, <2>4
<1>4. QED
  BY <1>2, <1>3

LEMMA ToWriteTyped ==
  ASSUME NEW p \in Process, p.acct \in Account
  PROVE  ToWrite(p) \subseteq Keys
BY KeysAreKeys DEF ToWrite, Process

LEMMA ImportJournalsTyped ==
  ASSUME CommandInv, NEW c \in Commands, ImportJournals(c)
  PROVE  CommandInv'
<1> DEFINE p == proc[c]
<1>1. p.cmd = "import" /\ p.phase = "journal" /\ Shaped(p, NoCall) /\ p \in Process /\ call[c] = NoCall
      /\ Local(c)
  BY ProcTyped DEF ImportJournals, At
<1>2. PICK k \in ToWrite(p) \ Journaled(p) :
       IF Get(k) = Unreadable THEN Undo(c, "failed")
       ELSE Become(c, [p EXCEPT !.phase = "write",
                                !.journal = Append(@, [key |-> k, prior |-> Get(k)])])
  BY DEF ImportJournals
<1>3. p.acct \in Account /\ k \in Keys
  BY <1>1, <1>2, ToWriteTyped DEF Shaped
<1>4. CASE Get(k) = Unreadable
  <2>1. Undo(c, "failed")
    BY <1>2, <1>4
  <2>2. \E q \in Process : Become(c, q) /\ Shaped(q, NoCall)
    BY <1>1, <2>1, GotoMoves DEF Phases
  <2>3. QED
    BY <1>1, <2>2, LocalMoves
<1>5. CASE Get(k) # Unreadable
  <2> DEFINE e == [key |-> k, prior |-> Get(k)]
             j == Append(p.journal, e)
             q == [p EXCEPT !.phase = "write", !.journal = j]
  <2>1. Get(k) \in Entry
    BY <1>3, <1>5, GetTyped DEF CommandInv
  <2>2. e \in Prior
    BY <1>3, <2>1 DEF Prior
  <2>3. Become(c, q)
    BY <1>2, <1>5
  <2> HIDE DEF e
  <2>4. j \in Seq(Prior) /\ j # <<>>
    BY <1>1, <2>2, AppendProperties DEF Process
  <2> HIDE DEF j
  <2>5. q \in Process
    BY <1>1, <2>4 DEF Process, Phases
  <2>6. q.cmd = p.cmd /\ q.phase = "write" /\ q.acct = p.acct /\ q.token = p.token /\ q.journal = j
    BY <1>1 DEF Process
  <2> HIDE DEF q
  <2>7. Shaped(q, NoCall)
    BY <1>1, <1>3, <2>4, <2>6 DEF Shaped
  <2>8. QED
    BY <1>1, <2>3, <2>5, <2>7, LocalMoves
<1>6. QED
  BY <1>4, <1>5

LEMMA LastOfTyped ==
  ASSUME NEW p \in Process, p.journal # <<>>
  PROVE  LastOf(p) \in Prior /\ LastOf(p).key \in Keys /\ LastOf(p).prior \in Entry
<1>1. Len(p.journal) \in 1 .. Len(p.journal)
  BY LenProperties, EmptySeq DEF Process
<1>2. LastOf(p) \in Prior
  BY <1>1, ElementOfSeq DEF LastOf, Process
<1>3. QED
  BY <1>2 DEF Prior

LEMMA ImportWritesTyped ==
  ASSUME CommandInv, NEW c \in Commands, ImportWrites(c)
  PROVE  CommandInv'
<1> DEFINE p == proc[c]
           k == LastOf(p).key
<1>1. p.cmd = "import" /\ p.phase = "write" /\ Shaped(p, NoCall) /\ p \in Process
      /\ UNCHANGED proc /\ Writes(c) /\ SetBegins(c, k, p.token)
  BY ProcTyped DEF ImportWrites, At, LastOf
<1>2. p.token \in Entry /\ k \in Keys
  BY <1>1, LastOfTyped DEF Shaped, Entry
<1>3. ASSUME NEW x \in CallRecord, Sets(x, k, p.token) PROVE Shaped(p, x)
  BY <1>1, <1>3 DEF Shaped, CallFits
<1>4. ~DeleteBegins(c, k)
  BY <1>1, OneCall
<1> HIDE DEF k
<1>5. QED
  BY <1>1, <1>2, <1>3, <1>4, CallsBeginTyped

LEMMA ImportWrittenTyped ==
  ASSUME CommandInv, NEW c \in Commands, ImportWritten(c)
  PROVE  CommandInv'
<1> DEFINE p == proc[c]
<1>1. p.cmd = "import" /\ p.phase = "write" /\ p \in Process /\ Writes(c)
  BY ProcTyped DEF ImportWritten, Calling
<1>2. PICK ok \in BOOLEAN : CallEnds(c, ok) /\ IF ok THEN Goto(c, "journal") ELSE Undo(c, "failed")
  BY DEF ImportWritten
<1>3. \E q \in Process : Become(c, q) /\ Shaped(q, NoCall)
  BY <1>1, <1>2, GotoMoves DEF Phases
<1>4. QED
  BY <1>1, <1>2, <1>3, CallEndMoves

LEMMA ImportGoesOnTyped ==
  ASSUME CommandInv, NEW c \in Commands, ImportStored(c) \/ ImportFailed(c)
  PROVE  CommandInv'
<1>1. proc[c].cmd = "import" /\ proc[c].phase \in {"journal", "failed"} /\ Local(c) /\ call[c] = NoCall
      /\ (Goto(c, "save") \/ Goto(c, "next"))
  BY DEF ImportStored, ImportFailed, At
<1>2. \E q \in Process : Become(c, q) /\ Shaped(q, NoCall)
  BY <1>1, GotoMoves DEF Phases
<1>3. QED
  BY <1>1, <1>2, LocalMoves

LEMMA ImportUndoesTyped ==
  ASSUME CommandInv, NEW c \in Commands, ImportUndoes(c)
  PROVE  CommandInv'
<1> DEFINE p == proc[c]
           k == LastOf(p).key
           v == LastOf(p).prior
<1>1. p.cmd = "import" /\ p.phase = "undo" /\ Shaped(p, NoCall) /\ p \in Process
      /\ UNCHANGED proc /\ Writes(c)
      /\ IF v = NoToken THEN DeleteBegins(c, k) ELSE SetBegins(c, k, v)
  BY ProcTyped DEF ImportUndoes, At, LastOf
<1>2. v \in Entry /\ k \in Keys
  BY <1>1, LastOfTyped DEF Shaped
<1>3. ASSUME v # NoToken, NEW x \in CallRecord, Sets(x, k, v) PROVE Shaped(p, x)
  BY <1>1, <1>3 DEF Shaped, CallFits
<1>4. ASSUME v = NoToken, NEW x \in CallRecord, Deletes(x, k) PROVE Shaped(p, x)
  BY <1>1, <1>4 DEF Shaped, CallFits
<1>5. ~(SetBegins(c, k, v) /\ DeleteBegins(c, k))
  BY OneCall
<1> HIDE DEF k, v
<1>6. QED
  BY <1>1, <1>2, <1>3, <1>4, <1>5, CallsBeginTyped

LEMMA FrontOfJournal ==
  ASSUME NEW p \in Process, p.journal # <<>>
  PROVE  LET rest == SubSeq(p.journal, 1, Len(p.journal) - 1)
         IN /\ rest \in Seq(Prior) /\ Len(rest) = Len(p.journal) - 1
            /\ \A i \in 1 .. Len(rest) : rest[i] = p.journal[i]
<1> DEFINE j == p.journal
           rest == SubSeq(j, 1, Len(j) - 1)
<1>1. j \in Seq(Prior) /\ Len(j) \in Nat /\ Len(j) >= 1
  BY LenProperties, EmptySeq DEF Process
<1> HIDE DEF j
<1>2. 1 \in Int /\ Len(j) - 1 \in Int /\ \A i \in 1 .. Len(j) - 1 : j[i] \in Prior
  BY <1>1, ElementOfSeq
<1>3. /\ rest \in Seq(Prior)
      /\ Len(rest) = IF 1 <= Len(j) - 1 THEN Len(j) - 1 - 1 + 1 ELSE 0
      /\ \A i \in 1 .. Len(j) - 1 - 1 + 1 : rest[i] = j[1 + i - 1]
  BY <1>1, <1>2, SubSeqProperties
<1> HIDE DEF rest
<1>4. Len(rest) = Len(j) - 1
  <2> DEFINE n == Len(j)
             m == Len(rest)
  <2>1. n \in Nat /\ n >= 1
    BY <1>1
  <2>2. m = IF 1 <= n - 1 THEN n - 1 - 1 + 1 ELSE 0
    BY <1>3
  <2> HIDE DEF n, m
  <2>3. m = n - 1
    BY <2>1, <2>2
  <2>4. QED
    BY <2>3 DEF m, n
<1>5. \A i \in 1 .. Len(rest) : rest[i] = j[i]
  BY <1>1, <1>3, <1>4
<1>6. QED
  BY <1>3, <1>4, <1>5 DEF j, rest

LEMMA ImportUndoneTyped ==
  ASSUME CommandInv, NEW c \in Commands, ImportUndone(c)
  PROVE  CommandInv'
<1> DEFINE p == proc[c]
           rest == SubSeq(p.journal, 1, Len(p.journal) - 1)
           ph == IF rest = <<>> THEN p.after ELSE "undo"
           q == [p EXCEPT !.journal = rest, !.phase = ph]
<1>1. p.cmd = "import" /\ p.phase = "undo" /\ p \in Process /\ Writes(c) /\ Shaped(p, NoCall)
  BY ProcTyped DEF ImportUndone, Calling, Shaped
<1>2. PICK ok \in BOOLEAN : CallEnds(c, ok)
  BY DEF ImportUndone
<1>3. Become(c, q)
  BY DEF ImportUndone
<1>4. rest \in Seq(Prior)
  BY <1>1, FrontOfJournal DEF Shaped
<1>5. ph \in {"failed", "restore", "undo"} /\ (ph = "undo" => rest # <<>>)
  BY <1>1 DEF Process
<1> HIDE DEF rest, ph
<1>6. q \in Process
  BY <1>1, <1>4, <1>5 DEF Process, Phases
<1>7. q.cmd = p.cmd /\ q.phase = ph /\ q.acct = p.acct /\ q.token = p.token /\ q.journal = rest
  BY <1>1 DEF Process
<1> HIDE DEF q
<1>8. Shaped(q, NoCall)
  BY <1>1, <1>5, <1>7 DEF Shaped
<1>9. QED
  BY <1>1, <1>2, <1>3, <1>6, <1>8, CallEndMoves

LEMMA ImportSavesTyped ==
  ASSUME CommandInv, NEW c \in Commands, ImportSaves(c) \/ ImportRestores(c)
  PROVE  CommandInv'
<1> DEFINE p == proc[c]
<1>1. p.cmd = "import" /\ p.phase \in {"save", "restore"} /\ p \in Process /\ call[c] = NoCall
  BY ProcTyped DEF ImportSaves, ImportRestores, At
<1>2. Goto(c, "next") \/ Goto(c, "failed") \/ Undo(c, "restore")
  BY DEF ImportSaves, ImportRestores, Save
<1>3. \E q \in Process : Become(c, q) /\ Shaped(q, NoCall)
  BY <1>1, <1>2, GotoMoves DEF Phases
<1>4. UNCHANGED <<storeVars, events, contested, halfway>> /\ quiet' = quiet \cap {c}
      /\ config' \in {config, p.conf, p.old}
  BY <1>1 DEF ImportSaves, ImportRestores, Save
<1>5. call' = call /\ EntriesTyped'
  BY <1>4 DEF storeVars, CommandInv, StoreTyped, EntriesTyped
<1>6. RestTyped'
  BY <1>1, <1>4 DEF CommandInv, RestTyped, Process
<1>7. QED
  BY <1>1, <1>3, <1>5, <1>6, BecomeMoves, MovesKeep

LEMMA SaveConfigTyped ==
  ASSUME CommandInv, NEW c \in Commands, SaveConfig(c)
  PROVE  CommandInv'
<1> DEFINE p == proc[c]
<1>1. p.phase = "save" /\ p \in Process /\ call[c] = NoCall /\ End(c)
  BY ProcTyped DEF SaveConfig, At, Save
<1>2. UNCHANGED <<storeVars, events, contested>> /\ quiet' = quiet \cap {c} /\ config' \in {config, p.conf}
      /\ halfway' \in {halfway, IF p.cmd = "logout" THEN halfway \cup {p.acct} ELSE halfway}
  BY DEF SaveConfig, Save
<1>3. call' = call /\ EntriesTyped'
  BY <1>2 DEF storeVars, CommandInv, StoreTyped, EntriesTyped
<1>4. p.cmd = "logout" => p.acct \in Account
  BY <1>1, ProcTyped DEF Shaped
<1>5. RestTyped'
  BY <1>1, <1>2, <1>4 DEF CommandInv, RestTyped, Process
<1>6. QED
  BY <1>1, <1>3, <1>5, QuietCall, EndMoves

(***************************************************************************)
(* Logout.                                                                 *)
(***************************************************************************)
LEMMA LogoutAccountTyped ==
  ASSUME CommandInv, NEW c \in Commands, LogoutAccount(c)
  PROVE  CommandInv'
<1> DEFINE p == proc[c]
           k == AccountKey(p.acct)
<1>1. p.cmd = "logout" /\ p.phase = "account" /\ Shaped(p, NoCall) /\ p \in Process
      /\ DeleteBegins(c, k) /\ Writes(c) /\ UNCHANGED proc
  BY ProcTyped DEF LogoutAccount, At
<1>2. k \in Keys /\ NoToken \in Entry
  BY <1>1, KeysAreKeys DEF Shaped, Entry
<1>3. ASSUME NEW x \in CallRecord, Deletes(x, k) PROVE Shaped(p, x)
  BY <1>1, <1>3 DEF Shaped, CallFits
<1>4. ~SetBegins(c, k, NoToken)
  BY <1>1, OneCall
<1> HIDE DEF k
<1>5. QED
  BY <1>1, <1>2, <1>3, <1>4, CallsBeginTyped

LEMMA LogoutAccountDeletedTyped ==
  ASSUME CommandInv, NEW c \in Commands, LogoutAccountDeleted(c)
  PROVE  CommandInv'
<1> DEFINE p == proc[c]
<1>1. p.cmd = "logout" /\ p.phase = "account" /\ p \in Process /\ Writes(c) /\ Shaped(p, NoCall)
  BY ProcTyped DEF LogoutAccountDeleted, Calling, Shaped
<1>2. PICK ok \in BOOLEAN :
        /\ CallEnds(c, ok)
        /\ Become(c, [p EXCEPT !.phase = "servers", !.failed = ~ok,
                               !.conf.accounts = IF ok THEN @ \ {p.acct} ELSE @])
  BY DEF LogoutAccountDeleted
<1> DEFINE conf == [p.conf EXCEPT !.accounts = IF ok THEN @ \ {p.acct} ELSE @]
           q == [p EXCEPT !.phase = "servers", !.failed = ~ok, !.conf = conf]
<1>3. p.conf \in Config
  BY <1>1 DEF Process
<1>4. conf \in Config
  BY <1>3 DEF Config
<1>5. Become(c, q)
  BY <1>1, <1>2 DEF Process
<1> HIDE DEF conf
<1>6. q \in Process
  BY <1>1, <1>4 DEF Process, Phases
<1>7. q.cmd = p.cmd /\ q.phase = "servers" /\ q.acct = p.acct
  BY <1>1 DEF Process
<1> HIDE DEF q
<1>8. Shaped(q, NoCall)
  BY <1>1, <1>7 DEF Shaped
<1>9. QED
  BY <1>1, <1>2, <1>5, <1>6, <1>8, CallEndMoves

LEMMA LogoutServerTyped ==
  ASSUME CommandInv, NEW c \in Commands, LogoutServer(c)
  PROVE  CommandInv'
<1> DEFINE p == proc[c]
<1>1. p.cmd = "logout" /\ p.phase = "servers" /\ Shaped(p, NoCall) /\ p \in Process /\ call[c] = NoCall
  BY ProcTyped DEF LogoutServer, At
<1>2. p.acct \in Account /\ p.found \in SUBSET Machines /\ p.conf \in Config /\ NoToken \in Entry
  BY <1>1 DEF Shaped, Process, Entry
<1>3. PICK id \in p.found :
       \/ p.old.profiles[id].own /\ DeleteBegins(c, ServerKey(p.acct, id)) /\ Writes(c) /\ UNCHANGED proc
       \/ /\ ~p.old.profiles[id].own /\ Local(c)
          /\ Become(c, [p EXCEPT !.found = @ \ {id}, !.conf = Without(@, id)])
  BY DEF LogoutServer
<1>4. CASE p.old.profiles[id].own /\ DeleteBegins(c, ServerKey(p.acct, id)) /\ Writes(c) /\ UNCHANGED proc
  <2> DEFINE k == ServerKey(p.acct, id)
  <2>1. k \in Keys
    BY <1>2, KeysAreKeys
  <2>2. ASSUME NEW x \in CallRecord, Deletes(x, k) PROVE Shaped(p, x)
    BY <1>1, <1>4, <2>2 DEF Shaped, CallFits
  <2>3. DeleteBegins(c, k)
    BY <1>4
  <2> HIDE DEF k
  <2>4. ~SetBegins(c, k, NoToken)
    BY <2>3, OneCall
  <2>5. QED
    BY <1>2, <1>4, <2>1, <2>2, <2>3, <2>4, CallsBeginTyped
<1>5. CASE /\ ~p.old.profiles[id].own /\ Local(c)
           /\ Become(c, [p EXCEPT !.found = @ \ {id}, !.conf = Without(@, id)])
  <2> DEFINE conf == Without(p.conf, id)
             q == [p EXCEPT !.found = @ \ {id}, !.conf = conf]
  <2>1. Become(c, q)
    BY <1>5
  <2>2. conf \in Config
    BY <1>1, <1>2, ConfigsTyped
  <2> HIDE DEF conf
  <2>3. q \in Process /\ q.cmd = p.cmd /\ q.phase = p.phase /\ q.acct = p.acct
    BY <1>1, <1>2, <2>2 DEF Process
  <2> HIDE DEF q
  <2>4. Shaped(q, NoCall)
    BY <1>1, <2>3 DEF Shaped
  <2>5. QED
    BY <1>1, <1>5, <2>1, <2>3, <2>4, LocalMoves
<1>6. QED
  BY <1>3, <1>4, <1>5

LEMMA LogoutServerDeletedTyped ==
  ASSUME CommandInv, NEW c \in Commands, LogoutServerDeleted(c)
  PROVE  CommandInv'
<1> DEFINE p == proc[c]
           id == call[c].key.id
<1>1. p.cmd = "logout" /\ p.phase = "servers" /\ p \in Process /\ Writes(c) /\ Shaped(p, NoCall)
      /\ call[c] # NoCall /\ Shaped(p, call[c])
  BY ProcTyped DEF LogoutServerDeleted, Calling, Shaped
<1>2. PICK ok \in BOOLEAN :
        /\ CallEnds(c, ok)
        /\ Become(c, [p EXCEPT !.found = @ \ {id}, !.failed = @ \/ ~ok,
                               !.conf = IF ok THEN Without(@, id) ELSE @])
  BY DEF LogoutServerDeleted
<1>3. id \in Machines
  <2>1. PICK i \in p.found : Deletes(call[c], ServerKey(p.acct, i))
    BY <1>1 DEF Shaped, CallFits
  <2>2. QED
    BY <1>1, <2>1 DEF Process, Deletes, ServerKey
<1> DEFINE conf == IF ok THEN Without(p.conf, id) ELSE p.conf
           q == [p EXCEPT !.found = @ \ {id}, !.failed = @ \/ ~ok, !.conf = conf]
<1>4. p.conf \in Config /\ p.acct \in Account
  BY <1>1 DEF Process, Shaped
<1>5. conf \in Config
  BY <1>3, <1>4, ConfigsTyped
<1>6. Become(c, q)
  BY <1>2
<1> HIDE DEF conf, id
<1>7. q \in Process
  <2>1. (p.failed \/ ~ok) \in BOOLEAN /\ p.found \ {id} \in SUBSET Machines
    BY <1>1 DEF Process
  <2>2. q = [p EXCEPT !.found = p.found \ {id}, !.failed = (p.failed \/ ~ok), !.conf = conf]
    BY <1>1 DEF Process
  <2> HIDE DEF q
  <2>3. QED
    BY <1>1, <1>5, <2>1, <2>2 DEF Process
<1>8. q.cmd = p.cmd /\ q.phase = p.phase /\ q.acct = p.acct
  BY <1>1 DEF Process
<1> HIDE DEF q
<1>9. Shaped(q, NoCall)
  BY <1>1, <1>8 DEF Shaped
<1>10. QED
  BY <1>1, <1>2, <1>6, <1>7, <1>9, CallEndMoves

LEMMA LogoutDeletedTyped ==
  ASSUME CommandInv, NEW c \in Commands, LogoutDeleted(c)
  PROVE  CommandInv'
<1> DEFINE p == proc[c]
           conf == IF p.failed \/ p.conf.curAccount # p.acct THEN p.conf
                   ELSE [p.conf EXCEPT !.curAccount = NoAccount, !.curServer = NoMachine]
           q == [p EXCEPT !.phase = "save", !.conf = conf]
<1>1. p.cmd = "logout" /\ p.phase = "servers" /\ Shaped(p, NoCall) /\ p \in Process /\ call[c] = NoCall
      /\ Local(c) /\ Become(c, q)
  BY ProcTyped DEF LogoutDeleted, At
<1>2. p.conf \in Config
  BY <1>1 DEF Process
<1>3. conf \in Config
  BY <1>2 DEF Config
<1> HIDE DEF conf
<1>4. q \in Process
  BY <1>1, <1>3 DEF Process, Phases
<1>5. q.cmd = p.cmd /\ q.phase = "save" /\ q.acct = p.acct
  BY <1>1 DEF Process
<1> HIDE DEF q
<1>6. Shaped(q, NoCall)
  BY <1>1, <1>5 DEF Shaped
<1>7. QED
  BY <1>1, <1>4, <1>6, LocalMoves

(***************************************************************************)
(* Every step.                                                             *)
(***************************************************************************)
LEMMA LeaveTyped ==
  ASSUME CommandInv, NEW c \in Commands, Ends(c) \/ Interrupted(c)
  PROVE  CommandInv'
<1>1. Leave(c) /\ call' = [call EXCEPT ![c] = NoCall]
  <2>1. CASE Ends(c)
    BY <2>1, QuietCall, ProcTyped DEF Ends, Shaped, CallFits
  <2>2. CASE Interrupted(c)
    BY <2>2 DEF Interrupted
  <2>3. QED
    BY <2>1, <2>2
<1>2. Turns(c, Idle, NoCall)
  BY <1>1 DEF Turns, Leave
<1>3. Idle.cmd = "none" /\ Idle.phase = "idle"
  BY DEF Idle
<1>4. Shaped(Idle, NoCall)
  BY <1>3, ShapedAlone
<1>5. EntriesTyped' /\ RestTyped'
  BY <1>1 DEF Leave, CommandInv, StoreTyped, RestTyped, EntriesTyped
<1>6. Moves(c)
  BY <1>2, <1>4, IdleTyped DEF Moves
<1>7. QED
  BY <1>5, <1>6, MovesKeep

LEMMA PartFlipsTyped ==
  ASSUME CommandInv, PartFlips
  PROVE  CommandInv'
<1>1. UNCHANGED <<keyring, tokenFile, call, config, proc, halfway>> /\ quiet' = {} /\ broken' \subseteq Parts
      /\ contested' \subseteq Account
  BY DEF PartFlips, Flips, CommandInv, StoreTyped, RestTyped
<1>2. events' \in 0 .. MaxEvents
  BY AccountsAssumption DEF PartFlips, CommandInv, RestTyped
<1>3. StoreTyped' /\ RestTyped'
  BY <1>1, <1>2 DEF CommandInv, StoreTyped, RestTyped
<1>4. CommandsShaped'
  BY <1>1 DEF CommandInv, CommandsShaped, Shaped, CallFits, LastOf, Sets, Deletes
<1>5. QED
  BY <1>3, <1>4 DEF CommandInv

LEMMA BeginningsTyped ==
  ASSUME CommandInv, NEW c \in Commands,
         \/ \E a \in Account : LoginBegins(c, a) \/ LogoutBegins(c, a)
         \/ \E accts \in ImportSets : ImportBegins(c, accts)
         \/ EditBegins(c)
  PROVE  CommandInv'
<1>1. CASE \E a \in Account : LoginBegins(c, a) \/ LogoutBegins(c, a)
  <2>1. PICK a \in Account : LoginBegins(c, a) \/ LogoutBegins(c, a)
    BY <1>1
  <2>2. {a} \in SUBSET Account /\ IsFiniteSet({a}) /\ {a} # {}
    BY FS_Singleton
  <2>3. QED
    BY <2>1, <2>2, BeginTyped DEF LoginBegins, LogoutBegins, Phases
<1>2. CASE \E accts \in ImportSets : ImportBegins(c, accts)
  <2>1. PICK accts \in ImportSets : ImportBegins(c, accts)
    BY <1>2
  <2>2. accts \in SUBSET Account /\ IsFiniteSet(accts)
    BY AccountsAssumption
  <2>3. QED
    BY <2>1, <2>2, BeginTyped DEF ImportBegins, Phases
<1>3. CASE EditBegins(c)
  <2>1. {} \in SUBSET Account /\ IsFiniteSet({})
    BY FS_EmptySet
  <2>2. QED
    BY <1>3, <2>1, BeginTyped DEF EditBegins, Phases
<1>4. QED
  BY <1>1, <1>2, <1>3

LEMMA InitCommandInv == AccountsInit => CommandInv
<1> SUFFICES ASSUME AccountsInit PROVE CommandInv
  OBVIOUS
<1>1. NoToken \in Entry /\ 0 \in Entry
  BY AccountsAssumption DEF Entry
<1>2. keyring \in [Keys -> Entry] /\ tokenFile \in [Keys -> Entry]
  BY <1>1 DEF AccountsInit
<1>3. broken \subseteq Parts /\ call \in [Commands -> CallRecord \cup {NoCall}]
  BY AccountsAssumption DEF AccountsInit
<1>4. RestTyped
  BY AccountsAssumption, ConfigAssumption DEF AccountsInit, RestTyped
<1>5. proc \in [Commands -> Process]
  BY IdleTyped DEF AccountsInit
<1>6. ASSUME NEW c \in Commands PROVE Shaped(proc[c], call[c])
  <2>1. proc[c] = Idle /\ call[c] = NoCall
    BY DEF AccountsInit
  <2>2. Idle.cmd = "none" /\ Idle.phase = "idle"
    BY DEF Idle
  <2>3. QED
    BY <2>1, <2>2, ShapedAlone
<1>7. QED
  BY <1>2, <1>3, <1>4, <1>5, <1>6 DEF CommandInv, StoreTyped, CommandsShaped

LEMMA NextCommandInv == CommandInv /\ [AccountsNext]_vars => CommandInv'
<1> SUFFICES ASSUME CommandInv, [AccountsNext]_vars PROVE CommandInv'
  OBVIOUS
<1>1. CASE UNCHANGED vars
  BY <1>1 DEF vars, storeVars, CommandInv, StoreTyped, RestTyped, CommandsShaped, Shaped, CallFits,
              LastOf, Sets, Deletes
<1>2. CASE PartFlips
  BY <1>2, PartFlipsTyped
<1>3. ASSUME NEW c \in Commands, LoginSteps(c) PROVE CommandInv'
  BY <1>3, LoginLoadsTyped, LoginAccountTyped, LoginAccountStoredTyped, LoginServerTyped,
     LoginServerStoredTyped, LoginStoredTyped DEF LoginSteps
<1>4. ASSUME NEW c \in Commands, ImportSteps(c) PROVE CommandInv'
  BY <1>4, ImportNextTyped, ImportLoadsTyped, ImportJournalsTyped, ImportWritesTyped, ImportWrittenTyped,
     ImportGoesOnTyped, ImportUndoesTyped, ImportUndoneTyped, ImportSavesTyped DEF ImportSteps
<1>5. ASSUME NEW c \in Commands, LogoutSteps(c) PROVE CommandInv'
  BY <1>5, LogoutLoadsTyped, LogoutAccountTyped, LogoutAccountDeletedTyped, LogoutServerTyped,
     LogoutServerDeletedTyped, LogoutDeletedTyped DEF LogoutSteps
<1>6. ASSUME NEW c \in Commands, DiscoveryFails(c) PROVE CommandInv'
  BY <1>6, EndLocal DEF DiscoveryFails, At
<1>7. QED
  BY <1>1, <1>2, <1>3, <1>4, <1>5, <1>6, BeginningsTyped, EditLoadsTyped, SaveConfigTyped, LeaveTyped
     DEF AccountsNext

THEOREM CommandInvHolds == Spec => []CommandInv
BY InitCommandInv, NextCommandInv, PTL DEF Spec

\* Whatever the commands do at once, and whatever fails under them, the
\* configuration, the credentials and the commands' copies keep their types.
THEOREM AccountsTypes == Spec => []AccountsTypeOK
<1>1. ASSUME CommandInv PROVE AccountsTypeOK
  <2>1. StoreTypeOK
    BY <1>1 DEF CommandInv, StoreTyped, StoreTypeOK, CallRecord, Calls
  <2>2. QED
    BY <1>1, <2>1 DEF CommandInv, RestTyped, CommandsShaped, Process, AccountsTypeOK
<1>2. QED
  BY <1>1, CommandInvHolds, PTL

(***************************************************************************)
(* The steps of one command.                                               *)
(***************************************************************************)
Begins(c) == \/ \E a \in Account : LoginBegins(c, a) \/ LogoutBegins(c, a)
             \/ \E accts \in ImportSets : ImportBegins(c, accts)
             \/ EditBegins(c)

Acts(c) == \/ Begins(c) \/ EditLoads(c) \/ DiscoveryFails(c)
           \/ LoginSteps(c) \/ ImportSteps(c) \/ LogoutSteps(c)
           \/ SaveConfig(c) \/ Ends(c) \/ Interrupted(c)

LEMMA StepsOfCommands ==
  ASSUME [AccountsNext]_vars
  PROVE  UNCHANGED vars \/ PartFlips \/ \E c \in Commands : Acts(c)
BY DEF AccountsNext, Acts, Begins

LEMMA OthersStay ==
  ASSUME CommandInv, NEW c \in Commands, Acts(c), NEW d \in Commands, d # c
  PROVE  proc'[d] = proc[d] /\ call'[d] = call[d]
<1>1. ASSUME NEW q, Become(c, q) PROVE proc'[d] = proc[d]
  BY <1>1 DEF Become, CommandInv, CommandsShaped
<1>2. ASSUME NEW x, call' = [call EXCEPT ![c] = x] PROVE call'[d] = call[d]
  BY <1>2 DEF CommandInv, StoreTyped
<1>3. ASSUME NEW k, NEW t, SetBegins(c, k, t) \/ DeleteBegins(c, k) PROVE call'[d] = call[d]
  BY <1>2, <1>3 DEF SetBegins, DeleteBegins, Enter
<1>4. ASSUME NEW ok, CallEnds(c, ok) PROVE call'[d] = call[d]
  BY <1>2, <1>4 DEF CallEnds
<1>5. ASSUME End(c) \/ Fails(c) PROVE proc'[d] = proc[d]
  BY <1>1, <1>5 DEF End, Fails, Goto
<1>6. CASE Begins(c)
  BY <1>1, <1>6 DEF Begins, LoginBegins, LogoutBegins, ImportBegins, EditBegins, Begin, storeVars
<1>7. CASE EditLoads(c) \/ DiscoveryFails(c)
  BY <1>1, <1>5, <1>7 DEF EditLoads, DiscoveryFails, Loads, Local, storeVars
<1>8. CASE LoginSteps(c)
  <2>1. CASE LoginLoads(c) \/ LoginStored(c)
    BY <1>1, <2>1 DEF LoginLoads, LoginStored, Loads, Local, storeVars
  <2>2. CASE LoginAccount(c) \/ LoginServer(c)
    BY <1>1, <1>3, <2>2 DEF LoginAccount, LoginServer, AddServer, Local, storeVars
  <2>3. CASE LoginAccountStored(c) \/ LoginServerStored(c)
    BY <1>1, <1>4, <1>5, <2>3 DEF LoginAccountStored, LoginServerStored, AddServer
  <2>4. QED
    BY <1>8, <2>1, <2>2, <2>3 DEF LoginSteps
<1>9. CASE ImportSteps(c)
  <2>1. CASE ImportNext(c) \/ ImportLoads(c) \/ ImportJournals(c) \/ ImportStored(c) \/ ImportFailed(c)
    BY <1>1, <1>5, <2>1 DEF ImportNext, ImportLoads, ImportJournals, ImportStored, ImportFailed, Undo, Goto,
                         Loads, Local, storeVars
  <2>2. CASE ImportWrites(c) \/ ImportUndoes(c)
    BY <1>3, <2>2 DEF ImportWrites, ImportUndoes
  <2>3. CASE ImportWritten(c) \/ ImportUndone(c)
    BY <1>1, <1>4, <2>3 DEF ImportWritten, ImportUndone, Undo, Goto
  <2>4. CASE ImportSaves(c) \/ ImportRestores(c)
    BY <1>1, <2>4 DEF ImportSaves, ImportRestores, Save, Undo, Goto, storeVars
  <2>5. QED
    BY <1>9, <2>1, <2>2, <2>3, <2>4 DEF ImportSteps
<1>10. CASE LogoutSteps(c)
  <2>1. CASE LogoutLoads(c) \/ LogoutDeleted(c)
    BY <1>1, <1>5, <2>1 DEF LogoutLoads, LogoutDeleted, Loads, Local, storeVars
  <2>2. CASE LogoutAccount(c) \/ LogoutServer(c)
    BY <1>1, <1>3, <2>2 DEF LogoutAccount, LogoutServer, Local, storeVars
  <2>3. CASE LogoutAccountDeleted(c) \/ LogoutServerDeleted(c)
    BY <1>1, <1>4, <2>3 DEF LogoutAccountDeleted, LogoutServerDeleted
  <2>4. QED
    BY <1>10, <2>1, <2>2, <2>3 DEF LogoutSteps
<1>11. CASE SaveConfig(c)
  BY <1>5, <1>11 DEF SaveConfig, Save, storeVars
<1>12. CASE Ends(c) \/ Interrupted(c)
  BY <1>1, <1>2, <1>12 DEF Ends, Interrupted, Leave, Become
<1>13. QED
  BY <1>6, <1>7, <1>8, <1>9, <1>10, <1>11, <1>12 DEF Acts

(***************************************************************************)
(* What a command holds in memory differs from what it loaded in the       *)
(* account it is about, and while it is quiet what it loaded is on disk.   *)
(***************************************************************************)
Kept(from, to, a) ==
  \A b \in Account \ {a} :
    /\ b \in to.accounts <=> b \in from.accounts
    /\ \A id \in ProfilesOf(from, b) :
         to.profiles[id] \in {from.profiles[id]} \cup [acct : {a}, own : BOOLEAN]

Underway == {"account", "servers", "journal", "write", "undo", "restore", "save"}

Loaded(p) == p.phase \in Underway \/ (p.phase = "failed" /\ p.seen # <<>>)

Keeps(p) ==
  /\ p.phase = "plex" => p.seen = <<>> /\ p.journal = <<>>
  /\ p.phase = "failed" => p.cmd = "import"
  /\ p.phase \in Underway => Kept(p.old, p.conf, p.acct)
  /\ p.cmd = "logout" /\ p.phase \in {"account", "servers"} => p.found \subseteq ProfilesOf(p.old, p.acct)

KeepInv ==
  /\ CommandInv
  /\ \A c \in Commands : Keeps(proc[c])
  /\ \A c \in quiet : Loaded(proc[c]) => config = proc[c].old

LEMMA KeptOnlyBy ==
  ASSUME NEW from, NEW to, NEW next, NEW a, Kept(from, to, a),
         \A b \in Account \ {a} : b \in next.accounts <=> b \in to.accounts,
         \A id \in Machines : \/ next.profiles[id] = to.profiles[id]
                              \/ next.profiles[id] \in [acct : {a}, own : BOOLEAN]
                              \/ id \in ProfilesOf(from, a)
  PROVE  Kept(from, next, a)
BY DEF Kept, ProfilesOf

LEMMA KeptItself ==
  ASSUME NEW conf, NEW a
  PROVE  Kept(conf, conf, a)
BY DEF Kept

LEMMA EditsKeep ==
  ASSUME NEW conf \in Config, NEW next \in Edited(conf), NEW a
  PROVE  Kept(conf, next, a)
<1>1. next.accounts = conf.accounts /\ next.profiles = conf.profiles
  BY DEF Edited, ConfigSet, ConfigUse, AccountsUse, ServersUse, Config
<1>2. QED
  BY <1>1 DEF Kept

LEMMA WithProfilesKeeps ==
  ASSUME NEW conf \in Config, NEW a \in Account, NEW ids \in SUBSET Machines, NEW own
  PROVE  /\ WithProfiles(conf, a, ids, own).accounts = conf.accounts
         /\ WithProfiles(conf, a, ids, own).curAccount = conf.curAccount
         /\ \A id \in Machines : \/ WithProfiles(conf, a, ids, own).profiles[id] = conf.profiles[id]
                                 \/ WithProfiles(conf, a, ids, own).profiles[id] \in [acct : {a}, own : BOOLEAN]
<1> DEFINE P == [id \in Machines |-> IF id \in ids THEN [acct |-> a, own |-> id \in own]
                                    ELSE conf.profiles[id]]
<1>1. WithProfiles(conf, a, ids, own) = [conf EXCEPT !.profiles = P]
  BY DEF WithProfiles
<1>2. ASSUME NEW id \in Machines
      PROVE  P[id] = conf.profiles[id] \/ P[id] \in [acct : {a}, own : BOOLEAN]
  <2>1. (id \in own) \in BOOLEAN
    OBVIOUS
  <2>2. [acct |-> a, own |-> id \in own] \in [acct : {a}, own : BOOLEAN]
    BY <2>1
  <2>3. QED
    BY <2>2
<1> HIDE DEF P
<1>3. WithProfiles(conf, a, ids, own).accounts = conf.accounts /\ WithProfiles(conf, a, ids, own).profiles = P
      /\ WithProfiles(conf, a, ids, own).curAccount = conf.curAccount
  BY <1>1 DEF Config
<1>4. QED
  BY <1>2, <1>3

\* Of a command's step: what it loaded stays, unless it loads now.
Steady(p, q) == Loaded(q) => Loaded(p) /\ q.old = p.old

LEMMA EndSteady ==
  ASSUME CommandInv, NEW c \in Commands, End(c) \/ (Fails(c) /\ proc[c].seen = <<>>)
  PROVE  Keeps(proc'[c]) /\ ~Loaded(proc'[c])
<1>1. proc[c] \in Process /\ proc \in [Commands -> Process]
  BY DEF CommandInv, CommandsShaped
<1>2. CASE End(c)
  <2>1. proc'[c].phase = "ended"
    BY <1>1, <1>2, IdleTyped DEF End, Become, Process
  <2>2. QED
    BY <2>1 DEF Keeps, Loaded, Underway
<1>3. CASE proc[c].cmd = "import" /\ Goto(c, "failed") /\ proc[c].seen = <<>>
  <2>1. proc'[c].phase = "failed" /\ proc'[c].seen = <<>> /\ proc'[c].cmd = "import"
    BY <1>1, <1>3 DEF Goto, Become, Process
  <2>2. QED
    BY <2>1 DEF Keeps, Loaded, Underway
<1>4. QED
  BY <1>2, <1>3 DEF Fails

LEMMA LoadsKeep ==
  ASSUME CommandInv, NEW c \in Commands, NEW p \in Process, NEW conf, Loads(c, p, conf),
         p.phase \notin {"plex", "failed"},
         Kept(config, conf, p.acct), p.cmd = "logout" => p.found \subseteq ProfilesOf(config, p.acct)
  PROVE  Keeps(proc'[c]) /\ proc'[c].old = config
<1>1. proc'[c] = [p EXCEPT !.conf = conf, !.old = config]
  BY DEF Loads, Become, CommandInv, CommandsShaped
<1>2. /\ proc'[c].old = config /\ proc'[c].conf = conf /\ proc'[c].acct = p.acct /\ proc'[c].phase = p.phase
      /\ proc'[c].cmd = p.cmd /\ proc'[c].found = p.found
  BY <1>1 DEF Process
<1>3. QED
  BY <1>2 DEF Keeps

StepKeeps(c) ==
  /\ Keeps(proc'[c])
  /\ quiet' \subseteq quiet \cup {c}
  /\ config' = config \/ quiet' \subseteq {c}
  /\ c \in quiet' /\ Loaded(proc'[c]) => config' = proc'[c].old

LEMMA SteadyKeeps ==
  ASSUME KeepInv, NEW c \in Commands, Keeps(proc'[c]), Steady(proc[c], proc'[c]), Local(c) \/ Writes(c)
  PROVE  StepKeeps(c)
BY DEF KeepInv, StepKeeps, Steady, Local, Writes

LEMMA UnchangedKeeps ==
  ASSUME KeepInv, NEW c \in Commands, UNCHANGED proc, Writes(c)
  PROVE  StepKeeps(c)
BY SteadyKeeps DEF KeepInv, Steady

LEMMA EndsKeep ==
  ASSUME KeepInv, NEW c \in Commands, End(c) \/ (Fails(c) /\ proc[c].seen = <<>>),
         Local(c) \/ Writes(c)
  PROVE  StepKeeps(c)
<1>1. Keeps(proc'[c]) /\ ~Loaded(proc'[c])
  BY EndSteady DEF KeepInv
<1>2. QED
  BY <1>1 DEF StepKeeps, Local, Writes

LEMMA LoadsStepKeeps ==
  ASSUME KeepInv, NEW c \in Commands, NEW p \in Process, NEW conf, Loads(c, p, conf),
         p.phase \notin {"plex", "failed"},
         Kept(config, conf, p.acct), p.cmd = "logout" => p.found \subseteq ProfilesOf(config, p.acct)
  PROVE  StepKeeps(c)
<1>1. Keeps(proc'[c]) /\ proc'[c].old = config
  BY LoadsKeep DEF KeepInv
<1>2. config' = config /\ quiet' = quiet \cup {c}
  BY DEF Loads
<1>3. QED
  BY <1>1, <1>2 DEF StepKeeps

LEMMA BeginsKeep ==
  ASSUME KeepInv, NEW c \in Commands, Begins(c)
  PROVE  StepKeeps(c)
<1>1. PICK cmd, accts, phase : Begin(c, cmd, accts, phase) /\ phase \in {"plex", "next", "load"}
  BY DEF Begins, LoginBegins, LogoutBegins, ImportBegins, EditBegins
<1>2. proc'[c].phase = phase /\ proc'[c].seen = <<>> /\ proc'[c].journal = <<>>
  <2>1. Idle \in Process /\ Idle.seen = <<>> /\ Idle.journal = <<>>
    BY IdleTyped DEF Idle
  <2> DEFINE a == IF cmd = "login" THEN CHOOSE a \in accts : TRUE ELSE NoAccount
             t == IF cmd \in {"login", "import"} THEN events' ELSE NoToken
  <2>2. Become(c, [Idle EXCEPT !.phase = phase, !.cmd = cmd, !.names = accts, !.acct = a, !.token = t])
    BY <1>1 DEF Begin
  <2> HIDE DEF a, t
  <2>3. proc'[c] = [Idle EXCEPT !.phase = phase, !.cmd = cmd, !.names = accts, !.acct = a, !.token = t]
    BY <2>2 DEF Become, KeepInv, CommandInv, CommandsShaped
  <2>4. QED
    BY <2>1, <2>3 DEF Process
<1>3. Keeps(proc'[c]) /\ ~Loaded(proc'[c])
  BY <1>1, <1>2 DEF Keeps, Loaded, Underway
<1>4. config' = config /\ quiet' = quiet
  BY <1>1 DEF Begin
<1>5. QED
  BY <1>3, <1>4 DEF StepKeeps

\* What a step makes of a process.
LEMMA Becomes ==
  ASSUME CommandInv, NEW c \in Commands
  PROVE  /\ \A q : Become(c, q) => proc'[c] = q
         /\ proc[c] \in Process
BY DEF CommandInv, CommandsShaped, Become

LEMMA LoginKeeps ==
  ASSUME KeepInv, NEW c \in Commands, LoginSteps(c)
  PROVE  StepKeeps(c)
<1> DEFINE p == proc[c]
<1>1. p \in Process /\ Shaped(p, call[c]) /\ Keeps(p) /\ config \in Config /\ CommandInv
  BY ProcTyped DEF KeepInv
<1>2. \A q : Become(c, q) => proc'[c] = q
  BY <1>1, Becomes
<1>3. CASE LoginLoads(c)
  <2> DEFINE r == [p EXCEPT !.phase = "account"]
  <2>1. p.cmd = "login" /\ p.acct \in Account
    BY <1>1, <1>3 DEF LoginLoads, At, Shaped
  <2>2. PICK d \in Discoveries[p.acct] : Loads(c, Finds(r, d), config)
    BY <1>3 DEF LoginLoads
  <2>3. r \in Process /\ r.phase = "account" /\ r.cmd = "login"
    BY <1>1, <2>1 DEF Process, Phases
  <2> HIDE DEF r
  <2>4. Finds(r, d) \in Process /\ Finds(r, d).phase = "account" /\ Finds(r, d).cmd = "login"
    BY <2>1, <2>3, FindsTyped
  <2>5. QED
    BY <2>2, <2>4, KeptItself, LoadsStepKeeps
<1>4. CASE LoginAccount(c)
  BY <1>4, UnchangedKeeps DEF LoginAccount
<1>5. CASE LoginAccountStored(c)
  <2>1. p.cmd = "login" /\ p.phase = "account" /\ p.acct \in Account /\ Writes(c)
    BY <1>1, <1>5 DEF LoginAccountStored, Calling, Shaped
  <2>2. Become(c, [p EXCEPT !.phase = "servers", !.conf.accounts = @ \cup {p.acct}]) \/ Fails(c)
    BY <1>5 DEF LoginAccountStored
  <2>3. CASE Fails(c)
    BY <2>1, <2>3, EndsKeep DEF Fails
  <2>4. CASE Become(c, [p EXCEPT !.phase = "servers", !.conf.accounts = @ \cup {p.acct}])
    <3> DEFINE q == proc'[c]
    <3>1. q = [p EXCEPT !.phase = "servers", !.conf.accounts = @ \cup {p.acct}]
      BY <1>2, <2>4
    <3>2. q.phase = "servers" /\ q.old = p.old /\ q.cmd = "login" /\ q.acct = p.acct
          /\ q.conf.accounts = p.conf.accounts \cup {p.acct} /\ q.conf.profiles = p.conf.profiles
      BY <1>1, <2>1, <3>1 DEF Process, Config
    <3> HIDE DEF q
    <3>3. Kept(q.old, q.conf, q.acct)
      BY <1>1, <2>1, <3>2, KeptOnlyBy DEF Keeps, Underway
    <3>4. Keeps(q) /\ Steady(p, q)
      BY <2>1, <3>2, <3>3 DEF Keeps, Steady, Loaded, Underway
    <3>5. QED
      BY <2>1, <3>4, SteadyKeeps DEF q
  <2>5. QED
    BY <2>2, <2>3, <2>4
<1>6. ASSUME NEW id \in Machines, AddServer(c, id), p.cmd = "login", p.phase = "servers", Local(c) \/ Writes(c)
      PROVE  StepKeeps(c)
  <2> DEFINE w == WithProfiles(p.conf, p.acct, {id}, p.own)
             f == FirstServer(p.conf, {id}, id)
             q == proc'[c]
  <2>1. p.acct \in Account /\ p.conf \in Config /\ p.own \in SUBSET Machines /\ {id} \in SUBSET Machines
    BY <1>1, <1>6 DEF Shaped, Process
  <2>2. w \in Config /\ w.accounts = p.conf.accounts
        /\ \A i \in Machines : \/ w.profiles[i] = p.conf.profiles[i]
                               \/ w.profiles[i] \in [acct : {p.acct}, own : BOOLEAN]
    <3>1. w \in Config
      BY <2>1, ConfigsTyped
    <3>2. w.accounts = p.conf.accounts
      BY <2>1, WithProfilesKeeps
    <3>3. \A i \in Machines : \/ w.profiles[i] = p.conf.profiles[i]
                             \/ w.profiles[i] \in [acct : {p.acct}, own : BOOLEAN]
      BY <2>1, WithProfilesKeeps
    <3>4. QED
      BY <3>1, <3>2, <3>3
  <2>3. q = [p EXCEPT !.found = @ \ {id}, !.conf = [w EXCEPT !.curServer = f]]
    BY <1>2, <1>6 DEF AddServer
  <2> HIDE DEF w, f
  <2>4. q.phase = "servers" /\ q.old = p.old /\ q.cmd = "login" /\ q.acct = p.acct
        /\ q.conf = [w EXCEPT !.curServer = f]
    BY <1>1, <1>6, <2>3 DEF Process
  <2>5. q.conf.accounts = w.accounts /\ q.conf.profiles = w.profiles
    BY <2>2, <2>4 DEF Config
  <2> HIDE DEF q
  <2>6. Kept(q.old, q.conf, q.acct)
    BY <1>1, <1>6, <2>2, <2>4, <2>5, KeptOnlyBy DEF Keeps, Underway
  <2>7. Keeps(q) /\ Steady(p, q)
    BY <1>6, <2>4, <2>6 DEF Keeps, Steady, Loaded, Underway
  <2>8. QED
    BY <1>6, <2>7, SteadyKeeps DEF q
<1>7. CASE LoginServer(c)
  <2>1. p.cmd = "login" /\ p.phase = "servers" /\ p.found \in SUBSET Machines
    BY <1>1, <1>7 DEF LoginServer, At, Process
  <2>2. PICK id \in p.found : (Writes(c) /\ UNCHANGED proc) \/ (AddServer(c, id) /\ Local(c))
    BY <1>7 DEF LoginServer
  <2>3. QED
    BY <1>6, <2>1, <2>2, UnchangedKeeps
<1>8. CASE LoginServerStored(c)
  <2>1. p.cmd = "login" /\ p.phase = "servers" /\ call[c] # NoCall /\ Writes(c)
    BY <1>8 DEF LoginServerStored, Calling
  <2>2. PICK id \in p.found \cap p.own : Sets(call[c], ServerKey(p.acct, id), p.token)
    BY <1>1, <2>1 DEF Shaped, CallFits
  <2>3. id \in Machines /\ call[c].key.id = id
    BY <1>1, <2>2 DEF Process, Sets, ServerKey
  <2>4. CASE Fails(c)
    BY <2>1, <2>4, EndsKeep DEF Fails
  <2>5. CASE AddServer(c, id)
    BY <1>6, <2>1, <2>3, <2>5
  <2>6. QED
    BY <1>8, <2>3, <2>4, <2>5 DEF LoginServerStored
<1>9. CASE LoginStored(c)
  <2> DEFINE q == proc'[c]
  <2>1. p.cmd = "login" /\ p.phase = "servers" /\ Local(c)
    BY <1>9 DEF LoginStored, At
  <2>2. q = [p EXCEPT !.phase = "save", !.conf.curAccount = IF @ = NoAccount THEN p.acct ELSE @]
    BY <1>2, <1>9 DEF LoginStored
  <2>3. q.phase = "save" /\ q.old = p.old /\ q.cmd = "login" /\ q.acct = p.acct
        /\ q.conf.accounts = p.conf.accounts /\ q.conf.profiles = p.conf.profiles
    BY <1>1, <2>1, <2>2 DEF Process, Config
  <2> HIDE DEF q
  <2>4. Kept(q.old, q.conf, q.acct)
    BY <1>1, <2>1, <2>3, KeptOnlyBy DEF Keeps, Underway
  <2>5. Keeps(q) /\ Steady(p, q)
    BY <2>1, <2>3, <2>4 DEF Keeps, Steady, Loaded, Underway
  <2>6. QED
    BY <2>1, <2>5, SteadyKeeps DEF q
<1>10. QED
  BY <1>3, <1>4, <1>5, <1>7, <1>8, <1>9 DEF LoginSteps

LEMMA ImportLoadsKeeps ==
  ASSUME KeepInv, NEW c \in Commands, ImportLoads(c)
  PROVE  StepKeeps(c)
<1> DEFINE a == proc[c].acct
           r == [proc[c] EXCEPT !.phase = "journal", !.seen = [k \in Keys |-> Get(k)]]
<1>1. proc[c] \in Process /\ proc[c].cmd = "import" /\ a \in Account /\ config \in Config /\ CommandInv
  BY ProcTyped DEF ImportLoads, At, Shaped, KeepInv
<1>2. [k \in Keys |-> Get(k)] \in Read
  BY <1>1, GetTyped DEF CommandInv, Read
<1>3. r \in Process /\ r.phase = "journal" /\ r.cmd = "import" /\ r.acct = a
  BY <1>1, <1>2 DEF Process, Phases
<1>4. PICK d \in Discoveries[a], first \in Machines :
        Loads(c, Finds(r, d), [WithProfiles(config, a, Finds(r, d).found, Finds(r, d).own) EXCEPT
                                    !.accounts = @ \cup {a}, !.curAccount = a,
                                    !.curServer = FirstServer(config, Finds(r, d).found, first)])
  BY DEF ImportLoads
<1> HIDE DEF a, r
<1> DEFINE p == Finds(r, d)
           w == WithProfiles(config, a, p.found, p.own)
           f == FirstServer(config, p.found, first)
           conf == [w EXCEPT !.accounts = @ \cup {a}, !.curAccount = a, !.curServer = f]
<1>5. p \in Process /\ p.phase = "journal" /\ p.cmd = "import" /\ p.acct = a
      /\ p.found \in SUBSET Machines /\ p.own \in SUBSET Machines
  BY <1>1, <1>3, FindsTyped DEF Process
<1>6. Loads(c, p, conf)
  BY <1>4
<1> HIDE DEF p
<1>7. w \in Config
  BY <1>1, <1>5, ConfigsTyped
<1>8. w.accounts = config.accounts
  BY <1>1, <1>5, WithProfilesKeeps
<1>9. \A id \in Machines : \/ w.profiles[id] = config.profiles[id]
                           \/ w.profiles[id] \in [acct : {a}, own : BOOLEAN]
  BY <1>1, <1>5, WithProfilesKeeps
<1> HIDE DEF w, f
<1>10. conf.accounts = w.accounts \cup {a} /\ conf.profiles = w.profiles
  BY <1>7 DEF Config
<1> HIDE DEF conf
<1>11. Kept(config, conf, p.acct)
  BY <1>5, <1>8, <1>9, <1>10, KeptItself, KeptOnlyBy
<1>12. QED
  BY <1>5, <1>6, <1>11, LoadsStepKeeps

\* A step of an import that changes neither configuration in memory.
Onward(p, q) ==
  /\ q.old = p.old /\ q.conf = p.conf /\ q.acct = p.acct /\ q.cmd = p.cmd /\ q.seen = p.seen
  /\ q.phase \in Underway \cup {"failed"}

LEMMA OnwardKeeps ==
  ASSUME NEW p, NEW q, Keeps(p), p.cmd = "import", p.phase \in Underway, Onward(p, q)
  PROVE  Keeps(q) /\ Steady(p, q)
BY DEF Onward, Keeps, Steady, Loaded, Underway

LEMMA UndoIsOnward ==
  ASSUME CommandInv, NEW c \in Commands, NEW after \in {"failed", "restore"}, Undo(c, after)
  PROVE  Onward(proc[c], proc'[c])
<1> DEFINE p == proc[c]
           ph == IF p.journal = <<>> THEN after ELSE "undo"
<1>1. p \in Process /\ proc'[c] = [p EXCEPT !.phase = ph, !.after = after]
  BY Becomes DEF Undo
<1>2. ph \in {"failed", "restore", "undo"}
  OBVIOUS
<1> HIDE DEF ph
<1>3. QED
  BY <1>1, <1>2 DEF Onward, Process, Underway

LEMMA ImportKeeps ==
  ASSUME KeepInv, NEW c \in Commands, ImportSteps(c)
  PROVE  StepKeeps(c)
<1> DEFINE p == proc[c]
           q == proc'[c]
<1>1. p \in Process /\ Shaped(p, call[c]) /\ Keeps(p) /\ config \in Config /\ CommandInv
  BY ProcTyped DEF KeepInv
<1>2. \A r : Become(c, r) => q = r
  BY <1>1, Becomes
<1>3. CASE ImportNext(c)
  <2>1. CASE End(c)
    BY <1>3, <2>1, EndsKeep DEF ImportNext
  <2>2. CASE \E a \in p.names, empty \in BOOLEAN :
               Become(c, [Idle EXCEPT !.cmd = "import", !.names = p.names \ {a}, !.acct = a,
                                      !.token = p.token, !.phase = IF empty THEN "next" ELSE "plex"])
    <3>1. PICK a \in p.names, empty \in BOOLEAN :
               q = [Idle EXCEPT !.cmd = "import", !.names = p.names \ {a}, !.acct = a,
                                      !.token = p.token, !.phase = IF empty THEN "next" ELSE "plex"]
      BY <1>2, <2>2
    <3>2. q.phase \in {"next", "plex"} /\ q.seen = <<>> /\ q.journal = <<>> /\ q.cmd = "import"
      BY <3>1 DEF Idle
    <3> HIDE DEF q
    <3>3. Keeps(q) /\ Steady(p, q)
      BY <3>2 DEF Keeps, Steady, Loaded, Underway
    <3>4. QED
      BY <1>3, <3>3, SteadyKeeps DEF q, ImportNext
  <2>3. QED
    BY <1>3, <2>1, <2>2 DEF ImportNext
<1>4. CASE ImportWrites(c) \/ ImportUndoes(c)
  BY <1>4, UnchangedKeeps DEF ImportWrites, ImportUndoes
<1>5. ASSUME p.cmd = "import", p.phase \in Underway, Onward(p, q), Local(c) \/ Writes(c)
      PROVE  StepKeeps(c)
  <2>1. Keeps(q) /\ Steady(p, q)
    BY <1>1, <1>5, OnwardKeeps
  <2>2. QED
    BY <1>5, <2>1, SteadyKeeps
<1>6. ASSUME NEW phase \in Underway \cup {"failed"}, Goto(c, phase) PROVE Onward(p, q)
  <2>1. q = [p EXCEPT !.phase = phase]
    BY <1>2, <1>6 DEF Goto
  <2>2. QED
    BY <1>1, <2>1 DEF Onward, Process
<1>7. CASE ImportJournals(c)
  <2>1. p.cmd = "import" /\ p.phase \in Underway /\ Local(c)
    BY <1>7 DEF ImportJournals, At, Underway
  <2>2. CASE Undo(c, "failed")
    BY <1>1, <1>5, <2>1, <2>2, UndoIsOnward
  <2>3. CASE \E k : Become(c, [p EXCEPT !.phase = "write",
                                        !.journal = Append(@, [key |-> k, prior |-> Get(k)])])
    <3>1. PICK k : q = [p EXCEPT !.phase = "write",
                                 !.journal = Append(@, [key |-> k, prior |-> Get(k)])]
      BY <1>2, <2>3
    <3>2. Onward(p, q)
      BY <1>1, <3>1 DEF Onward, Process, Underway
    <3>3. QED
      BY <1>5, <2>1, <3>2
  <2>4. QED
    BY <1>7, <2>2, <2>3 DEF ImportJournals
<1>8. CASE ImportWritten(c)
  <2>1. p.cmd = "import" /\ p.phase \in Underway /\ Writes(c)
    BY <1>8 DEF ImportWritten, Calling, Underway
  <2>2. Undo(c, "failed") \/ Goto(c, "journal")
    BY <1>8 DEF ImportWritten
  <2>3. Onward(p, q)
    BY <1>1, <1>6, <2>2, UndoIsOnward DEF Underway
  <2>4. QED
    BY <1>5, <2>1, <2>3
<1>9. CASE ImportStored(c)
  <2>1. p.cmd = "import" /\ p.phase \in Underway /\ Local(c) /\ Goto(c, "save")
    BY <1>9 DEF ImportStored, At, Underway
  <2>2. Onward(p, q)
    BY <1>6, <2>1 DEF Underway
  <2>3. QED
    BY <1>5, <2>1, <2>2
<1>10. CASE ImportUndone(c)
  <2> DEFINE rest == SubSeq(p.journal, 1, Len(p.journal) - 1)
             ph == IF rest = <<>> THEN p.after ELSE "undo"
  <2>1. p.cmd = "import" /\ p.phase \in Underway /\ Writes(c)
    BY <1>10 DEF ImportUndone, Calling, Underway
  <2>2. q = [p EXCEPT !.journal = rest, !.phase = ph]
    BY <1>2, <1>10 DEF ImportUndone
  <2>3. ph \in {"failed", "restore", "undo"}
    BY <1>1 DEF Process
  <2> HIDE DEF rest, ph
  <2>4. Onward(p, q)
    BY <1>1, <2>2, <2>3 DEF Onward, Process, Underway
  <2>5. QED
    BY <1>5, <2>1, <2>4
<1>11. CASE ImportFailed(c)
  <2>1. p.cmd = "import" /\ p.phase = "failed" /\ Local(c) /\ q = [p EXCEPT !.phase = "next"]
    BY <1>2, <1>11 DEF ImportFailed, At, Goto
  <2>2. q.phase = "next" /\ q.cmd = "import"
    BY <1>1, <2>1 DEF Process
  <2> HIDE DEF q
  <2>3. Keeps(q) /\ Steady(p, q)
    BY <2>2 DEF Keeps, Steady, Loaded, Underway
  <2>4. QED
    BY <2>1, <2>3, SteadyKeeps DEF q
<1>12. CASE ImportSaves(c)
  <2>1. p.cmd = "import" /\ p.phase = "save" /\ quiet' = quiet \cap {c}
    BY <1>12 DEF ImportSaves, At, Save
  <2>2. CASE Works("config")
    <3>1. q = [p EXCEPT !.phase = "next"]
      BY <1>2, <1>12, <2>2 DEF ImportSaves, Save, Goto
    <3>2. q.phase = "next" /\ q.cmd = "import"
      BY <1>1, <2>1, <3>1 DEF Process
    <3> HIDE DEF q
    <3>3. Keeps(q) /\ ~Loaded(q)
      BY <3>2 DEF Keeps, Loaded, Underway
    <3>4. QED
      BY <2>1, <3>3 DEF StepKeeps, q
  <2>3. CASE ~Works("config")
    <3>1. Undo(c, "restore") /\ config' = config
      BY <1>12, <2>3 DEF ImportSaves, Save
    <3>2. Onward(p, q)
      BY <1>1, <3>1, UndoIsOnward
    <3>3. Keeps(q) /\ Steady(p, q) /\ p.phase \in Underway
      BY <1>1, <2>1, <3>2, OnwardKeeps DEF Underway
    <3>4. QED
      BY <2>1, <3>1, <3>3 DEF StepKeeps, Steady, KeepInv
  <2>4. QED
    BY <2>2, <2>3
<1>13. CASE ImportRestores(c)
  <2>1. p.cmd = "import" /\ p.phase = "restore" /\ quiet' = quiet \cap {c} /\ Goto(c, "failed")
        /\ config' \in {config, p.old}
    BY <1>13 DEF ImportRestores, At, Save
  <2>2. Onward(p, q)
    BY <1>6, <2>1
  <2>3. Keeps(q) /\ Steady(p, q)
    BY <1>1, <2>1, <2>2, OnwardKeeps DEF Underway
  <2>4. QED
    BY <2>1, <2>3 DEF StepKeeps, Steady, KeepInv
<1>14. QED
  BY <1>3, <1>4, <1>7, <1>8, <1>9, <1>10, <1>11, <1>12, <1>13, ImportLoadsKeeps DEF ImportSteps

LEMMA WithoutKeeps ==
  ASSUME NEW from, NEW conf \in Config, NEW a, NEW id \in Machines, Kept(from, conf, a),
         id \in ProfilesOf(from, a)
  PROVE  Kept(from, Without(conf, id), a)
<1>1. Without(conf, id).accounts = conf.accounts
      /\ \A i \in Machines : i # id => Without(conf, id).profiles[i] = conf.profiles[i]
  BY DEF Without, Config
<1>2. QED
  BY <1>1, KeptOnlyBy

LEMMA LogoutKeeps ==
  ASSUME KeepInv, NEW c \in Commands, LogoutSteps(c)
  PROVE  StepKeeps(c)
<1> DEFINE p == proc[c]
           q == proc'[c]
<1>1. p \in Process /\ Shaped(p, call[c]) /\ Keeps(p) /\ config \in Config /\ CommandInv
  BY ProcTyped DEF KeepInv
<1>2. \A r : Become(c, r) => q = r
  BY <1>1, Becomes
<1>3. CASE LogoutLoads(c)
  <2>1. p.cmd = "logout"
    BY <1>3 DEF LogoutLoads, At
  <2>2. PICK a \in p.names :
         IF a \in config.accounts
         THEN Loads(c, [p EXCEPT !.phase = "account", !.acct = a,
                                !.found = ProfilesOf(config, a), !.seen = tokenFile], config)
         ELSE Fails(c) /\ Local(c)
    BY <1>3 DEF LogoutLoads
  <2>3. CASE a \in config.accounts
    <3> DEFINE r == [p EXCEPT !.phase = "account", !.acct = a,
                          !.found = ProfilesOf(config, a), !.seen = tokenFile]
    <3>1. a \in Account /\ ProfilesOf(config, a) \in SUBSET Machines /\ tokenFile \in Read
      BY <1>1, <2>3, FileIsRead DEF Config, ProfilesOf
    <3>2. r \in Process /\ r.phase = "account" /\ r.acct = a /\ r.found = ProfilesOf(config, a)
      BY <1>1, <3>1 DEF Process, Phases
    <3>3. Loads(c, r, config)
      BY <2>2, <2>3
    <3> HIDE DEF r
    <3>4. QED
      BY <3>2, <3>3, KeptItself, LoadsStepKeeps
  <2>4. CASE a \notin config.accounts
    BY <2>1, <2>2, <2>4, EndsKeep DEF Fails
  <2>5. QED
    BY <2>3, <2>4
<1>4. CASE LogoutAccount(c)
  BY <1>4, UnchangedKeeps DEF LogoutAccount
<1>5. ASSUME NEW conf \in Config, q.conf = conf, p.cmd = "logout", p.phase \in {"account", "servers"},
             q.old = p.old, q.acct = p.acct, q.cmd = p.cmd, q.found \subseteq p.found,
             q.phase \in {"servers", "save"}, Kept(p.old, conf, p.acct), Local(c) \/ Writes(c)
      PROVE  StepKeeps(c)
  <2>1. Keeps(q) /\ Steady(p, q)
    BY <1>1, <1>5 DEF Keeps, Steady, Loaded, Underway
  <2>2. QED
    BY <1>5, <2>1, SteadyKeeps
<1>6. CASE LogoutAccountDeleted(c)
  <2>1. p.cmd = "logout" /\ p.phase = "account" /\ Writes(c) /\ p.acct \in Account /\ p.conf \in Config
    BY <1>1, <1>6 DEF LogoutAccountDeleted, Calling, Shaped, Process
  <2>2. PICK ok \in BOOLEAN :
          q = [p EXCEPT !.phase = "servers", !.failed = ~ok, !.conf.accounts = IF ok THEN @ \ {p.acct} ELSE @]
    BY <1>2, <1>6 DEF LogoutAccountDeleted
  <2> DEFINE conf == [p.conf EXCEPT !.accounts = IF ok THEN @ \ {p.acct} ELSE @]
  <2>3. q.conf = conf /\ q.old = p.old /\ q.acct = p.acct /\ q.cmd = p.cmd /\ q.found = p.found
        /\ q.phase = "servers"
    BY <1>1, <2>2 DEF Process
  <2>4. conf \in Config /\ conf.accounts \in {p.conf.accounts, p.conf.accounts \ {p.acct}}
        /\ conf.profiles = p.conf.profiles
    BY <2>1 DEF Config
  <2> HIDE DEF conf, q
  <2>5. Kept(p.old, conf, p.acct)
    BY <1>1, <2>1, <2>4, KeptOnlyBy DEF Keeps, Underway
  <2>6. QED
    BY <1>5, <2>1, <2>3, <2>4, <2>5
<1>7. CASE LogoutServer(c)
  <2>1. p.cmd = "logout" /\ p.phase = "servers" /\ p.acct \in Account /\ p.conf \in Config
        /\ p.found \in SUBSET Machines
    BY <1>1, <1>7 DEF LogoutServer, At, Shaped, Process
  <2>2. PICK id \in p.found :
       \/ Writes(c) /\ UNCHANGED proc
       \/ Local(c) /\ q = [p EXCEPT !.found = @ \ {id}, !.conf = Without(@, id)]
    BY <1>2, <1>7 DEF LogoutServer
  <2>3. CASE Local(c) /\ q = [p EXCEPT !.found = @ \ {id}, !.conf = Without(@, id)]
    <3>1. q.conf = Without(p.conf, id) /\ q.old = p.old /\ q.acct = p.acct /\ q.cmd = p.cmd
          /\ q.found \subseteq p.found /\ q.phase = p.phase
      BY <1>1, <2>3 DEF Process
    <3>2. Without(p.conf, id) \in Config /\ Kept(p.old, p.conf, p.acct) /\ id \in ProfilesOf(p.old, p.acct)
      BY <1>1, <2>1, <2>2, ConfigsTyped DEF Keeps, Underway
    <3>3. Kept(p.old, Without(p.conf, id), p.acct)
      BY <2>1, <3>2, WithoutKeeps
    <3> HIDE DEF q
    <3>4. QED
      BY <1>5, <2>1, <2>3, <3>1, <3>2, <3>3
  <2>4. QED
    BY <2>2, <2>3, UnchangedKeeps
<1>8. CASE LogoutServerDeleted(c)
  <2>1. p.cmd = "logout" /\ p.phase = "servers" /\ p.acct \in Account /\ p.conf \in Config
        /\ p.found \in SUBSET Machines /\ Writes(c) /\ call[c] # NoCall
    BY <1>1, <1>8 DEF LogoutServerDeleted, Calling, Shaped, Process
  <2>2. PICK id \in p.found : Deletes(call[c], ServerKey(p.acct, id))
    BY <1>1, <2>1 DEF Shaped, CallFits
  <2>3. call[c].key.id = id
    BY <2>2 DEF Deletes, ServerKey
  <2>4. PICK ok \in BOOLEAN :
          q = [p EXCEPT !.found = @ \ {id}, !.failed = @ \/ ~ok, !.conf = IF ok THEN Without(@, id) ELSE @]
    BY <1>2, <1>8, <2>3 DEF LogoutServerDeleted
  <2> DEFINE conf == IF ok THEN Without(p.conf, id) ELSE p.conf
  <2>5. q.conf = conf /\ q.old = p.old /\ q.acct = p.acct /\ q.cmd = p.cmd
        /\ q.found \subseteq p.found /\ q.phase = p.phase
    BY <1>1, <2>4 DEF Process
  <2>6. Without(p.conf, id) \in Config /\ Kept(p.old, p.conf, p.acct) /\ id \in ProfilesOf(p.old, p.acct)
    BY <1>1, <2>1, <2>2, ConfigsTyped DEF Keeps, Underway
  <2>7. Kept(p.old, Without(p.conf, id), p.acct)
    BY <2>1, <2>6, WithoutKeeps
  <2>8. conf \in Config /\ Kept(p.old, conf, p.acct)
    BY <2>1, <2>6, <2>7
  <2> HIDE DEF conf, q
  <2>9. QED
    BY <1>5, <2>1, <2>5, <2>8
<1>9. CASE LogoutDeleted(c)
  <2> DEFINE conf == IF p.failed \/ p.conf.curAccount # p.acct THEN p.conf
                     ELSE [p.conf EXCEPT !.curAccount = NoAccount, !.curServer = NoMachine]
  <2>1. p.cmd = "logout" /\ p.phase = "servers" /\ p.acct \in Account /\ p.conf \in Config /\ Local(c)
    BY <1>1, <1>9 DEF LogoutDeleted, At, Shaped, Process
  <2>2. q = [p EXCEPT !.phase = "save", !.conf = conf]
    BY <1>2, <1>9 DEF LogoutDeleted
  <2>3. q.conf = conf /\ q.old = p.old /\ q.acct = p.acct /\ q.cmd = p.cmd /\ q.found = p.found
        /\ q.phase = "save"
    BY <1>1, <2>2 DEF Process
  <2>4. conf \in Config /\ conf.accounts = p.conf.accounts /\ conf.profiles = p.conf.profiles
    BY <2>1 DEF Config
  <2> HIDE DEF conf, q
  <2>5. Kept(p.old, conf, p.acct)
    BY <1>1, <2>1, <2>4, KeptOnlyBy DEF Keeps, Underway
  <2>6. QED
    BY <1>5, <2>1, <2>3, <2>4, <2>5
<1>10. QED
  BY <1>3, <1>4, <1>6, <1>7, <1>8, <1>9 DEF LogoutSteps

LEMMA OtherStepsKeep ==
  ASSUME KeepInv, NEW c \in Commands,
         EditLoads(c) \/ DiscoveryFails(c) \/ SaveConfig(c) \/ Ends(c) \/ Interrupted(c)
  PROVE  StepKeeps(c)
<1> DEFINE p == proc[c]
<1>1. p \in Process /\ Keeps(p) /\ config \in Config /\ CommandInv
  BY ProcTyped DEF KeepInv
<1>2. CASE EditLoads(c)
  <2>1. p.cmd = "edit" /\ p.phase = "load"
    BY <1>2 DEF EditLoads, At
  <2>2. CASE \E conf \in Edited(config) : Loads(c, [p EXCEPT !.phase = "save"], conf)
    <3>1. PICK conf \in Edited(config) : Loads(c, [p EXCEPT !.phase = "save"], conf)
      BY <2>2
    <3> DEFINE r == [p EXCEPT !.phase = "save"]
    <3>2. r \in Process /\ r.cmd = "edit" /\ r.phase = "save"
      BY <1>1, <2>1 DEF Process, Phases
    <3>3. Loads(c, r, conf)
      BY <3>1
    <3> HIDE DEF r
    <3>4. Kept(config, conf, r.acct)
      BY <1>1, <3>1, EditsKeep
    <3>5. QED
      BY <3>2, <3>3, <3>4, LoadsStepKeeps
  <2>3. CASE Fails(c) /\ Local(c)
    BY <2>1, <2>3, EndsKeep DEF Fails
  <2>4. QED
    BY <1>2, <2>2, <2>3 DEF EditLoads
<1>3. CASE DiscoveryFails(c)
  BY <1>1, <1>3, EndsKeep DEF DiscoveryFails, At, Keeps
<1>4. CASE SaveConfig(c)
  <2>1. End(c) /\ quiet' = quiet \cap {c}
    BY <1>4 DEF SaveConfig, Save
  <2>2. Keeps(proc'[c]) /\ ~Loaded(proc'[c])
    BY <1>1, <2>1, EndSteady
  <2>3. QED
    BY <2>1, <2>2 DEF StepKeeps
<1>5. CASE Ends(c) \/ Interrupted(c)
  <2>1. Leave(c)
    BY <1>5 DEF Ends, Interrupted
  <2>2. proc'[c] = Idle
    BY <1>1, <2>1, Becomes DEF Leave, Become
  <2>3. Keeps(proc'[c]) /\ ~Loaded(proc'[c])
    BY <2>2 DEF Idle, Keeps, Loaded, Underway
  <2>4. QED
    BY <2>1, <2>3 DEF StepKeeps, Leave
<1>6. QED
  BY <1>2, <1>3, <1>4, <1>5

LEMMA ActsKeep ==
  ASSUME KeepInv, NEW c \in Commands, Acts(c)
  PROVE  StepKeeps(c)
BY BeginsKeep, LoginKeeps, ImportKeeps, LogoutKeeps, OtherStepsKeep DEF Acts

LEMMA InitKeepInv == AccountsInit => KeepInv
<1> SUFFICES ASSUME AccountsInit PROVE KeepInv
  OBVIOUS
<1>1. CommandInv /\ quiet = {} /\ \A c \in Commands : proc[c] = Idle
  BY InitCommandInv DEF AccountsInit
<1>2. Keeps(Idle)
  BY DEF Idle, Keeps, Underway
<1>3. QED
  BY <1>1, <1>2 DEF KeepInv

LEMMA NextKeepInv == KeepInv /\ [AccountsNext]_vars => KeepInv'
<1> SUFFICES ASSUME KeepInv, [AccountsNext]_vars PROVE KeepInv'
  OBVIOUS
<1>1. CommandInv'
  BY NextCommandInv DEF KeepInv
<1>2. CASE UNCHANGED vars \/ PartFlips
  <2>1. proc' = proc /\ config' = config /\ quiet' \subseteq quiet
    BY <1>2 DEF vars, PartFlips
  <2>2. QED
    BY <1>1, <2>1 DEF KeepInv, Keeps, Loaded, Kept, ProfilesOf
<1>3. ASSUME NEW c \in Commands, Acts(c) PROVE KeepInv'
  <2>1. StepKeeps(c)
    BY <1>3, ActsKeep
  <2>2. ASSUME NEW d \in Commands PROVE Keeps(proc'[d])
    BY <1>3, <2>1, OthersStay DEF KeepInv, StepKeeps
  <2>3. ASSUME NEW d \in quiet', Loaded(proc'[d]) PROVE config' = proc'[d].old
    <3>1. CASE d = c
      BY <2>1, <2>3, <3>1 DEF StepKeeps
    <3>2. CASE d # c
      <4>1. d \in quiet /\ d \in Commands /\ config' = config
        BY <2>1, <2>3, <3>2 DEF StepKeeps, KeepInv, CommandInv, RestTyped
      <4>2. proc'[d] = proc[d]
        BY <1>3, <3>2, <4>1, OthersStay DEF KeepInv
      <4>3. QED
        BY <2>3, <4>1, <4>2 DEF KeepInv
    <3>3. QED
      BY <3>1, <3>2
  <2>4. (\A d \in Commands : Keeps(proc[d]))'
    BY <2>2 DEF Keeps, Kept, ProfilesOf
  <2>5. (\A d \in quiet : Loaded(proc[d]) => config = proc[d].old)'
    BY <2>3 DEF Loaded
  <2>6. QED
    BY <1>1, <2>4, <2>5 DEF KeepInv
<1>4. QED
  BY <1>2, <1>3, StepsOfCommands

THEOREM KeepInvHolds == Spec => []KeepInv
BY InitKeepInv, NextKeepInv, PTL DEF Spec

\* The file becomes what the command that saves has in memory or had loaded.
LEMMA FileMoves ==
  ASSUME NEW c \in Commands, Acts(c)
  PROVE  \/ config' = config
         \/ proc[c].phase = "save" /\ config' = proc[c].conf
         \/ proc[c].phase = "restore" /\ config' = proc[c].old
<1>1. CASE Begins(c) \/ EditLoads(c) \/ DiscoveryFails(c) \/ LoginSteps(c) \/ LogoutSteps(c)
  BY <1>1 DEF Begins, LoginBegins, LogoutBegins, ImportBegins, EditBegins, Begin, EditLoads, DiscoveryFails,
              LoginSteps, LoginLoads, LoginAccount, LoginAccountStored, LoginServer, LoginServerStored,
              LoginStored, LogoutSteps, LogoutLoads, LogoutAccount, LogoutAccountDeleted, LogoutServer,
              LogoutServerDeleted, LogoutDeleted, Loads, Local, Writes
<1>2. CASE ImportSteps(c)
  BY <1>2 DEF ImportSteps, ImportNext, ImportLoads, ImportJournals, ImportWrites, ImportWritten,
              ImportStored, ImportUndoes, ImportUndone, ImportFailed, ImportSaves, ImportRestores,
              Save, At, Loads, Local, Writes
<1>3. CASE SaveConfig(c)
  BY <1>3 DEF SaveConfig, Save, At
<1>4. CASE Ends(c) \/ Interrupted(c)
  BY <1>4 DEF Ends, Interrupted, Leave
<1>5. QED
  BY <1>1, <1>2, <1>3, <1>4 DEF Acts

\* A login, logout, import or edit that found the file as it had loaded it
\* adds, removes or replaces nothing of the accounts it is not about: what it
\* saves, and what a failed import puts back, agrees with the file on them.
THEOREM OthersAreKept == Spec => CommandsKeepOthers
<1> DEFINE A == \A c \in quiet : proc[c].phase \in {"save", "restore"} /\ proc'[c] # proc[c] =>
                  \A b \in Account \ {proc[c].acct} :
                    /\ b \in config'.accounts <=> b \in config.accounts
                    /\ \A id \in ProfilesOf(config, b) :
                         config'.profiles[id] \in {config.profiles[id]}
                                                    \cup [acct : {proc[c].acct}, own : BOOLEAN]
<1>1. ASSUME KeepInv, [AccountsNext]_vars PROVE A
  <2> SUFFICES ASSUME NEW c \in quiet, proc[c].phase \in {"save", "restore"}, proc'[c] # proc[c],
                      NEW b \in Account \ {proc[c].acct}
               PROVE  /\ b \in config'.accounts <=> b \in config.accounts
                      /\ \A id \in ProfilesOf(config, b) :
                           config'.profiles[id] \in {config.profiles[id]}
                                                      \cup [acct : {proc[c].acct}, own : BOOLEAN]
    OBVIOUS
  <2>1. c \in Commands /\ CommandInv
    BY <1>1 DEF KeepInv, CommandInv, RestTyped
  <2>2. PICK d \in Commands : Acts(d)
    BY <1>1, StepsOfCommands DEF vars, PartFlips
  <2>3. d = c
    BY <2>1, <2>2, OthersStay
  <2>4. config' = config \/ config' = proc[c].conf \/ config' = proc[c].old
    BY <2>1, <2>2, <2>3, FileMoves
  <2>5. Kept(proc[c].old, proc[c].conf, proc[c].acct) /\ config = proc[c].old
    BY <1>1, <2>1 DEF KeepInv, Keeps, Loaded, Underway
  <2>6. QED
    BY <2>4, <2>5 DEF Kept
<1>2. KeepInv /\ [AccountsNext]_vars => [A]_vars
  BY <1>1
<1>3. QED
  BY <1>2, KeepInvHolds, PTL DEF Spec, CommandsKeepOthers

(***************************************************************************)
(* While a command is quiet, only its own steps change the credentials and *)
(* what its call has loaded is what the file holds.                        *)
(***************************************************************************)
StoreIs == UNCHANGED <<keyring, tokenFile, broken, config>>

LEMMA QuietFrame ==
  ASSUME CommandInv, NEW c \in Commands, Acts(c), NEW d \in quiet', d # c
  PROVE  StoreIs /\ d \in quiet
<1>1. CASE Local(c)
  BY <1>1 DEF Local, storeVars, StoreIs
<1>2. ASSUME NEW p, NEW conf, Loads(c, p, conf) PROVE StoreIs /\ d \in quiet
  BY <1>2 DEF Loads, storeVars, StoreIs
<1>3. CASE Writes(c)
  BY <1>3 DEF Writes
<1>4. CASE Leave(c)
  BY <1>4 DEF Leave, StoreIs
<1>5. CASE Begins(c)
  BY <1>5 DEF Begins, LoginBegins, LogoutBegins, ImportBegins, EditBegins, Begin, storeVars, StoreIs
<1>6. CASE EditLoads(c) \/ DiscoveryFails(c)
  BY <1>1, <1>2, <1>6 DEF EditLoads, DiscoveryFails
<1>7. CASE LoginSteps(c)
  BY <1>1, <1>2, <1>3, <1>7 DEF LoginSteps, LoginLoads, LoginAccount, LoginAccountStored, LoginServer,
                                 LoginServerStored, LoginStored
<1>8. CASE ImportSteps(c)
  <2>1. CASE ImportLoads(c)
    BY <1>2, <2>1 DEF ImportLoads
  <2>2. CASE ImportSaves(c) \/ ImportRestores(c)
    BY <2>2 DEF ImportSaves, ImportRestores, Save
  <2>3. QED
    BY <1>1, <1>3, <1>8, <2>1, <2>2
       DEF ImportSteps, ImportNext, ImportJournals, ImportWrites, ImportWritten,
           ImportStored, ImportUndoes, ImportUndone, ImportFailed
<1>9. CASE LogoutSteps(c)
  BY <1>1, <1>2, <1>3, <1>9 DEF LogoutSteps, LogoutLoads, LogoutAccount, LogoutAccountDeleted, LogoutServer,
                                 LogoutServerDeleted, LogoutDeleted
<1>10. CASE SaveConfig(c)
  BY <1>10 DEF SaveConfig, Save
<1>11. CASE Ends(c) \/ Interrupted(c)
  BY <1>4, <1>11 DEF Ends, Interrupted
<1>12. QED
  BY <1>5, <1>6, <1>7, <1>8, <1>9, <1>10, <1>11 DEF Acts

SeesStore(x) ==
  /\ x.loaded = LoadTokenFile
  /\ x.inKeyring = Works("keyring")
  /\ x.op = "set" /\ Works("keyring") => keyring[x.key] = x.value

QuietCalls == \A c \in quiet : call[c] # NoCall => SeesStore(call[c])

\* What a step of a command does to the store.
StoreStep(c) ==
  \/ UNCHANGED <<keyring, tokenFile, broken>> /\ call'[c] = NoCall
  \/ \E k, t : (SetBegins(c, k, t) /\ t # NoToken) \/ DeleteBegins(c, k)
  \/ \E ok : CallEnds(c, ok)

LEMMA StoreSteps ==
  ASSUME CommandInv, NEW c \in Commands, Acts(c)
  PROVE  StoreStep(c)
<1>1. /\ call \in [Commands -> CallRecord \cup {NoCall}] /\ Shaped(proc[c], call[c])
      /\ proc[c].cmd \in {"login", "import"} => proc[c].token # NoToken
  BY AccountsAssumption DEF CommandInv, StoreTyped, CommandsShaped, Shaped
<1>2. ASSUME UNCHANGED storeVars, call[c] = NoCall PROVE StoreStep(c)
  BY <1>2 DEF StoreStep, storeVars
<1>3. ASSUME NEW ok, CallEnds(c, ok) PROVE StoreStep(c)
  BY <1>3 DEF StoreStep
<1>4. CASE Begins(c)
  <2>1. UNCHANGED storeVars /\ proc[c].phase = "idle"
    BY <1>4 DEF Begins, LoginBegins, LogoutBegins, ImportBegins, EditBegins, Begin
  <2>2. QED
    BY <1>1, <1>2, <2>1 DEF Shaped, CallFits
<1>5. CASE EditLoads(c) \/ DiscoveryFails(c)
  BY <1>2, <1>5 DEF EditLoads, DiscoveryFails, At, Loads, Local
<1>6. CASE LoginSteps(c)
  <2>1. CASE LoginLoads(c) \/ LoginStored(c)
    BY <1>2, <2>1 DEF LoginLoads, LoginStored, At, Loads, Local
  <2>2. CASE LoginAccount(c)
    BY <1>1, <2>2 DEF LoginAccount, At, StoreStep
  <2>3. CASE LoginServer(c)
    BY <1>1, <1>2, <2>3 DEF LoginServer, At, Local, StoreStep
  <2>4. CASE LoginAccountStored(c) \/ LoginServerStored(c)
    BY <1>3, <2>4 DEF LoginAccountStored, LoginServerStored
  <2>5. QED
    BY <1>6, <2>1, <2>2, <2>3, <2>4 DEF LoginSteps
<1>7. CASE ImportSteps(c)
  <2>1. CASE ImportNext(c) \/ ImportLoads(c) \/ ImportJournals(c) \/ ImportStored(c) \/ ImportFailed(c)
    BY <1>2, <2>1 DEF ImportNext, ImportLoads, ImportJournals, ImportStored, ImportFailed, At,
                      Loads, Local
  <2>2. CASE ImportWrites(c) \/ ImportUndoes(c)
    BY <1>1, <2>2 DEF ImportWrites, ImportUndoes, At, StoreStep
  <2>3. CASE ImportWritten(c) \/ ImportUndone(c)
    BY <1>3, <2>3 DEF ImportWritten, ImportUndone
  <2>4. CASE ImportSaves(c) \/ ImportRestores(c)
    BY <1>2, <2>4 DEF ImportSaves, ImportRestores, Save, At
  <2>5. QED
    BY <1>7, <2>1, <2>2, <2>3, <2>4 DEF ImportSteps
<1>8. CASE LogoutSteps(c)
  <2>1. CASE LogoutLoads(c) \/ LogoutDeleted(c)
    BY <1>2, <2>1 DEF LogoutLoads, LogoutDeleted, At, Loads, Local
  <2>2. CASE LogoutAccount(c)
    BY <2>2 DEF LogoutAccount, StoreStep
  <2>3. CASE LogoutServer(c)
    BY <1>2, <2>3 DEF LogoutServer, At, Local, StoreStep
  <2>4. CASE LogoutAccountDeleted(c) \/ LogoutServerDeleted(c)
    BY <1>3, <2>4 DEF LogoutAccountDeleted, LogoutServerDeleted
  <2>5. QED
    BY <1>8, <2>1, <2>2, <2>3, <2>4 DEF LogoutSteps
<1>9. CASE SaveConfig(c)
  BY <1>2, <1>9 DEF SaveConfig, Save, At
<1>10. CASE Ends(c)
  BY <1>1, <1>10 DEF Ends, Leave, Shaped, CallFits, StoreStep
<1>11. CASE Interrupted(c)
  BY <1>1, <1>11 DEF Interrupted, Leave, StoreStep
<1>12. QED
  BY <1>4, <1>5, <1>6, <1>7, <1>8, <1>9, <1>10, <1>11 DEF Acts

LEMMA CallStep ==
  ASSUME CommandInv, NEW c \in Commands, Acts(c)
  PROVE  \/ call'[c] = NoCall
         \/ \E k, t : SetBegins(c, k, t) \/ DeleteBegins(c, k)
<1>1. call \in [Commands -> CallRecord \cup {NoCall}]
  BY DEF CommandInv, StoreTyped
<1>2. ASSUME NEW ok, CallEnds(c, ok) PROVE call'[c] = NoCall
  BY <1>1, <1>2 DEF CallEnds
<1>3. QED
  BY <1>2, StoreSteps DEF StoreStep

LEMMA BegunSees ==
  ASSUME CommandInv, CommandInv', NEW c \in Commands, call'[c] # NoCall,
         NEW k, NEW t, SetBegins(c, k, t) \/ DeleteBegins(c, k)
  PROVE  SeesStore(call[c])'
<1>1. tokenFile' = tokenFile /\ broken' = broken
  BY DEF SetBegins, DeleteBegins, Enter
<1>2. LoadTokenFile' = LoadTokenFile /\ Works("keyring")' = Works("keyring")
  BY <1>1 DEF LoadTokenFile, Works
<1>3. call'[c].key \in Keys /\ keyring \in [Keys -> Entry]
  BY DEF CommandInv, StoreTyped, CallRecord
<1>4. CASE SetBegins(c, k, t)
  <2>1. call'[c] = [op |-> "set", key |-> k, value |-> t,
                    inKeyring |-> Works("keyring"), loaded |-> LoadTokenFile]
    BY <1>4 DEF SetBegins, Enter, CommandInv, StoreTyped
  <2>2. Works("keyring") => keyring'[k] = t
    BY <1>3, <1>4, <2>1 DEF SetBegins
  <2>3. QED
    BY <1>2, <2>1, <2>2 DEF SeesStore
<1>5. CASE DeleteBegins(c, k)
  <2>1. call'[c] = [op |-> "delete", key |-> k, value |-> NoToken,
                    inKeyring |-> Works("keyring"), loaded |-> LoadTokenFile]
    BY <1>5 DEF DeleteBegins, Enter, CommandInv, StoreTyped
  <2>2. QED
    BY <1>2, <2>1 DEF SeesStore
<1>6. QED
  BY <1>4, <1>5

LEMMA QuietCallsStep ==
  ASSUME CommandInv, CommandInv', QuietCalls, [AccountsNext]_vars
  PROVE  QuietCalls'
<1>1. CASE UNCHANGED vars
  BY <1>1 DEF vars, storeVars, QuietCalls, SeesStore, LoadTokenFile, Works
<1>2. CASE PartFlips
  BY <1>2 DEF PartFlips, QuietCalls
<1>3. ASSUME NEW c \in Commands, Acts(c) PROVE QuietCalls'
  <2> SUFFICES ASSUME NEW d \in quiet', call'[d] # NoCall PROVE SeesStore(call[d])'
    BY DEF QuietCalls
  <2>1. CASE d = c
    BY <1>3, <2>1, CallStep, BegunSees
  <2>2. CASE d # c
    <3>1. StoreIs /\ d \in quiet
      BY <1>3, <2>2, QuietFrame
    <3>2. d \in Commands
      BY <3>1 DEF CommandInv, RestTyped
    <3>3. call'[d] = call[d]
      BY <1>3, <2>2, <3>2, OthersStay
    <3>4. SeesStore(call[d])
      BY <3>1, <3>3 DEF QuietCalls
    <3>5. QED
      BY <3>1, <3>3, <3>4 DEF SeesStore, StoreIs, LoadTokenFile, Works
  <2>3. QED
    BY <2>1, <2>2
<1>4. QED
  BY <1>1, <1>2, <1>3, StepsOfCommands

(***************************************************************************)
(* What a logout drops from the configuration is gone from the store.      *)
(***************************************************************************)
LEMMA SameCommand ==
  ASSUME CommandInv, NEW c \in Commands, Acts(c)
  PROVE  proc'[c].cmd \in {proc[c].cmd, "none"} \/ Begins(c)
<1> DEFINE p == proc[c]
           q == proc'[c]
<1>1. p \in Process /\ \A r : Become(c, r) => q = r
  BY Becomes
<1>2. Idle.cmd = "none"
  BY DEF Idle
<1>3. End(c) \/ Fails(c) => q.cmd \in {p.cmd, "none"}
  <2>1. End(c) => q.cmd \in {p.cmd, "none"}
    <3>1. [p EXCEPT !.phase = "ended", !.conf = EmptyConfig].cmd = p.cmd
      BY <1>1 DEF Process
    <3>2. [Idle EXCEPT !.phase = "ended"].cmd = "none"
      BY DEF Idle
    <3>3. QED
      BY <1>1, <3>1, <3>2 DEF End
  <2>2. QED
    BY <1>1, <2>1 DEF Fails, Goto, Process
<1>4. ASSUME NEW r \in Process, NEW conf, Loads(c, r, conf) PROVE q.cmd = r.cmd
  BY <1>1, <1>4 DEF Loads, Process
<1>5. ASSUME NEW after, Undo(c, after) PROVE q.cmd = p.cmd
  BY <1>1, <1>5 DEF Undo, Process
<1>6. CASE EditLoads(c)
  <2>1. [p EXCEPT !.phase = "save"] \in Process /\ [p EXCEPT !.phase = "save"].cmd = p.cmd
    BY <1>1 DEF Process, Phases
  <2>2. QED
    BY <1>3, <1>4, <1>6, <2>1 DEF EditLoads
<1>7. CASE DiscoveryFails(c)
  BY <1>3, <1>7 DEF DiscoveryFails
<1>8. CASE LoginSteps(c)
  <2>1. CASE LoginLoads(c)
    <3> DEFINE r == [p EXCEPT !.phase = "account"]
    <3>1. p.acct \in Account
      BY <2>1, ProcTyped DEF LoginLoads, At, Shaped
    <3>2. r \in Process /\ r.cmd = p.cmd
      BY <1>1 DEF Process, Phases
    <3>3. PICK d \in Discoveries[p.acct] : Loads(c, Finds(r, d), config)
      BY <2>1 DEF LoginLoads
    <3> HIDE DEF r
    <3>4. Finds(r, d) \in Process /\ Finds(r, d).cmd = r.cmd
      BY <3>1, <3>2, FindsTyped
    <3>5. QED
      BY <1>4, <3>2, <3>3, <3>4
  <2>2. ASSUME NEW id, AddServer(c, id) PROVE q.cmd = p.cmd
    BY <1>1, <2>2 DEF AddServer, Process
  <2>3. CASE LoginAccount(c) \/ LoginServer(c)
    BY <2>2, <2>3 DEF LoginAccount, LoginServer
  <2>4. CASE LoginAccountStored(c)
    BY <1>1, <1>3, <2>4 DEF LoginAccountStored, Process
  <2>5. CASE LoginServerStored(c)
    BY <1>3, <2>2, <2>5 DEF LoginServerStored
  <2>6. CASE LoginStored(c)
    BY <1>1, <2>6 DEF LoginStored, Process
  <2>7. QED
    BY <1>8, <2>1, <2>3, <2>4, <2>5, <2>6 DEF LoginSteps
<1>9. CASE ImportSteps(c)
  <2>1. CASE ImportNext(c)
    BY <1>1, <1>3, <2>1 DEF ImportNext, At, Idle
  <2>2. CASE ImportLoads(c)
    <3> DEFINE a == p.acct
               r == [p EXCEPT !.phase = "journal", !.seen = [k \in Keys |-> Get(k)]]
    <3>2. a \in Account
      BY <2>2, ProcTyped DEF ImportLoads, At, Shaped
    <3>3. [k \in Keys |-> Get(k)] \in Read
      BY GetTyped DEF CommandInv, Read
    <3>4. r \in Process /\ r.cmd = p.cmd
      BY <1>1, <3>3 DEF Process, Phases
    <3>5. PICK d \in Discoveries[a] : \E conf : Loads(c, Finds(r, d), conf)
      BY <2>2 DEF ImportLoads
    <3>6. PICK conf : Loads(c, Finds(r, d), conf)
      BY <3>5
    <3> HIDE DEF r, a
    <3>7. Finds(r, d) \in Process /\ Finds(r, d).cmd = r.cmd
      BY <3>2, <3>4, FindsTyped
    <3>8. QED
      BY <1>4, <3>4, <3>6, <3>7
  <2>3. CASE ImportJournals(c)
    BY <1>1, <1>5, <2>3 DEF ImportJournals, Process
  <2>4. CASE ImportWrites(c) \/ ImportUndoes(c)
    BY <2>4 DEF ImportWrites, ImportUndoes
  <2>5. CASE ImportWritten(c) \/ ImportStored(c) \/ ImportFailed(c)
    BY <1>1, <1>5, <2>5 DEF ImportWritten, ImportStored, ImportFailed, Goto, Process
  <2>6. CASE ImportUndone(c)
    BY <1>1, <2>6 DEF ImportUndone, Process
  <2>7. CASE ImportSaves(c) \/ ImportRestores(c)
    BY <1>1, <1>5, <2>7 DEF ImportSaves, ImportRestores, Save, Goto, Process
  <2>8. QED
    BY <1>9, <2>1, <2>2, <2>3, <2>4, <2>5, <2>6, <2>7 DEF ImportSteps
<1>10. CASE LogoutSteps(c)
  <2>1. CASE LogoutLoads(c)
    <3>1. PICK a \in p.names :
           IF a \in config.accounts
           THEN Loads(c, [p EXCEPT !.phase = "account", !.acct = a,
                                  !.found = ProfilesOf(config, a), !.seen = tokenFile], config)
           ELSE Fails(c) /\ Local(c)
      BY <2>1 DEF LogoutLoads
    <3> DEFINE r == [p EXCEPT !.phase = "account", !.acct = a,
                          !.found = ProfilesOf(config, a), !.seen = tokenFile]
    <3>2. r \in Process /\ r.cmd = p.cmd
      BY <1>1, FileIsRead DEF Process, Phases, ProfilesOf
    <3>3. QED
      BY <1>3, <1>4, <3>1, <3>2
  <2>2. CASE LogoutAccount(c)
    BY <2>2 DEF LogoutAccount
  <2>3. CASE LogoutServer(c)
    BY <1>1, <2>3 DEF LogoutServer, Process
  <2>4. CASE LogoutAccountDeleted(c)
    BY <1>1, <2>4 DEF LogoutAccountDeleted, Process
  <2>5. CASE LogoutServerDeleted(c)
    BY <1>1, <2>5 DEF LogoutServerDeleted, Process
  <2>6. CASE LogoutDeleted(c)
    BY <1>1, <2>6 DEF LogoutDeleted, Process
  <2>7. QED
    BY <1>10, <2>1, <2>2, <2>3, <2>4, <2>5, <2>6 DEF LogoutSteps
<1>11. CASE SaveConfig(c)
  BY <1>3, <1>11 DEF SaveConfig, Save
<1>12. CASE Ends(c) \/ Interrupted(c)
  BY <1>1, <1>2, <1>12 DEF Ends, Interrupted, Leave, Become
<1>13. QED
  BY <1>6, <1>7, <1>8, <1>9, <1>10, <1>11, <1>12 DEF Acts

\* Logout p, once it has deleted k, may leave a copy in a keyring that does not
\* answer, if there was one in the file.
Gone(p, k) ==
  \/ ~Stored(k)
  \/ /\ ~Works("keyring") /\ keyring[k] # NoToken
     /\ p.seen[k] # NoToken /\ tokenFile[k] = NoToken

\* Nothing has been added to the file since p loaded the configuration.
FileShrinks(p) == \A k \in Keys : tokenFile[k] \in {NoToken, p.seen[k]}

Named(p) ==
  /\ p.phase \in {"account", "servers", "save"} =>
       /\ FileShrinks(p)
       /\ p.acct \in p.conf.accounts \/ Gone(p, AccountKey(p.acct))
       /\ \A id \in ProfilesOf(p.old, p.acct) :
            \/ p.conf.profiles[id] = p.old.profiles[id]
            \/ p.old.profiles[id].own => Gone(p, ServerKey(p.acct, id))
  /\ p.phase = "ended" /\ Works("config") =>
       \A k \in KeysOf(p.old, p.acct) : Gone(p, k) \/ k \in KeysOf(config, p.acct)

NamedInv ==
  /\ KeepInv
  /\ QuietCalls
  /\ \A c \in quiet :
       /\ proc[c].phase # "idle"
       /\ proc[c].cmd = "logout" => proc[c].phase # "load" /\ Named(proc[c])

LEMMA DeletionsRemove ==
  ASSUME CommandInv, NEW c \in Commands, NEW ok, CallEnds(c, ok), SeesStore(call[c]),
         call[c].op = "delete", call[c].value = NoToken, NEW p, FileShrinks(p)
  PROVE  /\ \A k \in Keys : Gone(p, k) \/ (ok /\ k = call[c].key) => Gone(p, k)'
         /\ FileShrinks(p)'
<1> DEFINE x == call[c]
<1>1. x \in CallRecord /\ keyring \in [Keys -> Entry] /\ tokenFile \in [Keys -> Entry]
  BY CallsEndTyped, ProcTyped DEF EntriesTyped
<1>2. broken' = broken /\ DeleteEnds(c, ok)
  BY DEF CallEnds, SetEnds
<1>3. FileValue(x) = NoToken /\ (Saves(x) <=> Present(x)) /\ (Readable(x) => x.loaded = tokenFile)
  BY DEF FileValue, Saves, Present, Readable, SeesStore, LoadTokenFile
<1>4. tokenFile' = IF Present(x) /\ Works("write") THEN [tokenFile EXCEPT ![x.key] = NoToken] ELSE tokenFile
  BY <1>2, <1>3 DEF DeleteEnds, SaveTokenFile, Present
<1>5. keyring' = IF Works("keyring") THEN [keyring EXCEPT ![x.key] = NoToken] ELSE keyring
  BY <1>2 DEF DeleteEnds
<1>6. x.key \in Keys
  BY <1>1 DEF CallRecord
<1>7. Works("keyring")' = Works("keyring")
  BY <1>2 DEF Works
<1>8. ok => Readable(x) /\ (Present(x) => Works("write"))
  BY <1>2, <1>3 DEF DeleteEnds, FileDone
<1>9. Readable(x) /\ ~Present(x) => tokenFile[x.key] = NoToken
  BY <1>3 DEF Present
<1> HIDE DEF x
<1>10. ASSUME ok PROVE tokenFile'[x.key] = NoToken
  BY <1>1, <1>4, <1>6, <1>8, <1>9, <1>10
<1>11. ok => Works("keyring") \/ Present(x)
  BY <1>2 DEF DeleteEnds, x
<1>12. Present(x) => tokenFile[x.key] # NoToken
  BY <1>3 DEF Present
<1>13. ASSUME NEW k \in Keys, Gone(p, k) PROVE Gone(p, k)'
  BY <1>1, <1>4, <1>5, <1>6, <1>7, <1>13 DEF Gone, Stored
<1>14. ASSUME ok, NEW k \in Keys, k = x.key PROVE Gone(p, k)'
  <2>1. CASE Works("keyring")
    BY <1>1, <1>5, <1>6, <1>7, <1>10, <1>14, <2>1 DEF Gone, Stored
  <2>2. CASE ~Works("keyring")
    <3>1. p.seen[k] # NoToken
      BY <1>6, <1>11, <1>12, <1>14, <2>2 DEF FileShrinks
    <3>2. QED
      BY <1>5, <1>7, <1>10, <1>14, <2>2, <3>1 DEF Gone, Stored
  <2>3. QED
    BY <2>1, <2>2
<1>15. FileShrinks(p)'
  BY <1>1, <1>4, <1>6 DEF FileShrinks
<1>16. QED
  BY <1>13, <1>14, <1>15 DEF x

LEMMA DeletionsBegin ==
  ASSUME NEW c, NEW k, DeleteBegins(c, k)
  PROVE  UNCHANGED <<keyring, tokenFile, broken>>
BY DEF DeleteBegins, Enter

\* Nothing of what Named speaks of depends on more than these.
LEMMA NamedStays ==
  ASSUME NEW p, Named(p), UNCHANGED <<keyring, tokenFile, broken, config>>
  PROVE  Named(p)'
BY DEF Named, FileShrinks, Gone, Stored, Works, KeysOf, ProfilesOf, TokenKey

\* What the logout's own steps have to show.
LEMMA NamedBefore ==
  ASSUME NEW p, p.phase \in {"account", "servers", "save"}, FileShrinks(p)',
         p.acct \in p.conf.accounts \/ Gone(p, AccountKey(p.acct))',
         \A id \in ProfilesOf(p.old, p.acct) :
            \/ p.conf.profiles[id] = p.old.profiles[id]
            \/ p.old.profiles[id].own => Gone(p, ServerKey(p.acct, id))'
  PROVE  Named(p)'
BY DEF Named

StaysNamed(c) == \E q : proc'[c] = q /\ q.phase # "load" /\ Named(q)'

LEMMA SavedNames ==
  ASSUME NamedInv, NEW c \in Commands, c \in quiet, proc[c].cmd = "logout", SaveConfig(c)
  PROVE  StaysNamed(c)
<1> DEFINE p == proc[c]
<1>1. p \in Process /\ CommandInv /\ Shaped(p, call[c]) /\ p.phase = "save" /\ Named(p)
  BY ProcTyped DEF NamedInv, KeepInv, SaveConfig, At
<1>2. \E r : r = proc'[c]
  OBVIOUS
<1>3. PICK q : q = proc'[c]
  BY <1>2
<1>4. q = [p EXCEPT !.phase = "ended", !.conf = EmptyConfig]
  BY <1>1, <1>3, Becomes DEF SaveConfig, Save, End
<1>5. q.phase = "ended" /\ q.old = p.old /\ q.acct = p.acct /\ q.seen = p.seen
  BY <1>1, <1>4 DEF Process
<1>6. UNCHANGED <<keyring, tokenFile, broken>> /\ (Works("config") => config' = p.conf)
  BY DEF SaveConfig, Save, storeVars
<1>7. p.acct \in Account /\ p.conf \in Config /\ p.old \in Config
  BY <1>1 DEF Shaped, Process
<1>8. ASSUME Works("config"), NEW k \in KeysOf(p.old, p.acct), ~Gone(p, k)
      PROVE  k \in KeysOf(p.conf, p.acct)
  <2>1. CASE k = AccountKey(p.acct)
    BY <1>1, <1>8, <2>1 DEF Named, KeysOf
  <2>2. CASE k # AccountKey(p.acct)
    <3>1. PICK id \in ProfilesOf(p.old, p.acct) : k = TokenKey(p.old, id)
      BY <2>2 DEF KeysOf
    <3>2. p.old.profiles[id].acct = p.acct /\ p.old.profiles[id] # NoProfile /\ id \in Machines
      BY <3>1 DEF ProfilesOf
    <3>3. p.old.profiles[id].own /\ k = ServerKey(p.acct, id)
      BY <2>2, <3>1, <3>2 DEF TokenKey
    <3>4. p.conf.profiles[id] = p.old.profiles[id]
      BY <1>1, <1>8, <3>1, <3>3 DEF Named
    <3>5. id \in ProfilesOf(p.conf, p.acct) /\ TokenKey(p.conf, id) = k
      BY <3>1, <3>2, <3>4 DEF ProfilesOf, TokenKey
    <3>6. QED
      BY <3>5 DEF KeysOf
  <2>3. QED
    BY <2>1, <2>2
<1>9. ASSUME Works("config")', NEW k \in KeysOf(q.old, q.acct) PROVE Gone(q, k)' \/ k \in KeysOf(config, q.acct)'
  <2>1. k \in KeysOf(p.old, p.acct) /\ Works("config")
    BY <1>5, <1>6, <1>9 DEF Works
  <2>2. config' = p.conf
    BY <1>6, <2>1
  <2>3. KeysOf(config', q.acct) = KeysOf(p.conf, p.acct)
    BY <1>5, <2>2
  <2>4. KeysOf(config, q.acct)' = KeysOf(config', q.acct)
    BY DEF KeysOf, ProfilesOf, TokenKey
  <2>5. Gone(q, k)' <=> Gone(p, k)
    BY <1>5, <1>6 DEF Gone, Stored, Works
  <2>6. QED
    BY <1>8, <2>1, <2>3, <2>4, <2>5
<1>10. Named(q)'
  BY <1>5, <1>9 DEF Named
<1>11. QED
  BY <1>3, <1>5, <1>10 DEF StaysNamed

\* One step of a logout that has loaded the file.
LEMMA LogoutNames ==
  ASSUME NamedInv, NEW c \in Commands, c \in quiet', proc[c].cmd = "logout", LogoutSteps(c),
         NEW p, p = proc[c]
  PROVE  StaysNamed(c)
<1>1. p \in Process /\ CommandInv /\ Shaped(p, call[c]) /\ p.cmd = "logout" /\ config \in Config
      /\ Keeps(p)
  BY ProcTyped DEF NamedInv, KeepInv
<1>2. \E r, b : r = proc'[c] /\ b = p.acct
  OBVIOUS
<1>3. PICK q, a : q = proc'[c] /\ a = p.acct
  BY <1>2
<1>4. \A r : Become(c, r) => q = r
  BY <1>1, <1>3, Becomes
<1>5. c \in quiet => p.phase # "load" /\ Named(p) /\ (call[c] # NoCall => SeesStore(call[c]))
  BY <1>1 DEF NamedInv, QuietCalls
<1>6. Writes(c) \/ Local(c) => c \in quiet
  BY DEF Writes, Local
<1>7. CASE LogoutLoads(c)
  <2>1. p.phase = "load"
    BY <1>7 DEF LogoutLoads, At
  <2>2. PICK b \in p.names :
         IF b \in config.accounts
         THEN Loads(c, [p EXCEPT !.phase = "account", !.acct = b,
                                !.found = ProfilesOf(config, b), !.seen = tokenFile], config)
         ELSE Fails(c) /\ Local(c)
    BY <1>7 DEF LogoutLoads
  <2>3. b \in config.accounts
    BY <1>5, <1>6, <2>1, <2>2
  <2> DEFINE r == [p EXCEPT !.phase = "account", !.acct = b, !.found = ProfilesOf(config, b), !.seen = tokenFile]
  <2>4. q = [r EXCEPT !.conf = config, !.old = config]
    BY <1>4, <2>2, <2>3 DEF Loads
  <2>5. q.phase = "account" /\ q.acct = b /\ q.conf = config /\ q.old = config /\ q.seen = tokenFile
    BY <1>1, <2>4 DEF Process
  <2>6. FileShrinks(q)'
    BY <2>2, <2>3, <2>5 DEF Loads, storeVars, FileShrinks
  <2>7. Named(q)'
    BY <2>3, <2>5, <2>6, NamedBefore
  <2>8. QED
    BY <1>3, <2>5, <2>7 DEF StaysNamed
<1>8. ASSUME NEW k, DeleteBegins(c, k), Writes(c), UNCHANGED proc PROVE StaysNamed(c)
  <2>1. UNCHANGED <<keyring, tokenFile, broken, config>>
    BY <1>8, DeletionsBegin DEF Writes
  <2>2. q = p /\ q.phase # "load" /\ Named(q)
    BY <1>3, <1>5, <1>6, <1>8
  <2>3. Named(q)'
    BY <2>1, <2>2, NamedStays
  <2>4. QED
    BY <1>3, <2>2, <2>3 DEF StaysNamed
<1>9. CASE LogoutAccount(c)
  BY <1>8, <1>9 DEF LogoutAccount
<1>10. ASSUME q.phase \in {"servers", "save"}, q.old = p.old, q.acct = p.acct, q.seen = p.seen,
              FileShrinks(p)', q.acct \in q.conf.accounts \/ Gone(p, AccountKey(q.acct))',
              \A id \in ProfilesOf(q.old, q.acct) :
                 \/ q.conf.profiles[id] = q.old.profiles[id]
                 \/ q.old.profiles[id].own => Gone(p, ServerKey(q.acct, id))'
       PROVE  StaysNamed(c)
  <2>1. (\A k : Gone(p, k)' => Gone(q, k)') /\ FileShrinks(q)'
    BY <1>10 DEF Gone, Stored, Works, FileShrinks
  <2>2. Named(q)'
    BY <1>10, <2>1, NamedBefore
  <2>3. QED
    BY <1>3, <1>10, <2>2 DEF StaysNamed
<1>11. ASSUME p.phase \in {"account", "servers"}, call[c] # NoCall, c \in quiet,
              NEW ok, CallEnds(c, ok)
       PROVE  /\ \A k \in Keys : Gone(p, k) \/ (ok /\ k = call[c].key) => Gone(p, k)'
              /\ FileShrinks(p)'
  <2>1. /\ SeesStore(call[c]) /\ call[c].op = "delete" /\ call[c].value = NoToken
        /\ FileShrinks(p)
    BY <1>1, <1>5, <1>11 DEF Shaped, CallFits, Deletes, Named
  <2>2. QED
    BY <1>1, <1>11, <2>1, DeletionsRemove
<1>12. CASE LogoutAccountDeleted(c)
  <2>1. p.phase = "account" /\ call[c] # NoCall /\ c \in quiet /\ p.conf \in Config /\ p.acct \in Account
    BY <1>1, <1>6, <1>12 DEF LogoutAccountDeleted, Calling, Process, Shaped
  <2>2. PICK ok \in BOOLEAN :
          /\ CallEnds(c, ok)
          /\ Become(c, [p EXCEPT !.phase = "servers", !.failed = ~ok,
                                 !.conf.accounts = IF ok THEN @ \ {p.acct} ELSE @])
    BY <1>12 DEF LogoutAccountDeleted
  <2> DEFINE conf == [p.conf EXCEPT !.accounts = IF ok THEN @ \ {p.acct} ELSE @]
  <2>3. q = [p EXCEPT !.phase = "servers", !.failed = ~ok,
                      !.conf.accounts = IF ok THEN @ \ {p.acct} ELSE @]
    BY <1>4, <2>2
  <2>4. q.phase = "servers" /\ q.old = p.old /\ q.acct = p.acct /\ q.seen = p.seen /\ q.conf = conf
    BY <1>1, <2>3 DEF Process
  <2>5. conf.profiles = p.conf.profiles /\ (~ok => conf.accounts = p.conf.accounts)
    BY <2>1 DEF Config
  <2> HIDE DEF conf
  <2>6. /\ \A k \in Keys : Gone(p, k) \/ (ok /\ k = call[c].key) => Gone(p, k)'
        /\ FileShrinks(p)'
    BY <1>11, <2>1, <2>2
  <2>7. call[c].key = AccountKey(p.acct)
    BY <1>1, <2>1 DEF Shaped, CallFits, Deletes
  <2>8. AccountKey(p.acct) \in Keys /\ \A id \in Machines : ServerKey(p.acct, id) \in Keys
    BY <2>1, KeysAreKeys
  <2>9. Named(p) /\ ProfilesOf(p.old, p.acct) \subseteq Machines
    BY <1>5, <2>1 DEF ProfilesOf
  <2>10. p.acct \in conf.accounts \/ Gone(p, AccountKey(a))'
    BY <1>3, <2>1, <2>5, <2>6, <2>7, <2>8, <2>9 DEF Named
  <2>11. ASSUME NEW id \in ProfilesOf(p.old, p.acct)
         PROVE  \/ conf.profiles[id] = p.old.profiles[id]
                \/ p.old.profiles[id].own => Gone(p, ServerKey(a, id))'
    BY <1>3, <2>1, <2>5, <2>6, <2>8, <2>9 DEF Named
  <2>12. QED
    BY <1>3, <1>10, <2>4, <2>6, <2>10, <2>11
<1>13. ASSUME p.phase = "servers", c \in quiet, NEW id \in p.found, q.phase = "servers",
              q.old = p.old, q.acct = p.acct, q.seen = p.seen, q.conf \in {p.conf, Without(p.conf, id)},
              FileShrinks(p)',
              \A k \in Keys : Gone(p, k) => Gone(p, k)',
              q.conf = p.conf \/ (p.old.profiles[id].own => Gone(p, ServerKey(a, id))')
       PROVE  StaysNamed(c)
  <2>1. p.conf \in Config /\ p.acct \in Account /\ id \in Machines /\ Named(p)
        /\ p.found \subseteq ProfilesOf(p.old, p.acct) /\ ProfilesOf(p.old, p.acct) \subseteq Machines
    BY <1>1, <1>5, <1>13 DEF Shaped, Keeps, ProfilesOf, Process
  <2>2. q.conf.accounts = p.conf.accounts
        /\ \A i \in Machines : i # id => q.conf.profiles[i] = p.conf.profiles[i]
    BY <1>13, <2>1 DEF Without, Config
  <2>3. AccountKey(p.acct) \in Keys /\ \A i \in Machines : ServerKey(p.acct, i) \in Keys
    BY <2>1, KeysAreKeys
  <2>4. p.acct \in q.conf.accounts \/ Gone(p, AccountKey(a))'
    BY <1>3, <1>13, <2>1, <2>2, <2>3 DEF Named
  <2>5. ASSUME NEW i \in ProfilesOf(p.old, p.acct)
        PROVE  \/ q.conf.profiles[i] = p.old.profiles[i]
               \/ p.old.profiles[i].own => Gone(p, ServerKey(a, i))'
    <3>1. i \in Machines
      BY <2>1, <2>5
    <3>2. \/ p.conf.profiles[i] = p.old.profiles[i]
          \/ p.old.profiles[i].own => Gone(p, ServerKey(p.acct, i))
      BY <1>13, <2>1, <2>5 DEF Named
    <3>3. QED
      BY <1>3, <1>13, <2>2, <2>3, <3>1, <3>2
  <2>6. QED
    BY <1>3, <1>10, <1>13, <2>4, <2>5
<1>14. CASE LogoutServer(c)
  <2>1. p.phase = "servers" /\ call[c] = NoCall
    BY <1>14 DEF LogoutServer, At
  <2>2. PICK id \in p.found :
       \/ p.old.profiles[id].own /\ DeleteBegins(c, ServerKey(p.acct, id)) /\ Writes(c) /\ UNCHANGED proc
       \/ /\ ~p.old.profiles[id].own /\ Local(c)
          /\ Become(c, [p EXCEPT !.found = @ \ {id}, !.conf = Without(@, id)])
    BY <1>14 DEF LogoutServer
  <2>3. CASE /\ ~p.old.profiles[id].own /\ Local(c)
             /\ Become(c, [p EXCEPT !.found = @ \ {id}, !.conf = Without(@, id)])
    <3>1. q = [p EXCEPT !.found = @ \ {id}, !.conf = Without(@, id)] /\ c \in quiet
      BY <1>4, <1>6, <2>3
    <3>2. /\ q.phase = "servers" /\ q.old = p.old /\ q.acct = p.acct /\ q.seen = p.seen
          /\ q.conf = Without(p.conf, id)
      BY <1>1, <2>1, <3>1 DEF Process
    <3>3. FileShrinks(p)' /\ \A k \in Keys : Gone(p, k) => Gone(p, k)'
      BY <1>5, <2>1, <2>3, <3>1 DEF Local, storeVars, Gone, Stored, Works, FileShrinks, Named
    <3>4. QED
      BY <1>13, <2>1, <2>3, <3>1, <3>2, <3>3
  <2>4. QED
    BY <1>8, <2>2, <2>3
<1>15. CASE LogoutServerDeleted(c)
  <2>1. p.phase = "servers" /\ call[c] # NoCall /\ c \in quiet /\ p.acct \in Account /\ p.found \subseteq Machines
    BY <1>1, <1>6, <1>15 DEF LogoutServerDeleted, Calling, Shaped, Process
  <2>2. PICK id \in p.found : Deletes(call[c], ServerKey(p.acct, id))
    BY <1>1, <2>1 DEF Shaped, CallFits
  <2>3. call[c].key = ServerKey(p.acct, id) /\ call[c].key.id = id
    BY <2>2 DEF Deletes, ServerKey
  <2>4. PICK ok \in BOOLEAN :
          /\ CallEnds(c, ok)
          /\ Become(c, [p EXCEPT !.found = @ \ {id}, !.failed = @ \/ ~ok,
                                 !.conf = IF ok THEN Without(@, id) ELSE @])
    BY <1>15, <2>3 DEF LogoutServerDeleted
  <2>5. q = [p EXCEPT !.found = @ \ {id}, !.failed = @ \/ ~ok,
                      !.conf = IF ok THEN Without(@, id) ELSE @]
    BY <1>4, <2>4
  <2>6. q.phase = "servers" /\ q.old = p.old /\ q.acct = p.acct /\ q.seen = p.seen
        /\ q.conf = IF ok THEN Without(p.conf, id) ELSE p.conf
    BY <1>1, <2>1, <2>5 DEF Process
  <2>7. /\ \A k \in Keys : Gone(p, k) \/ (ok /\ k = call[c].key) => Gone(p, k)'
        /\ FileShrinks(p)'
    BY <1>11, <2>1, <2>4
  <2>8. ServerKey(p.acct, id) \in Keys
    BY <2>1, <2>2, KeysAreKeys
  <2>9. ok => Gone(p, ServerKey(a, id))'
    BY <1>3, <2>3, <2>7, <2>8
  <2>10. FileShrinks(p)' /\ \A k \in Keys : Gone(p, k) => Gone(p, k)'
    BY <2>7
  <2>11. QED
    BY <1>13, <2>1, <2>2, <2>6, <2>9, <2>10
<1>16. CASE LogoutDeleted(c)
  <2> DEFINE conf == IF p.failed \/ p.conf.curAccount # p.acct THEN p.conf
                     ELSE [p.conf EXCEPT !.curAccount = NoAccount, !.curServer = NoMachine]
  <2>1. p.phase = "servers" /\ c \in quiet /\ p.conf \in Config /\ Named(p) /\ Local(c)
    BY <1>1, <1>5, <1>6, <1>16 DEF LogoutDeleted, At, Process
  <2>2. q = [p EXCEPT !.phase = "save", !.conf = conf]
    BY <1>4, <1>16 DEF LogoutDeleted
  <2>3. q.phase = "save" /\ q.old = p.old /\ q.acct = p.acct /\ q.seen = p.seen /\ q.conf = conf
    BY <1>1, <2>2 DEF Process
  <2>4. conf.accounts = p.conf.accounts /\ conf.profiles = p.conf.profiles
    BY <2>1 DEF Config
  <2> HIDE DEF conf
  <2>5. FileShrinks(p)' /\ \A k : Gone(p, k) <=> Gone(p, k)'
    BY <2>1 DEF Local, storeVars, Gone, Stored, Works, FileShrinks, Named
  <2>6. p.acct \in conf.accounts \/ Gone(p, AccountKey(a))'
    BY <1>3, <2>1, <2>4, <2>5 DEF Named
  <2>7. ASSUME NEW id \in ProfilesOf(p.old, p.acct)
        PROVE  \/ conf.profiles[id] = p.old.profiles[id]
               \/ p.old.profiles[id].own => Gone(p, ServerKey(a, id))'
    BY <1>3, <2>1, <2>4, <2>5 DEF Named
  <2>8. QED
    BY <1>3, <1>10, <2>3, <2>5, <2>6, <2>7
<1>17. QED
  BY <1>7, <1>9, <1>12, <1>14, <1>15, <1>16 DEF LogoutSteps

LEMMA NeverIdle ==
  ASSUME CommandInv, NEW c \in Commands, Acts(c), ~Begins(c), ~Ends(c), ~Interrupted(c)
  PROVE  proc'[c].phase # "idle"
<1> DEFINE p == proc[c]
           q == proc'[c]
<1>1. p \in Process /\ \A r : Become(c, r) => q = r
  BY Becomes
<1>2. Idle \in Process
  BY IdleTyped
<1>3. End(c) \/ Fails(c) => q.phase # "idle"
  <2>1. End(c) => q.phase = "ended"
    BY <1>1, <1>2 DEF End, Process
  <2>2. QED
    BY <1>1, <2>1 DEF Fails, Goto, Process
<1>4. ASSUME NEW r \in Process, NEW conf, Loads(c, r, conf) PROVE q.phase = r.phase
  BY <1>1, <1>4 DEF Loads, Process
<1>5. ASSUME NEW after \in {"failed", "restore"}, Undo(c, after) PROVE q.phase # "idle"
  BY <1>1, <1>5 DEF Undo, Process
<1>6. ASSUME NEW phase \in Phases, phase # "idle", Goto(c, phase) PROVE q.phase # "idle"
  BY <1>1, <1>6 DEF Goto, Process
<1>7. CASE EditLoads(c)
  <2>1. [p EXCEPT !.phase = "save"] \in Process /\ [p EXCEPT !.phase = "save"].phase = "save"
    BY <1>1 DEF Process, Phases
  <2>2. QED
    BY <1>3, <1>4, <1>7, <2>1 DEF EditLoads
<1>8. CASE DiscoveryFails(c)
  BY <1>3, <1>8 DEF DiscoveryFails
<1>9. CASE LoginSteps(c)
  <2>1. CASE LoginLoads(c)
    <3> DEFINE r == [p EXCEPT !.phase = "account"]
    <3>1. p.acct \in Account
      BY <2>1, ProcTyped DEF LoginLoads, At, Shaped
    <3>2. r \in Process /\ r.phase = "account"
      BY <1>1 DEF Process, Phases
    <3>3. PICK d \in Discoveries[p.acct] : Loads(c, Finds(r, d), config)
      BY <2>1 DEF LoginLoads
    <3> HIDE DEF r
    <3>4. Finds(r, d) \in Process /\ Finds(r, d).phase = r.phase
      BY <3>1, <3>2, FindsTyped
    <3>5. QED
      BY <1>4, <3>2, <3>3, <3>4
  <2>2. ASSUME NEW id, AddServer(c, id), p.phase = "servers" PROVE q.phase # "idle"
    BY <1>1, <2>2 DEF AddServer, Process
  <2>3. CASE LoginAccount(c) \/ LoginServer(c)
    BY <2>2, <2>3 DEF LoginAccount, LoginServer, At
  <2>4. CASE LoginAccountStored(c)
    BY <1>1, <1>3, <2>4 DEF LoginAccountStored, Process
  <2>5. CASE LoginServerStored(c)
    BY <1>3, <2>2, <2>5 DEF LoginServerStored, Calling
  <2>6. CASE LoginStored(c)
    BY <1>1, <2>6 DEF LoginStored, Process
  <2>7. QED
    BY <1>9, <2>1, <2>3, <2>4, <2>5, <2>6 DEF LoginSteps
<1>10. CASE ImportSteps(c)
  <2>1. CASE ImportNext(c)
    BY <1>1, <1>2, <1>3, <2>1 DEF ImportNext, Process
  <2>2. CASE ImportLoads(c)
    <3> DEFINE a == p.acct
               r == [p EXCEPT !.phase = "journal", !.seen = [k \in Keys |-> Get(k)]]
    <3>1. a \in Account
      BY <2>2, ProcTyped DEF ImportLoads, At, Shaped
    <3>2. [k \in Keys |-> Get(k)] \in Read
      BY GetTyped DEF CommandInv, Read
    <3>3. r \in Process /\ r.phase = "journal"
      BY <1>1, <3>2 DEF Process, Phases
    <3>4. PICK d \in Discoveries[a] : \E conf : Loads(c, Finds(r, d), conf)
      BY <2>2 DEF ImportLoads
    <3>5. PICK conf : Loads(c, Finds(r, d), conf)
      BY <3>4
    <3> HIDE DEF r, a
    <3>6. Finds(r, d) \in Process /\ Finds(r, d).phase = r.phase
      BY <3>1, <3>3, FindsTyped
    <3>7. QED
      BY <1>4, <3>3, <3>5, <3>6
  <2>3. CASE ImportJournals(c)
    BY <1>1, <1>5, <2>3 DEF ImportJournals, Process
  <2>4. CASE ImportWrites(c) \/ ImportUndoes(c)
    BY <2>4 DEF ImportWrites, ImportUndoes, At
  <2>5. CASE ImportWritten(c) \/ ImportStored(c) \/ ImportFailed(c)
    BY <1>5, <1>6, <2>5 DEF ImportWritten, ImportStored, ImportFailed, Phases
  <2>6. CASE ImportUndone(c)
    <3>1. p.after \in {"failed", "restore"}
      BY <1>1 DEF Process
    <3>2. QED
      BY <1>1, <2>6, <3>1 DEF ImportUndone, Process
  <2>7. CASE ImportSaves(c) \/ ImportRestores(c)
    BY <1>5, <1>6, <2>7 DEF ImportSaves, ImportRestores, Save, Phases
  <2>8. QED
    BY <1>10, <2>1, <2>2, <2>3, <2>4, <2>5, <2>6, <2>7 DEF ImportSteps
<1>11. CASE LogoutSteps(c)
  <2>1. CASE LogoutLoads(c)
    <3>1. PICK a \in p.names :
           IF a \in config.accounts
           THEN Loads(c, [p EXCEPT !.phase = "account", !.acct = a,
                                  !.found = ProfilesOf(config, a), !.seen = tokenFile], config)
           ELSE Fails(c) /\ Local(c)
      BY <2>1 DEF LogoutLoads
    <3> DEFINE r == [p EXCEPT !.phase = "account", !.acct = a,
                          !.found = ProfilesOf(config, a), !.seen = tokenFile]
    <3>2. a \in config.accounts => r \in Process /\ r.phase = "account"
      BY <1>1, FileIsRead DEF Process, Phases, ProfilesOf, CommandInv, RestTyped, Config
    <3>3. QED
      BY <1>3, <1>4, <3>1, <3>2
  <2>2. CASE LogoutAccount(c)
    BY <2>2 DEF LogoutAccount, At
  <2>3. CASE LogoutServer(c)
    BY <1>1, <2>3 DEF LogoutServer, At, Process
  <2>4. CASE LogoutAccountDeleted(c)
    BY <1>1, <2>4 DEF LogoutAccountDeleted, Process
  <2>5. CASE LogoutServerDeleted(c)
    BY <1>1, <2>5 DEF LogoutServerDeleted, Calling, Process
  <2>6. CASE LogoutDeleted(c)
    BY <1>1, <2>6 DEF LogoutDeleted, Process
  <2>7. QED
    BY <1>11, <2>1, <2>2, <2>3, <2>4, <2>5, <2>6 DEF LogoutSteps
<1>12. CASE SaveConfig(c)
  BY <1>3, <1>12 DEF SaveConfig, Save
<1>13. QED
  BY <1>7, <1>8, <1>9, <1>10, <1>11, <1>12 DEF Acts

\* A quiet logout that acts.
LEMMA OwnStepNames ==
  ASSUME NamedInv, NEW c \in Commands, Acts(c), c \in quiet', proc'[c].cmd = "logout"
  PROVE  StaysNamed(c)
<1>1. CommandInv
  BY DEF NamedInv, KeepInv
<1>2. ~Begins(c)
  <2>1. Begins(c) => proc[c].phase = "idle" /\ quiet' = quiet
    BY DEF Begins, LoginBegins, LogoutBegins, ImportBegins, EditBegins, Begin
  <2>2. QED
    BY <2>1 DEF NamedInv
<1>3. proc[c].cmd = "logout"
  BY <1>1, <1>2, SameCommand
<1>4. ~Ends(c) /\ ~Interrupted(c)
  BY DEF Ends, Interrupted, Leave
<1>5. ~EditLoads(c) /\ ~DiscoveryFails(c)
  BY <1>3 DEF EditLoads, DiscoveryFails, At
<1>6. ~LoginSteps(c)
  BY <1>3 DEF LoginSteps, LoginLoads, LoginAccount, LoginAccountStored, LoginServer,
              LoginServerStored, LoginStored, At, Calling
<1>7. ~ImportSteps(c)
  BY <1>3 DEF ImportSteps, ImportNext, ImportLoads, ImportJournals, ImportWrites, ImportWritten,
              ImportStored, ImportUndoes, ImportUndone, ImportFailed, ImportSaves, ImportRestores,
              At, Calling
<1>8. CASE LogoutSteps(c)
  <2>1. \E p : p = proc[c]
    OBVIOUS
  <2>2. QED
    BY <1>3, <1>8, <2>1, LogoutNames
<1>9. CASE SaveConfig(c)
  <2>1. c \in quiet
    BY <1>9 DEF SaveConfig, Save
  <2>2. QED
    BY <1>3, <1>9, <2>1, SavedNames
<1>10. QED
  BY <1>2, <1>4, <1>5, <1>6, <1>7, <1>8, <1>9 DEF Acts

LEMMA InitNamedInv == AccountsInit => NamedInv
<1> SUFFICES ASSUME AccountsInit PROVE NamedInv
  OBVIOUS
<1>1. KeepInv /\ quiet = {}
  BY InitKeepInv DEF AccountsInit
<1>2. QED
  BY <1>1 DEF NamedInv, QuietCalls

LEMMA NextNamedInv == NamedInv /\ [AccountsNext]_vars => NamedInv'
<1> SUFFICES ASSUME NamedInv, [AccountsNext]_vars PROVE NamedInv'
  OBVIOUS
<1>1. KeepInv' /\ QuietCalls' /\ CommandInv
  BY NextKeepInv, QuietCallsStep DEF NamedInv, KeepInv
<1>2. CASE UNCHANGED vars
  BY <1>1, <1>2 DEF vars, storeVars, NamedInv, Named, FileShrinks, Gone, Stored, Works, KeysOf, ProfilesOf, TokenKey
<1>3. CASE PartFlips
  BY <1>1, <1>3 DEF PartFlips, NamedInv
<1>4. ASSUME NEW c \in Commands, Acts(c) PROVE NamedInv'
  <2> DEFINE Good(q) == q.phase # "idle" /\ (q.cmd = "logout" => q.phase # "load" /\ Named(q)')
  <2>1. ASSUME NEW d \in quiet' PROVE \E q : proc'[d] = q /\ Good(q)
    <3>1. CASE d = c
      <4>1. ~Begins(c) /\ ~Ends(c) /\ ~Interrupted(c)
        <5>1. Begins(c) => proc[c].phase = "idle" /\ quiet' = quiet
          BY DEF Begins, LoginBegins, LogoutBegins, ImportBegins, EditBegins, Begin
        <5>2. QED
          BY <2>1, <3>1, <5>1 DEF NamedInv, Ends, Interrupted, Leave
      <4>2. proc'[c].phase # "idle"
        BY <1>1, <1>4, <4>1, NeverIdle
      <4>3. CASE proc'[c].cmd = "logout"
        BY <1>4, <2>1, <3>1, <4>2, <4>3, OwnStepNames DEF StaysNamed
      <4>4. CASE proc'[c].cmd # "logout"
        BY <3>1, <4>2, <4>4
      <4>5. QED
        BY <4>3, <4>4
    <3>2. CASE d # c
      <4>1. StoreIs /\ d \in quiet
        BY <1>1, <1>4, <2>1, <3>2, QuietFrame
      <4>2. d \in Commands
        BY <1>1, <4>1 DEF CommandInv, RestTyped
      <4>3. proc'[d] = proc[d]
        BY <1>1, <1>4, <3>2, <4>2, OthersStay
      <4>4. PICK q : q = proc[d]
        OBVIOUS
      <4>5. q.phase # "idle" /\ (q.cmd = "logout" => q.phase # "load" /\ Named(q))
        BY <4>1, <4>4 DEF NamedInv
      <4>6. Named(q) => Named(q)'
        BY <4>1, NamedStays DEF StoreIs
      <4>7. QED
        BY <4>3, <4>4, <4>5, <4>6
    <3>3. QED
      BY <3>1, <3>2
  <2>2. (\A d \in quiet : /\ proc[d].phase # "idle"
                          /\ proc[d].cmd = "logout" => proc[d].phase # "load" /\ Named(proc[d]))'
    BY <2>1 DEF Named, FileShrinks, Gone, Stored, Works, KeysOf, ProfilesOf, TokenKey
  <2>3. QED
    BY <1>1, <2>2 DEF NamedInv
<1>5. QED
  BY <1>2, <1>3, <1>4, StepsOfCommands

\* auth logout: whatever fails on the way, a credential the logout loaded and
\* that is still stored is one the saved configuration names, but for a copy in
\* a keyring that fails where there was a copy in the file (store.go:52).
THEOREM LeftoversAreNamed == Spec => []ConfigNamesWhatIsLeft
<1>1. NamedInv => ConfigNamesWhatIsLeft
  BY DEF NamedInv, Named, ConfigNamesWhatIsLeft, LoggedOut, Overlooked, Gone
<1>2. QED
  BY <1>1, InitNamedInv, NextNamedInv, PTL DEF Spec

(***************************************************************************)
(* What an import has written can be put back, and what it has not written *)
(* reads as it did: k, prior to the import P, can be undone when it reads  *)
(* P wherever the undoing cannot write it, and nothing but the file and    *)
(* the keyring stands in for it where P is none.                           *)
(***************************************************************************)
Undoable(k, P) ==
  /\ ~Works("keyring") /\ (~Works("write") \/ ~Works("read") \/ EnvToken[k] # NoToken) => Get(k) = P
  /\ P = NoToken => /\ EnvToken[k] = NoToken /\ LegacyEnv[k] = NoToken /\ Works("read")
                    /\ Works("keyring") => tokenFile[k] = NoToken

Restoring(p) ==
  /\ p.cmd = "import"
  /\ \/ p.phase \in {"journal", "write", "undo", "save", "restore"}
     \/ p.phase = "failed" /\ p.seen # <<>>

Restorable(p) ==
  /\ \A i, j \in DOMAIN p.journal : p.journal[i].key = p.journal[j].key => i = j
  /\ \A i \in DOMAIN p.journal : /\ p.journal[i].prior = p.seen[p.journal[i].key]
                                 /\ Undoable(p.journal[i].key, p.journal[i].prior)
  /\ \A k \in Keys \ Journaled(p) : Get(k) = p.seen[k]
  /\ p.phase \in {"restore", "failed"} => p.journal = <<>>

RestInv ==
  /\ NamedInv
  /\ \A c \in quiet : Restoring(proc[c]) => Restorable(proc[c])

\* A step of a call on k by a quiet command.
StepsOn(c, k) ==
  \/ \E t : SetBegins(c, k, t)
  \/ DeleteBegins(c, k)
  \/ /\ call[c] # NoCall /\ call[c].key = k /\ SeesStore(call[c])
     /\ \E ok \in BOOLEAN : CallEnds(c, ok)

LEMMA ReadableFile == \A f \in [Keys -> Entry] : f # Unreadable
BY AccountsAssumption

LEMMA CallEndStores ==
  ASSUME CommandInv, NEW c \in Commands, call[c] # NoCall, SeesStore(call[c]),
         NEW ok, CallEnds(c, ok)
  PROVE  LET x == call[c]
         IN /\ broken' = broken
            /\ x.key \in Keys
            /\ keyring' = IF x.op = "delete" /\ Works("keyring") THEN [keyring EXCEPT ![x.key] = NoToken]
                          ELSE keyring
            /\ tokenFile' = IF Works("read") /\ Works("write")
                            THEN [tokenFile EXCEPT ![x.key] = IF Works("keyring") THEN NoToken ELSE x.value]
                            ELSE tokenFile
<1> DEFINE x == call[c]
           v == IF Works("keyring") THEN NoToken ELSE x.value
<1>1. x \in CallRecord /\ tokenFile \in [Keys -> Entry]
  BY CallsEndTyped, ProcTyped DEF EntriesTyped
<1>2. broken' = broken /\ (SetEnds(c, ok) \/ DeleteEnds(c, ok))
  BY DEF CallEnds
<1>3. x.key \in Keys /\ x.op \in {"set", "delete"}
  BY <1>1 DEF CallRecord
<1>4. keyring' = IF x.op = "delete" /\ Works("keyring") THEN [keyring EXCEPT ![x.key] = NoToken]
                 ELSE keyring
  BY <1>2 DEF SetEnds, DeleteEnds
<1>5. SaveTokenFile(x)
  BY <1>2 DEF SetEnds, DeleteEnds
<1>6. FileValue(x) = v
  BY DEF FileValue, SeesStore
<1>7. (Readable(x) <=> Works("read")) /\ (Works("read") => x.loaded = tokenFile)
  BY <1>1, ReadableFile DEF Readable, SeesStore, LoadTokenFile
<1>8. Saves(x) <=> Works("read") /\ (tokenFile[x.key] # NoToken \/ v # NoToken)
  BY <1>6, <1>7 DEF Saves, Present
<1>9. tokenFile' = IF Saves(x) /\ Works("write") THEN [x.loaded EXCEPT ![x.key] = v] ELSE tokenFile
  BY <1>5, <1>6 DEF SaveTokenFile
<1> HIDE DEF x, v
<1>10. tokenFile' = IF Works("read") /\ Works("write") THEN [tokenFile EXCEPT ![x.key] = v] ELSE tokenFile
  <2>1. CASE Saves(x)
    BY <1>7, <1>8, <1>9, <2>1
  <2>2. CASE ~Saves(x) /\ Works("read")
    <3>1. tokenFile[x.key] = NoToken /\ v = NoToken
      BY <1>8, <2>2
    <3>2. [tokenFile EXCEPT ![x.key] = v] = tokenFile
      BY <1>1, <1>3, <3>1
    <3>3. QED
      BY <1>9, <2>2, <3>2
  <2>3. CASE ~Works("read")
    BY <1>8, <1>9, <2>3
  <2>4. QED
    BY <2>1, <2>2, <2>3
<1>11. QED
  BY <1>2, <1>3, <1>4, <1>10 DEF x, v

LEMMA OtherKeysStay ==
  ASSUME CommandInv, NEW c \in Commands, NEW k, StepsOn(c, k), NEW j \in Keys, j # k
  PROVE  broken' = broken /\ keyring'[j] = keyring[j] /\ tokenFile'[j] = tokenFile[j]
<1>1. keyring \in [Keys -> Entry] /\ tokenFile \in [Keys -> Entry]
  BY DEF CommandInv, StoreTyped
<1>2. CASE (\E t : SetBegins(c, k, t)) \/ DeleteBegins(c, k)
  BY <1>1, <1>2 DEF SetBegins, DeleteBegins, Enter
<1>3. CASE /\ call[c] # NoCall /\ call[c].key = k /\ SeesStore(call[c])
           /\ \E ok \in BOOLEAN : CallEnds(c, ok)
  BY <1>1, <1>3, CallEndStores
<1>4. QED
  BY <1>2, <1>3 DEF StepsOn

LEMMA ReadsTheSame ==
  ASSUME NEW j, broken' = broken, keyring'[j] = keyring[j], tokenFile'[j] = tokenFile[j]
  PROVE  Get(j)' = Get(j) /\ \A P : Undoable(j, P) => Undoable(j, P)'
BY DEF Get, FileFallback, Works, Undoable

LEMMA UndoableStays ==
  ASSUME CommandInv, NEW c \in Commands, NEW k \in Keys, StepsOn(c, k), NEW P, Undoable(k, P)
  PROVE  Undoable(k, P)'
<1>1. keyring \in [Keys -> Entry] /\ tokenFile \in [Keys -> Entry]
  BY DEF CommandInv, StoreTyped
<1>2. CASE (\E t : SetBegins(c, k, t)) \/ DeleteBegins(c, k)
  <2>1. tokenFile' = tokenFile /\ broken' = broken
    BY <1>2 DEF SetBegins, DeleteBegins, Enter
  <2>2. QED
    BY <2>1 DEF Undoable, Get, FileFallback, Works
<1>3. CASE /\ call[c] # NoCall /\ call[c].key = k /\ SeesStore(call[c])
           /\ \E ok \in BOOLEAN : CallEnds(c, ok)
  <2> DEFINE v == IF Works("keyring") THEN NoToken ELSE call[c].value
  <2>1. broken' = broken
        /\ tokenFile' = IF Works("read") /\ Works("write") THEN [tokenFile EXCEPT ![k] = v] ELSE tokenFile
    BY <1>3, CallEndStores
  <2>2. tokenFile'[k] = IF Works("read") /\ Works("write") THEN v ELSE tokenFile[k]
    BY <1>1, <2>1
  <2>3. Works("keyring") => v = NoToken
    OBVIOUS
  <2> HIDE DEF v
  <2>4. QED
    BY <2>1, <2>2, <2>3 DEF Undoable, Get, FileFallback, Works
<1>4. QED
  BY <1>2, <1>3 DEF StepsOn

LEMMA UndoneReads ==
  ASSUME CommandInv, NEW c \in Commands, NEW k \in Keys, NEW P, Undoable(k, P),
         call[c] # NoCall, SeesStore(call[c]), NEW ok, CallEnds(c, ok),
         IF P = NoToken THEN Deletes(call[c], k) ELSE Sets(call[c], k, P)
  PROVE  Get(k)' = P
<1>1. keyring \in [Keys -> Entry] /\ tokenFile \in [Keys -> Entry]
  BY DEF CommandInv, StoreTyped
<1>2. call[c].key = k /\ call[c].value = P /\ call[c].op = IF P = NoToken THEN "delete" ELSE "set"
  BY DEF Deletes, Sets
<1>3. /\ broken' = broken
      /\ keyring' = IF P = NoToken /\ Works("keyring") THEN [keyring EXCEPT ![k] = NoToken] ELSE keyring
      /\ tokenFile' = IF Works("read") /\ Works("write")
                      THEN [tokenFile EXCEPT ![k] = IF Works("keyring") THEN NoToken ELSE P] ELSE tokenFile
  BY <1>2, CallEndStores
<1>4. /\ keyring'[k] = IF P = NoToken /\ Works("keyring") THEN NoToken ELSE keyring[k]
      /\ tokenFile'[k] = IF Works("read") /\ Works("write")
                         THEN IF Works("keyring") THEN NoToken ELSE P ELSE tokenFile[k]
  BY <1>1, <1>3
<1>5. P # NoToken /\ Works("keyring") => keyring[k] = P
  BY <1>2 DEF SeesStore
<1>6. CASE Works("keyring")
  BY <1>3, <1>4, <1>5, <1>6 DEF Undoable, Get, FileFallback, Works
<1>7. CASE ~Works("keyring")
  <2>1. CASE ~Works("write") \/ ~Works("read") \/ EnvToken[k] # NoToken
    <3>1. Get(k) = P
      BY <1>7, <2>1 DEF Undoable
    <3>2. Get(k)' = Get(k)
      BY <1>3, <1>4, <1>7, <2>1 DEF Get, FileFallback, Works
    <3>3. QED
      BY <3>1, <3>2
  <2>2. CASE Works("write") /\ Works("read") /\ EnvToken[k] = NoToken
    BY <1>3, <1>4, <1>7, <2>2 DEF Undoable, Get, FileFallback, Works
  <2>3. QED
    BY <2>1, <2>2
<1>8. QED
  BY <1>6, <1>7

\* Just read, a key can be undone.
LEMMA UndoableWhenRead ==
  ASSUME NEW k, Get(k) # Unreadable
  PROVE  Undoable(k, Get(k))
BY AccountsAssumption DEF Undoable, Get, FileFallback, Entry

StaysRestorable(c) == \E q : proc'[c] = q /\ (Restoring(q) => Restorable(q)')

LEMMA NotRestoring ==
  ASSUME NEW c, ~Restoring(proc'[c])
  PROVE  StaysRestorable(c)
BY DEF StaysRestorable

LEMMA JournalDomain ==
  ASSUME NEW p \in Process
  PROVE  /\ Len(p.journal) \in Nat /\ DOMAIN p.journal = 1 .. Len(p.journal)
         /\ \A i \in DOMAIN p.journal : p.journal[i].key \in Keys
         /\ p.journal # <<>> => Len(p.journal) >= 1
<1>1. p.journal \in Seq(Prior)
  BY DEF Process
<1>2. Len(p.journal) \in Nat /\ DOMAIN p.journal = 1 .. Len(p.journal)
  BY <1>1, LenProperties
<1>3. \A i \in DOMAIN p.journal : p.journal[i].key \in Keys
  <2>1. \A i \in DOMAIN p.journal : p.journal[i] \in Prior
    BY <1>1, <1>2, ElementOfSeq
  <2>2. QED
    BY <2>1 DEF Prior
<1>4. p.journal # <<>> => Len(p.journal) # 0
  BY <1>1, EmptySeq
<1>5. QED
  BY <1>2, <1>3, <1>4

\* A step that leaves the journal, and of the store all but a key in it.
LEMMA SameJournal ==
  ASSUME NEW p \in Process, NEW q, Restorable(p), q.journal = p.journal, q.seen = p.seen,
         q.phase \in {"restore", "failed"} => q.journal = <<>>,
         \A i \in DOMAIN p.journal : \A P : Undoable(p.journal[i].key, P) => Undoable(p.journal[i].key, P)',
         \A k \in Keys \ Journaled(p) : Get(k)' = Get(k)
  PROVE  Restorable(q)'
<1>1. Journaled(q) = Journaled(p)
  BY DEF Journaled
<1>2. ASSUME NEW i \in DOMAIN q.journal
      PROVE  /\ q.journal[i].prior = q.seen[q.journal[i].key]
             /\ Undoable(q.journal[i].key, q.journal[i].prior)'
  BY <1>2 DEF Restorable
<1>3. ASSUME NEW k \in Keys \ Journaled(q) PROVE Get(k)' = q.seen[k]
  BY <1>1, <1>3 DEF Restorable
<1>4. \A i, j \in DOMAIN q.journal : q.journal[i].key = q.journal[j].key => i = j
  BY DEF Restorable
<1>5. (\A k \in Keys \ Journaled(q) : Get(k) = q.seen[k])'
  BY <1>3 DEF Journaled
<1>6. QED
  BY <1>2, <1>4, <1>5 DEF Restorable

LEMMA SameStore ==
  ASSUME NEW p \in Process, NEW q, Restorable(p), q.journal = p.journal, q.seen = p.seen,
         q.phase \in {"restore", "failed"} => q.journal = <<>>,
         UNCHANGED <<keyring, tokenFile, broken>>
  PROVE  Restorable(q)'
<1>1. \A k : Get(k)' = Get(k) /\ \A P : Undoable(k, P) => Undoable(k, P)'
  BY ReadsTheSame
<1>2. QED
  BY <1>1, SameJournal

\* The next key is read and entered.
LEMMA Journals ==
  ASSUME NEW p \in Process, NEW q, Restorable(p), NEW k \in Keys \ Journaled(p), Get(k) \in Entry,
         q.journal = Append(p.journal, [key |-> k, prior |-> Get(k)]),
         q.seen = p.seen, q.phase = "write", UNCHANGED <<keyring, tokenFile, broken>>
  PROVE  Restorable(q)'
<1> DEFINE j == p.journal
           n == Len(p.journal)
           e == [key |-> k, prior |-> Get(k)]
<1>1. n \in Nat /\ DOMAIN j = 1 .. n /\ j \in Seq(Prior)
  BY JournalDomain DEF Process
<1>2. e \in Prior /\ e.key = k /\ e.prior = Get(k)
  BY DEF Prior
<1> HIDE DEF e
<1>3. /\ Append(j, e) \in Seq(Prior) /\ Len(Append(j, e)) = n + 1
      /\ \A i \in 1 .. n : Append(j, e)[i] = j[i]
      /\ Append(j, e)[n + 1] = e
  BY <1>1, <1>2, AppendProperties
<1>4. DOMAIN Append(j, e) = 1 .. n + 1
  BY <1>3, LenProperties
<1>5. q.journal = Append(j, e)
  BY DEF e
<1>6. DOMAIN q.journal = DOMAIN j \cup {n + 1} /\ n + 1 \notin DOMAIN j
  BY <1>1, <1>4, <1>5
<1>7. (\A i \in DOMAIN j : q.journal[i] = j[i]) /\ q.journal[n + 1] = e
  BY <1>1, <1>3, <1>5
<1>8. \A i \in DOMAIN j : j[i].key # k
  BY DEF Journaled
<1>9. Get(k) = p.seen[k] /\ Undoable(k, Get(k))
  BY UndoableWhenRead, AccountsAssumption DEF Restorable
<1>10. \A m : Get(m)' = Get(m) /\ \A P : Undoable(m, P) => Undoable(m, P)'
  BY ReadsTheSame
<1> HIDE DEF j, n
<1>11. \A i, m \in DOMAIN q.journal : q.journal[i].key = q.journal[m].key => i = m
  BY <1>2, <1>6, <1>7, <1>8 DEF Restorable, j
<1>12. ASSUME NEW i \in DOMAIN q.journal
       PROVE  /\ q.journal[i].prior = q.seen[q.journal[i].key]
              /\ Undoable(q.journal[i].key, q.journal[i].prior)
  <2>1. CASE i \in DOMAIN j
    BY <1>7, <2>1 DEF Restorable, j
  <2>2. CASE i = n + 1
    BY <1>2, <1>7, <1>9, <2>2
  <2>3. QED
    BY <1>6, <1>12, <2>1, <2>2
<1>13. ASSUME NEW m \in Keys \ Journaled(q) PROVE Get(m)' = q.seen[m]
  <2>1. m \notin Journaled(p)
    BY <1>6, <1>7, <1>13 DEF Journaled, j
  <2>2. QED
    BY <1>10, <1>13, <2>1 DEF Restorable
<1>14. (\A m \in Keys \ Journaled(q) : Get(m) = q.seen[m])'
  BY <1>13 DEF Journaled
<1>15. \A i \in DOMAIN q.journal : Undoable(q.journal[i].key, q.journal[i].prior)'
  BY <1>10, <1>12
<1>16. QED
  BY <1>11, <1>12, <1>14, <1>15 DEF Restorable

\* The last key is written, or one of the two steps of undoing it.
LEMMA LastKeyMoves ==
  ASSUME CommandInv, NEW c \in Commands, NEW p \in Process, NEW q, Restorable(p), p.journal # <<>>,
         q.journal = p.journal, q.seen = p.seen, q.phase \notin {"restore", "failed"},
         StepsOn(c, LastOf(p).key)
  PROVE  Restorable(q)'
<1>1. LastOf(p).key \in Keys /\ LastOf(p).key \in Journaled(p)
  BY LastOfTyped, JournalDomain DEF LastOf, Journaled
<1>2. ASSUME NEW j \in Keys
      PROVE  /\ j # LastOf(p).key => Get(j)' = Get(j)
             /\ \A P : Undoable(j, P) => Undoable(j, P)'
  <2>1. CASE j = LastOf(p).key
    BY <1>1, <2>1, UndoableStays
  <2>2. CASE j # LastOf(p).key
    BY <2>2, OtherKeysStay, ReadsTheSame
  <2>3. QED
    BY <2>1, <2>2
<1>3. \A i \in DOMAIN p.journal : p.journal[i].key \in Keys
  BY JournalDomain
<1>4. QED
  BY <1>1, <1>2, <1>3, SameJournal

LEMMA LastKeyUndone ==
  ASSUME CommandInv, NEW c \in Commands, NEW p \in Process, NEW q, Restorable(p), p.journal # <<>>,
         call[c] # NoCall, SeesStore(call[c]), NEW ok \in BOOLEAN, CallEnds(c, ok),
         IF LastOf(p).prior = NoToken THEN Deletes(call[c], LastOf(p).key)
         ELSE Sets(call[c], LastOf(p).key, LastOf(p).prior),
         q.journal = SubSeq(p.journal, 1, Len(p.journal) - 1), q.seen = p.seen,
         q.phase \in {"restore", "failed"} => q.journal = <<>>
  PROVE  Restorable(q)'
<1> DEFINE j == p.journal
           n == Len(p.journal)
           k == LastOf(p).key
           P == LastOf(p).prior
<1>1. n \in Nat /\ n >= 1 /\ DOMAIN j = 1 .. n /\ \A i \in DOMAIN j : j[i].key \in Keys
  BY JournalDomain
<1>2. k \in Keys /\ LastOf(p) = j[n]
  BY LastOfTyped DEF LastOf
<1>3. /\ q.journal \in Seq(Prior) /\ Len(q.journal) = n - 1
      /\ \A i \in 1 .. Len(q.journal) : q.journal[i] = j[i]
  BY FrontOfJournal
<1>4. DOMAIN q.journal = 1 .. n - 1
  BY <1>3, LenProperties
<1> HIDE DEF n
<1>5. /\ n \in DOMAIN j
      /\ \A i : i \in DOMAIN q.journal <=> i \in DOMAIN j /\ i # n
  BY <1>1, <1>4
<1>6. \A i \in DOMAIN q.journal : q.journal[i] = j[i]
  BY <1>3, <1>4
<1>7. P = p.seen[k] /\ Undoable(k, P)
  BY <1>2, <1>5 DEF Restorable
<1>8. StepsOn(c, k) /\ Get(k)' = P
  <2>1. call[c].key = k
    BY DEF Deletes, Sets
  <2>2. Get(k)' = P
    BY <1>2, <1>7, UndoneReads
  <2>3. QED
    BY <2>1, <2>2 DEF StepsOn
<1>9. \A i \in DOMAIN j : i # n => j[i].key # k
  BY <1>2, <1>5 DEF Restorable
<1> HIDE DEF k, P
<1>10. ASSUME NEW m \in Keys, m # k
       PROVE  Get(m)' = Get(m) /\ \A R : Undoable(m, R) => Undoable(m, R)'
  BY <1>8, <1>10, OtherKeysStay, ReadsTheSame
<1>11. \A i, m \in DOMAIN q.journal : q.journal[i].key = q.journal[m].key => i = m
  BY <1>5, <1>6 DEF Restorable
<1>12. ASSUME NEW i \in DOMAIN q.journal
       PROVE  /\ q.journal[i].prior = q.seen[q.journal[i].key]
              /\ Undoable(q.journal[i].key, q.journal[i].prior)'
  <2>1. /\ q.journal[i] = j[i] /\ i \in DOMAIN j /\ j[i].key \in Keys /\ j[i].key # k
        /\ j[i].prior = p.seen[j[i].key] /\ Undoable(j[i].key, j[i].prior)
    BY <1>1, <1>5, <1>6, <1>9, <1>12 DEF Restorable
  <2>2. QED
    BY <1>10, <2>1
<1>13. ASSUME NEW m \in Keys \ Journaled(q) PROVE Get(m)' = q.seen[m]
  <2>1. CASE m = k
    BY <1>7, <1>8, <2>1
  <2>2. CASE m # k
    <3>1. m \notin Journaled(p)
      <4> SUFFICES ASSUME NEW i \in DOMAIN j, m = j[i].key PROVE FALSE
        BY DEF Journaled
      <4>1. i # n
        BY <1>2, <2>2 DEF k
      <4>2. QED
        BY <1>5, <1>6, <1>13, <4>1 DEF Journaled
    <3>2. QED
      BY <1>10, <1>13, <2>2, <3>1 DEF Restorable
  <2>3. QED
    BY <2>1, <2>2
<1>14. (\A m \in Keys \ Journaled(q) : Get(m) = q.seen[m])'
  BY <1>13 DEF Journaled
<1>15. QED
  BY <1>11, <1>12, <1>14 DEF Restorable

\* One step of an import.
LEMMA ImportStays ==
  ASSUME RestInv, NEW c \in Commands, c \in quiet', proc[c].cmd = "import", ImportSteps(c)
  PROVE  StaysRestorable(c)
<1>1. CommandInv /\ KeepInv /\ NamedInv
  BY DEF RestInv, NamedInv, KeepInv
<1>2. \E p, q : p = proc[c] /\ q = proc'[c]
  OBVIOUS
<1>3. PICK p, q : p = proc[c] /\ q = proc'[c]
  BY <1>2
<1>4. p \in Process /\ p.cmd = "import" /\ Shaped(p, call[c]) /\ Keeps(p)
  BY <1>1, <1>3, ProcTyped DEF KeepInv
<1>5. \A r : Become(c, r) => q = r
  BY <1>1, <1>3, Becomes
<1>6. c \in quiet => /\ call[c] # NoCall => SeesStore(call[c])
                     /\ p.phase \in {"journal", "write", "undo", "save", "restore"} => Restorable(p)
  BY <1>1, <1>3, <1>4 DEF RestInv, NamedInv, QuietCalls, Restoring
<1>7. Writes(c) \/ Local(c) => c \in quiet
  BY DEF Writes, Local
<1>8. Restorable(q)' \/ ~Restoring(q) => StaysRestorable(c)
  BY <1>3 DEF StaysRestorable
<1>9. ASSUME NEW phase, Goto(c, phase) PROVE q.phase = phase /\ q.journal = p.journal /\ q.seen = p.seen
  <2>1. q = [p EXCEPT !.phase = phase]
    BY <1>3, <1>5, <1>9 DEF Goto
  <2>2. QED
    BY <1>4, <2>1 DEF Process
<1>10. ASSUME NEW after, Undo(c, after)
       PROVE  /\ q.phase = IF p.journal = <<>> THEN after ELSE "undo"
              /\ q.journal = p.journal /\ q.seen = p.seen
  <2>1. q = [p EXCEPT !.phase = IF p.journal = <<>> THEN after ELSE "undo", !.after = after]
    BY <1>3, <1>5, <1>10 DEF Undo
  <2>2. QED
    BY <1>4, <2>1 DEF Process
<1>11. CASE ImportNext(c)
  <2>1. q.phase \in {"next", "plex", "ended"}
    <3>1. CASE End(c)
      <4>1. q = [Idle EXCEPT !.phase = "ended"]
        BY <1>3, <1>4, <1>5, <3>1 DEF End
      <4>2. QED
        BY <4>1 DEF Idle
    <3>2. CASE ~End(c)
      BY <1>5, <1>11, <3>2 DEF ImportNext, Idle
    <3>3. QED
      BY <3>1, <3>2
  <2>2. QED
    BY <1>8, <2>1 DEF Restoring
<1>12. CASE ImportLoads(c)
  <2> DEFINE reads == [k \in Keys |-> Get(k)]
             r == [p EXCEPT !.phase = "journal", !.seen = reads]
  <2>1. p.phase = "plex" /\ p.journal = <<>> /\ p.acct \in Account
    BY <1>3, <1>4, <1>12 DEF ImportLoads, At, Keeps, Shaped
  <2>2. reads \in Read
    BY <1>1, GetTyped DEF CommandInv, Read
  <2>3. \E d \in Discoveries[p.acct] : \E conf : Loads(c, Finds(r, d), conf)
    BY <1>3, <1>12 DEF ImportLoads
  <2>4. PICK d \in Discoveries[p.acct] : \E conf : Loads(c, Finds(r, d), conf)
    BY <2>3
  <2>5. PICK conf : Loads(c, Finds(r, d), conf)
    BY <2>4
  <2>6. \A k \in Keys : reads[k] = Get(k)
    OBVIOUS
  <2> HIDE DEF reads
  <2>7. r \in Process /\ r.phase = "journal" /\ r.journal = p.journal /\ r.seen = reads
    BY <1>4, <2>2 DEF Process, Phases
  <2> HIDE DEF r
  <2>8. /\ Finds(r, d) \in Process /\ Finds(r, d).phase = r.phase /\ Finds(r, d).journal = r.journal
        /\ Finds(r, d).seen = r.seen
    <3>1. Finds(r, d) \in Process
      BY <2>1, <2>7, FindsTyped
    <3>2. QED
      BY <2>7, <3>1 DEF Finds, Process
  <2> DEFINE f == Finds(r, d)
  <2>9. q = [f EXCEPT !.conf = conf, !.old = config] /\ UNCHANGED <<keyring, tokenFile, broken>>
    BY <1>5, <2>5 DEF Loads, storeVars
  <2>10. f \in Process /\ f.phase = "journal" /\ f.journal = <<>> /\ f.seen = reads
    BY <2>1, <2>7, <2>8
  <2> HIDE DEF f
  <2>11. q.phase = "journal" /\ q.journal = <<>> /\ q.seen = reads
    BY <2>9, <2>10 DEF Process
  <2>12. \A k \in Keys : Get(k)' = q.seen[k]
    BY <2>6, <2>9, <2>11, ReadsTheSame
  <2>13. DOMAIN q.journal = {}
    BY <2>11, EmptySeq
  <2>14. (\A k \in Keys \ Journaled(q) : Get(k) = q.seen[k])'
    BY <2>12 DEF Journaled
  <2>15. Restorable(q)'
    BY <2>11, <2>13, <2>14 DEF Restorable
  <2>16. QED
    BY <1>8, <2>15
<1>13. ASSUME Local(c), Restorable(p), q.journal = p.journal, q.seen = p.seen,
              q.phase \in {"restore", "failed"} => q.journal = <<>>
       PROVE  StaysRestorable(c)
  <2>1. UNCHANGED <<keyring, tokenFile, broken>>
    BY <1>13 DEF Local, storeVars
  <2>2. QED
    BY <1>4, <1>8, <1>13, <2>1, SameStore
<1>14. CASE ImportJournals(c)
  <2>1. p.phase = "journal" /\ Local(c) /\ Restorable(p) /\ p.acct \in Account
    BY <1>3, <1>4, <1>6, <1>7, <1>14 DEF ImportJournals, At, Shaped
  <2>2. PICK k \in ToWrite(p) \ Journaled(p) :
         IF Get(k) = Unreadable THEN Undo(c, "failed")
         ELSE Become(c, [p EXCEPT !.phase = "write",
                                  !.journal = Append(@, [key |-> k, prior |-> Get(k)])])
    BY <1>3, <1>14 DEF ImportJournals
  <2>3. CASE Get(k) = Unreadable
    <3>1. Undo(c, "failed")
      BY <2>2, <2>3
    <3>2. QED
      BY <1>10, <1>13, <2>1, <3>1
  <2>4. CASE Get(k) # Unreadable
    <3> DEFINE e == [key |-> k, prior |-> Get(k)]
    <3>1. q = [p EXCEPT !.phase = "write", !.journal = Append(@, e)]
      BY <1>5, <2>2, <2>4
    <3> HIDE DEF e
    <3>2. q.journal = Append(p.journal, e) /\ q.seen = p.seen /\ q.phase = "write"
      BY <1>4, <3>1 DEF Process
    <3>3. k \in Keys \ Journaled(p)
      BY <1>4, <2>1, <2>2, ToWriteTyped
    <3>4. Get(k) \in Entry
      BY <1>1, <2>4, <3>3, GetTyped DEF CommandInv
    <3>5. UNCHANGED <<keyring, tokenFile, broken>>
      BY <2>1 DEF Local, storeVars
    <3>6. Restorable(q)'
      BY <1>4, <2>1, <3>2, <3>3, <3>4, <3>5, Journals DEF e
    <3>7. QED
      BY <1>8, <3>6
  <2>5. QED
    BY <2>3, <2>4
<1>15. ASSUME p.phase \in {"write", "undo"}, c \in quiet, StepsOn(c, LastOf(p).key),
              q.journal = p.journal, q.seen = p.seen, q.phase \notin {"restore", "failed"}
       PROVE  StaysRestorable(c)
  <2>1. Restorable(p) /\ p.journal # <<>>
    BY <1>4, <1>6, <1>15 DEF Shaped
  <2>2. Restorable(q)'
    BY <1>1, <1>4, <1>15, <2>1, LastKeyMoves
  <2>3. QED
    BY <1>8, <2>2
<1>16. CASE ImportWrites(c) \/ ImportUndoes(c)
  <2>1. p.phase \in {"write", "undo"} /\ c \in quiet /\ q = p
    BY <1>3, <1>7, <1>16 DEF ImportWrites, ImportUndoes, At
  <2>2. StepsOn(c, LastOf(p).key)
    BY <1>3, <1>16 DEF ImportWrites, ImportUndoes, StepsOn, LastOf
  <2>3. QED
    BY <1>15, <2>1, <2>2
<1>17. CASE ImportWritten(c)
  <2>1. p.phase = "write" /\ c \in quiet /\ call[c] # NoCall /\ SeesStore(call[c])
    BY <1>3, <1>6, <1>7, <1>17 DEF ImportWritten, Calling
  <2>2. call[c].key = LastOf(p).key
    BY <1>4, <2>1 DEF Shaped, CallFits, Sets
  <2>3. \E ok \in BOOLEAN : CallEnds(c, ok)
    BY <1>17 DEF ImportWritten
  <2>4. Goto(c, "journal") \/ Undo(c, "failed")
    BY <1>17 DEF ImportWritten
  <2>5. p.journal # <<>>
    BY <1>4, <2>1 DEF Shaped
  <2>6. q.journal = p.journal /\ q.seen = p.seen /\ q.phase \in {"journal", "undo"}
    BY <1>9, <1>10, <2>4, <2>5
  <2>7. StepsOn(c, LastOf(p).key)
    BY <2>1, <2>2, <2>3 DEF StepsOn
  <2>8. QED
    BY <1>15, <2>1, <2>6, <2>7
<1>18. CASE ImportStored(c)
  <2>1. p.phase = "journal" /\ Local(c) /\ Goto(c, "save") /\ Restorable(p)
    BY <1>3, <1>6, <1>7, <1>18 DEF ImportStored, At
  <2>2. QED
    BY <1>9, <1>13, <2>1
<1>19. CASE ImportUndone(c)
  <2> DEFINE rest == SubSeq(p.journal, 1, Len(p.journal) - 1)
             ph == IF rest = <<>> THEN p.after ELSE "undo"
  <2>1. p.phase = "undo" /\ c \in quiet /\ call[c] # NoCall /\ SeesStore(call[c])
    BY <1>3, <1>6, <1>7, <1>19 DEF ImportUndone, Calling
  <2>2. Restorable(p) /\ p.journal # <<>>
    BY <1>4, <1>6, <2>1 DEF Shaped
  <2>3. IF LastOf(p).prior = NoToken THEN Deletes(call[c], LastOf(p).key)
        ELSE Sets(call[c], LastOf(p).key, LastOf(p).prior)
    BY <1>4, <2>1 DEF Shaped, CallFits
  <2>4. PICK ok \in BOOLEAN : CallEnds(c, ok)
    BY <1>19 DEF ImportUndone
  <2>5. q = [p EXCEPT !.journal = rest, !.phase = ph]
    BY <1>3, <1>5, <1>19 DEF ImportUndone
  <2>6. ph \in {"restore", "failed"} => rest = <<>>
    OBVIOUS
  <2> HIDE DEF rest, ph
  <2>7. q.journal = rest /\ q.seen = p.seen /\ q.phase = ph
    BY <1>4, <2>5 DEF Process
  <2>8. Restorable(q)'
    BY <1>1, <1>4, <2>1, <2>2, <2>3, <2>4, <2>6, <2>7, LastKeyUndone DEF rest
  <2>9. QED
    BY <1>8, <2>8
<1>20. CASE ImportFailed(c)
  <2>1. q.phase = "next"
    BY <1>9, <1>20 DEF ImportFailed
  <2>2. QED
    BY <1>8, <2>1 DEF Restoring
<1>21. ASSUME Restorable(p), UNCHANGED storeVars, q.journal = p.journal, q.seen = p.seen,
              q.phase \in {"restore", "failed"} => q.journal = <<>>
       PROVE  StaysRestorable(c)
  BY <1>4, <1>8, <1>21, SameStore DEF storeVars
<1>22. CASE ImportSaves(c)
  <2>1. p.phase = "save" /\ c \in quiet /\ UNCHANGED storeVars
    BY <1>3, <1>22 DEF ImportSaves, At, Save
  <2>2. CASE Goto(c, "next")
    <3>1. q.phase = "next"
      BY <1>9, <2>2
    <3>2. QED
      BY <1>8, <3>1 DEF Restoring
  <2>3. CASE Undo(c, "restore")
    BY <1>6, <1>10, <1>21, <2>1, <2>3
  <2>4. QED
    BY <1>22, <2>2, <2>3 DEF ImportSaves, Save
<1>23. CASE ImportRestores(c)
  <2>1. p.phase = "restore" /\ c \in quiet /\ UNCHANGED storeVars /\ Goto(c, "failed")
    BY <1>3, <1>23 DEF ImportRestores, At, Save
  <2>2. Restorable(p) /\ p.journal = <<>>
    BY <1>6, <2>1 DEF Restorable
  <2>3. QED
    BY <1>9, <1>21, <2>1, <2>2
<1>24. QED
  BY <1>11, <1>12, <1>14, <1>16, <1>17, <1>18, <1>19, <1>20, <1>22, <1>23 DEF ImportSteps

\* A quiet command that acts.
LEMMA OwnStepRestores ==
  ASSUME RestInv, NEW c \in Commands, Acts(c), c \in quiet'
  PROVE  StaysRestorable(c)
<1>1. CommandInv /\ KeepInv /\ NamedInv
  BY DEF RestInv, NamedInv, KeepInv
<1>2. CASE proc'[c].cmd # "import"
  BY <1>2, NotRestoring DEF Restoring
<1>3. CASE proc'[c].cmd = "import"
  <2>1. ~Begins(c)
    <3>1. Begins(c) => proc[c].phase = "idle" /\ quiet' = quiet
      BY DEF Begins, LoginBegins, LogoutBegins, ImportBegins, EditBegins, Begin
    <3>2. QED
      BY <1>1, <3>1 DEF NamedInv
  <2>2. proc[c].cmd = "import"
    BY <1>1, <1>3, <2>1, SameCommand
  <2>3. ~Ends(c) /\ ~Interrupted(c)
    BY DEF Ends, Interrupted, Leave
  <2>4. ~EditLoads(c) /\ ~LoginSteps(c) /\ ~LogoutSteps(c) /\ ~SaveConfig(c)
    BY <2>2 DEF EditLoads, LoginSteps, LoginLoads, LoginAccount, LoginAccountStored, LoginServer,
                LoginServerStored, LoginStored, LogoutSteps, LogoutLoads, LogoutAccount,
                LogoutAccountDeleted, LogoutServer, LogoutServerDeleted, LogoutDeleted, SaveConfig,
                At, Calling
  <2>5. CASE DiscoveryFails(c)
    <3>1. proc[c].phase = "plex" /\ proc[c].seen = <<>> /\ Goto(c, "failed")
      BY <1>1, <2>2, <2>5 DEF DiscoveryFails, At, Fails, KeepInv, Keeps
    <3>2. proc[c] \in Process /\ proc'[c] = [proc[c] EXCEPT !.phase = "failed"]
      BY <1>1, <3>1, Becomes DEF Goto
    <3>3. proc'[c].phase = "failed" /\ proc'[c].seen = <<>>
      BY <3>1, <3>2 DEF Process
    <3>4. QED
      BY <3>3, NotRestoring DEF Restoring
  <2>6. CASE ImportSteps(c)
    BY <2>2, <2>6, ImportStays
  <2>7. QED
    BY <2>1, <2>3, <2>4, <2>5, <2>6 DEF Acts
<1>4. QED
  BY <1>2, <1>3

LEMMA InitRestInv == AccountsInit => RestInv
<1> SUFFICES ASSUME AccountsInit PROVE RestInv
  OBVIOUS
<1>1. NamedInv /\ quiet = {}
  BY InitNamedInv DEF AccountsInit
<1>2. QED
  BY <1>1 DEF RestInv

LEMMA RestorableStays ==
  ASSUME NEW p, Restorable(p), UNCHANGED <<keyring, tokenFile, broken>>
  PROVE  Restorable(p)'
BY DEF Restorable, Undoable, Get, FileFallback, Works, Journaled

LEMMA NextRestInv == RestInv /\ [AccountsNext]_vars => RestInv'
<1> SUFFICES ASSUME RestInv, [AccountsNext]_vars PROVE RestInv'
  OBVIOUS
<1>1. NamedInv' /\ CommandInv
  BY NextNamedInv DEF RestInv, NamedInv, KeepInv
<1>2. CASE UNCHANGED vars
  <2>1. UNCHANGED <<keyring, tokenFile, broken, proc, quiet>>
    BY <1>2 DEF vars, storeVars
  <2>2. QED
    BY <1>1, <2>1 DEF RestInv, Restoring, Restorable, Undoable, Get, FileFallback, Works, Journaled
<1>3. CASE PartFlips
  BY <1>1, <1>3 DEF PartFlips, RestInv
<1>4. ASSUME NEW c \in Commands, Acts(c) PROVE RestInv'
  <2>1. ASSUME NEW d \in quiet' PROVE \E q : proc'[d] = q /\ (Restoring(q) => Restorable(q)')
    <3>1. CASE d = c
      BY <1>4, <2>1, <3>1, OwnStepRestores DEF StaysRestorable
    <3>2. CASE d # c
      <4>1. StoreIs /\ d \in quiet
        BY <1>1, <1>4, <2>1, <3>2, QuietFrame
      <4>2. d \in Commands
        BY <1>1, <4>1 DEF CommandInv, RestTyped
      <4>3. proc'[d] = proc[d]
        BY <1>1, <1>4, <3>2, <4>2, OthersStay
      <4>4. PICK q : q = proc[d]
        OBVIOUS
      <4>5. Restoring(q) => Restorable(q)
        BY <4>1, <4>4 DEF RestInv
      <4>6. Restorable(q) => Restorable(q)'
        BY <4>1, RestorableStays DEF StoreIs
      <4>7. QED
        BY <4>3, <4>4, <4>5, <4>6
    <3>3. QED
      BY <3>1, <3>2
  <2>2. (\A d \in quiet : Restoring(proc[d]) => Restorable(proc[d]))'
    BY <2>1 DEF Restoring, Restorable, Undoable, Get, FileFallback, Works, Journaled
  <2>3. QED
    BY <1>1, <2>2 DEF RestInv
<1>5. QED
  BY <1>2, <1>3, <1>4, StepsOfCommands

\* auth import: when it fails every credential reads as it did when the import
\* read the configuration, and the file is the one it had read, whatever parts
\* of the store fail while it undoes what it wrote.
THEOREM FailuresRestore == Spec => []FailedImportRestores
<1>1. RestInv => FailedImportRestores
  <2> SUFFICES ASSUME RestInv, NEW c \in quiet, proc[c].phase = "failed", proc[c].seen # <<>>
               PROVE  config = proc[c].old /\ \A k \in Keys : Get(k) = proc[c].seen[k]
    BY DEF FailedImportRestores
  <2>1. c \in Commands /\ KeepInv /\ CommandInv
    BY DEF RestInv, NamedInv, KeepInv, CommandInv, RestTyped
  <2>2. config = proc[c].old
    BY <2>1 DEF KeepInv, Loaded
  <2>3. proc[c].cmd = "import"
    BY <2>1 DEF KeepInv, Keeps
  <2>4. Restorable(proc[c]) /\ proc[c].journal = <<>>
    BY <2>3 DEF RestInv, Restoring, Restorable
  <2>5. Journaled(proc[c]) = {}
    BY <2>4, EmptySeq DEF Journaled
  <2>6. QED
    BY <2>2, <2>4, <2>5 DEF Restorable
<1>2. QED
  BY <1>1, InitRestInv, NextRestInv, PTL DEF Spec

(***************************************************************************)
(* What any configuration that is on disk or may be saved names can be     *)
(* read, for accounts only one command at a time is about.  A credential   *)
(* that is held stays so but for the undoing of an import, and what that   *)
(* deletes no such configuration names: it was not there before.           *)
(***************************************************************************)
Uncontested == Account \ contested

\* k can be read while the keyring stays as it is, whatever happens to the file.
Held(k) ==
  \/ EnvToken[k] # NoToken \/ LegacyEnv[k] # NoToken
  \/ (IF Works("keyring") THEN keyring[k] ELSE tokenFile[k]) # NoToken

NamesKey(conf, k) == \E id \in Machines : conf.profiles[id] # NoProfile /\ TokenKey(conf, id) = k

Sound(conf, S) ==
  \A id \in Machines : conf.profiles[id] # NoProfile /\ conf.profiles[id].acct \in Uncontested =>
    /\ conf.profiles[id].acct \in conf.accounts
    /\ Held(TokenKey(conf, id)) \/ TokenKey(conf, id) \in S

\* The keys an import has still to write.
Pending(p) ==
  {k \in ToWrite(p) : /\ p.cmd = "import" /\ p.phase \in {"journal", "write"}
                      /\ k \notin Journaled(p) \/ (p.phase = "write" /\ k = LastOf(p).key)}

ToSave == {"account", "servers", "journal", "write", "save"}
Journaling == {"journal", "write", "undo", "save"}

Concerns(p) == p.names \cup {p.acct}
Busy(c) == proc[c].phase # "idle"

Good(x) ==
  IF Works("keyring")
  THEN /\ x.inKeyring
       /\ x.loaded = Unreadable \/ \A k \in Keys : x.loaded[k] = NoToken
       /\ x.op = "set" /\ x.key.acct \in Uncontested => keyring[x.key] # NoToken
  ELSE ~x.inKeyring /\ x.loaded \in {tokenFile, Unreadable}

SoundProcess(p) ==
  /\ p.phase \in ToSave => Sound(p.conf, Pending(p))
  /\ p.phase \in Underway => Sound(p.old, {})
  /\ p.cmd = "login" /\ p.phase = "servers" /\ p.acct \in Uncontested =>
       p.acct \in p.conf.accounts /\ Held(AccountKey(p.acct))
  /\ p.cmd = "logout" => Concerns(p) \cap Account \subseteq contested
  /\ p.cmd = "import" /\ p.phase \in Journaling =>
       \A i \in DOMAIN p.journal : p.journal[i].key.acct = p.acct

\* No configuration that may be saved, but the one import c makes, names k.
Unnamed(c, k) ==
  /\ ~NamesKey(config, k)
  /\ \A d \in Commands :
       /\ proc[d].phase \in Underway => ~NamesKey(proc[d].old, k)
       /\ proc[d].phase \in ToSave /\ d # c => ~NamesKey(proc[d].conf, k)

Frees(c, p) ==
  p.cmd = "import" /\ p.phase \in Journaling /\ p.acct \in Uncontested =>
    \A i \in DOMAIN p.journal : p.journal[i].prior = NoToken => Unnamed(c, p.journal[i].key)

StoreInv ==
  /\ Works("keyring") => \A k \in Keys : tokenFile[k] = NoToken
  /\ \A c \in Commands : call[c] # NoCall => Good(call[c])

Apart ==
  \A c, d \in Commands : Busy(c) /\ Busy(d) /\ c # d =>
    Works("keyring") /\ Concerns(proc[c]) \cap Concerns(proc[d]) \cap Uncontested = {}

ResolveInv ==
  /\ KeepInv
  /\ Uncontested # {} =>
       /\ StoreInv /\ Apart
       /\ Sound(config, {})
       /\ \A c \in Commands : SoundProcess(proc[c]) /\ Frees(c, proc[c])

\* c deletes k, an entry an import made.
Drops(c, k) ==
  /\ proc[c].cmd = "import" /\ proc[c].phase = "undo" /\ proc[c].journal # <<>>
  /\ LastOf(proc[c]).prior = NoToken /\ LastOf(proc[c]).key = k

LEMMA CallsOfCommands ==
  ASSUME NEW p \in Process, NEW x, x # NoCall, Shaped(p, x)
  PROVE  /\ p.phase \in {"account", "servers", "write", "undo"}
         /\ x.op = "set" => x.value # NoToken
         /\ x.op = "delete" => \/ p.cmd = "logout" /\ p.phase \in {"account", "servers"}
                               \/ /\ p.cmd = "import" /\ p.phase = "undo" /\ p.journal # <<>>
                                  /\ LastOf(p).prior = NoToken /\ LastOf(p).key = x.key
         /\ p.cmd \in {"login", "logout"} => x.key.acct = p.acct
         /\ p.cmd = "import" => x.key = LastOf(p).key /\ p.phase \in {"write", "undo"}
         /\ p.cmd \in {"login", "logout", "import"} /\ p.acct \in Account
<1>1. CallFits(p, x)
  BY DEF Shaped
<1>2. p.cmd \in {"login", "import"} => p.token # NoToken
  BY AccountsAssumption DEF Shaped
<1> p.found \subseteq Machines
  BY DEF Process
<1>3. CASE p.cmd = "login"
  <2>1. \/ p.phase = "account" /\ Sets(x, AccountKey(p.acct), p.token)
        \/ p.phase = "servers" /\ \E id \in Machines : Sets(x, ServerKey(p.acct, id), p.token)
    BY <1>1, <1>3 DEF CallFits
  <2>2. p.phase \in {"account", "servers"} /\ x.op = "set" /\ x.value = p.token /\ x.key.acct = p.acct
    <3>1. CASE p.phase = "account" /\ Sets(x, AccountKey(p.acct), p.token)
      BY <3>1 DEF Sets, AccountKey
    <3>2. ASSUME p.phase = "servers", NEW id \in Machines, Sets(x, ServerKey(p.acct, id), p.token)
          PROVE  p.phase \in {"account", "servers"} /\ x.op = "set" /\ x.value = p.token /\ x.key.acct = p.acct
      BY <3>2 DEF Sets, ServerKey
    <3>3. QED
      BY <2>1, <3>1, <3>2
  <2>3. QED
    BY <1>2, <1>3, <2>2 DEF Shaped
<1>4. CASE p.cmd = "logout"
  <2>1. \/ p.phase = "account" /\ Deletes(x, AccountKey(p.acct))
        \/ p.phase = "servers" /\ \E id \in Machines : Deletes(x, ServerKey(p.acct, id))
    BY <1>1, <1>4 DEF CallFits
  <2>2. p.phase \in {"account", "servers"} /\ x.op = "delete" /\ x.key.acct = p.acct
    <3>1. CASE p.phase = "account" /\ Deletes(x, AccountKey(p.acct))
      BY <3>1 DEF Deletes, AccountKey
    <3>2. ASSUME p.phase = "servers", NEW id \in Machines, Deletes(x, ServerKey(p.acct, id))
          PROVE  p.phase \in {"account", "servers"} /\ x.op = "delete" /\ x.key.acct = p.acct
      BY <3>2 DEF Deletes, ServerKey
    <3>3. QED
      BY <2>1, <3>1, <3>2
  <2>3. QED
    BY <1>4, <2>2 DEF Shaped
<1>5. CASE p.cmd = "import"
  <2>1. p.phase \in {"write", "undo"} /\ x.key = LastOf(p).key
    BY <1>1, <1>5 DEF CallFits, Sets, Deletes
  <2>2. x.op = "set" => x.value # NoToken
    BY <1>1, <1>2, <1>5 DEF CallFits, Sets, Deletes
  <2>3. x.op = "delete" => p.phase = "undo" /\ LastOf(p).prior = NoToken
    BY <1>1, <1>5 DEF CallFits, Sets, Deletes
  <2>4. p.journal # <<>> /\ p.acct \in Account
    BY <1>5, <2>1 DEF Shaped
  <2>5. QED
    BY <1>5, <2>1, <2>2, <2>3, <2>4
<1>6. QED
  BY <1>1, <1>3, <1>4, <1>5 DEF CallFits

\* A command's call is on a key of the account it is about.
LEMMA CallsOnOwnKeys ==
  ASSUME NEW p \in Process, NEW x, x # NoCall, Shaped(p, x), SoundProcess(p)
  PROVE  x.key.acct = p.acct /\ p.acct \in Concerns(p)
<1>1. CASE p.cmd \in {"login", "logout"}
  BY <1>1, CallsOfCommands DEF Concerns
<1>2. CASE p.cmd = "import"
  <2>1. x.key = LastOf(p).key /\ p.phase \in {"write", "undo"} /\ p.journal # <<>>
    BY <1>2, CallsOfCommands DEF Shaped
  <2>2. Len(p.journal) \in DOMAIN p.journal
    BY <2>1, JournalDomain
  <2>3. QED
    BY <1>2, <2>1, <2>2 DEF SoundProcess, Journaling, LastOf, Concerns
<1>3. QED
  BY <1>1, <1>2, CallsOfCommands

LEMMA CallEndsGood ==
  ASSUME CommandInv, StoreInv, NEW c \in Commands, NEW ok, CallEnds(c, ok)
  PROVE  LET x == call[c]
         IN /\ x # NoCall /\ x.key \in Keys /\ x.op \in {"set", "delete"} /\ broken' = broken
            /\ Works("keyring") =>
                 /\ \A k \in Keys : tokenFile'[k] = NoToken
                 /\ keyring' = IF x.op = "delete" THEN [keyring EXCEPT ![x.key] = NoToken] ELSE keyring
            /\ ~Works("keyring") =>
                 /\ keyring' = keyring
                 /\ tokenFile' \in {tokenFile, [tokenFile EXCEPT ![x.key] = x.value]}
                 /\ x.op = "set" /\ x.value # NoToken /\ ok => tokenFile'[x.key] = x.value
<1> DEFINE x == call[c]
<1>1. x \in CallRecord /\ tokenFile \in [Keys -> Entry] /\ x # NoCall /\ Good(x)
  BY CallsEndTyped, ProcTyped DEF EntriesTyped, CallEnds, SetEnds, DeleteEnds, StoreInv
<1>2. broken' = broken /\ SaveTokenFile(x) /\ x.key \in Keys /\ x.op \in {"set", "delete"}
  BY <1>1 DEF CallEnds, SetEnds, DeleteEnds, CallRecord
<1>3. keyring' = IF x.op = "delete" /\ Works("keyring") THEN [keyring EXCEPT ![x.key] = NoToken] ELSE keyring
  BY DEF CallEnds, SetEnds, DeleteEnds
<1>4. ok /\ x.op = "set" => FileDone(x)
  BY DEF CallEnds, SetEnds, DeleteEnds
<1>5. CASE Works("keyring")
  <2>1. x.inKeyring /\ (x.loaded = Unreadable \/ \A k \in Keys : x.loaded[k] = NoToken)
    BY <1>1, <1>5 DEF Good
  <2>2. ~Saves(x)
    BY <1>2, <2>1 DEF Saves, Present, Readable, FileValue
  <2>3. tokenFile' = tokenFile
    BY <1>2, <2>2 DEF SaveTokenFile
  <2>4. QED
    BY <1>1, <1>2, <1>3, <1>5, <2>3 DEF StoreInv
<1>6. CASE ~Works("keyring")
  <2>1. ~x.inKeyring /\ x.loaded \in {tokenFile, Unreadable} /\ FileValue(x) = x.value
    BY <1>1, <1>6 DEF Good, FileValue
  <2>2. Readable(x) => x.loaded = tokenFile
    BY <2>1 DEF Readable
  <2>3. tokenFile' = IF Saves(x) /\ Works("write") THEN [x.loaded EXCEPT ![x.key] = x.value] ELSE tokenFile
    BY <1>2, <2>1 DEF SaveTokenFile
  <2>4. Saves(x) => Readable(x)
    BY DEF Saves
  <2>5. tokenFile' \in {tokenFile, [tokenFile EXCEPT ![x.key] = x.value]}
    BY <2>2, <2>3, <2>4
  <2>6. ASSUME x.op = "set", x.value # NoToken, ok PROVE tokenFile'[x.key] = x.value
    <3>1. Saves(x) /\ Works("write")
      BY <1>4, <2>1, <2>6 DEF FileDone, Saves
    <3>2. tokenFile' = [tokenFile EXCEPT ![x.key] = x.value]
      BY <2>2, <2>3, <2>4, <3>1
    <3>3. QED
      BY <1>1, <1>2, <3>2
  <2>7. QED
    BY <1>1, <1>2, <1>3, <1>6, <2>5, <2>6
<1>7. QED
  BY <1>5, <1>6

\* No step of a command makes an account uncontested or repairs a part.
LEMMA ActsContest ==
  ASSUME CommandInv, NEW c \in Commands, Acts(c)
  PROVE  /\ broken' = broken /\ contested \subseteq contested'
         /\ Begins(c) \/ (contested' = contested /\ proc[c].phase # "idle")
<1>1. broken' = broken
  BY StoreSteps DEF StoreStep, SetBegins, DeleteBegins, Enter, CallEnds
<1>2. CASE Begins(c)
  BY <1>1, <1>2 DEF Begins, LoginBegins, LogoutBegins, ImportBegins, EditBegins, Begin
<1>3. CASE EditLoads(c) \/ DiscoveryFails(c) \/ LoginSteps(c)
  BY <1>1, <1>3 DEF EditLoads, DiscoveryFails, LoginSteps, LoginLoads, LoginAccount, LoginAccountStored,
                    LoginServer, LoginServerStored, LoginStored, At, Calling, Loads, Local, Writes
<1>4. CASE LogoutSteps(c)
  BY <1>1, <1>4 DEF LogoutSteps, LogoutLoads, LogoutAccount, LogoutAccountDeleted, LogoutServer,
                    LogoutServerDeleted, LogoutDeleted, At, Calling, Loads, Local, Writes
<1>5. CASE ImportSteps(c)
  BY <1>1, <1>5 DEF ImportSteps, ImportNext, ImportLoads, ImportJournals, ImportWrites, ImportWritten,
                    ImportStored, ImportUndoes, ImportUndone, ImportFailed, ImportSaves, ImportRestores,
                    At, Calling, Loads, Local, Writes, Save
<1>6. CASE SaveConfig(c) \/ Ends(c) \/ Interrupted(c)
  BY <1>1, <1>6 DEF SaveConfig, Ends, Interrupted, Leave, Save, At
<1>7. QED
  BY <1>2, <1>3, <1>4, <1>5, <1>6 DEF Acts

\* Two commands in a call of the store, about uncontested accounts, are in it
\* for different keys, and alone when the token file is all there is.
LEMMA CallsApart ==
  ASSUME ResolveInv, NEW c \in Commands, NEW d \in Commands, c # d, Uncontested # {},
         call[c] # NoCall, call[d] # NoCall
  PROVE  Works("keyring") /\ (call[c].key = call[d].key => call[c].key.acct \notin Uncontested)
<1>1. ASSUME NEW e \in Commands, call[e] # NoCall
      PROVE  call[e].key.acct = proc[e].acct /\ proc[e].acct \in Concerns(proc[e]) /\ Busy(e)
  <2>1. proc[e] \in Process /\ Shaped(proc[e], call[e]) /\ SoundProcess(proc[e])
    BY ProcTyped DEF ResolveInv, KeepInv
  <2>2. proc[e].phase # "idle"
    BY <1>1, <2>1, CallsOfCommands
  <2>3. QED
    BY <1>1, <2>1, <2>2, CallsOnOwnKeys DEF Busy
<1>2. Apart
  BY DEF ResolveInv
<1>3. QED
  BY <1>1, <1>2 DEF Apart

LEMMA StoreInvStays ==
  ASSUME ResolveInv, CommandInv', NEW c \in Commands, Acts(c), Uncontested' # {}
  PROVE  StoreInv'
<1>1. CommandInv /\ broken' = broken /\ Uncontested' \subseteq Uncontested /\ StoreInv
  BY ActsContest DEF ResolveInv, KeepInv, Uncontested
<1>2. keyring \in [Keys -> Entry] /\ tokenFile \in [Keys -> Entry]
  BY <1>1 DEF CommandInv, StoreTyped
<1>3. \A d \in Commands : d # c => call'[d] = call[d]
  BY <1>1, OthersStay
<1>4. CASE UNCHANGED <<keyring, tokenFile, broken>> /\ call'[c] = NoCall
  BY <1>1, <1>3, <1>4 DEF StoreInv, Good, Works
<1>5. ASSUME NEW k, NEW t, (SetBegins(c, k, t) /\ t # NoToken) \/ DeleteBegins(c, k) PROVE StoreInv'
  <2>1. PICK x : x = call'[c]
    OBVIOUS
  <2>2. x = [op |-> x.op, key |-> k, value |-> x.value,
             inKeyring |-> Works("keyring"), loaded |-> LoadTokenFile]
    BY <1>1, <1>5, <2>1 DEF SetBegins, DeleteBegins, Enter, CommandInv, StoreTyped
  <2>3. /\ tokenFile' = tokenFile
        /\ x.op = "set" => x.value = t /\ t # NoToken
        /\ \/ keyring' = keyring /\ (x.op = "set" => ~Works("keyring"))
           \/ keyring' = [keyring EXCEPT ![k] = t] /\ x.op = "set" /\ Works("keyring")
    BY <1>1, <1>5, <2>1 DEF SetBegins, DeleteBegins, Enter, CommandInv, StoreTyped
  <2>4. x # NoCall => x.key \in Keys
    BY <2>1 DEF CommandInv, StoreTyped, CallRecord
  <2>5. Works("keyring")' = Works("keyring")
    BY <1>1 DEF Works
  <2>6. x # NoCall => Good(x)'
    <3>1. CASE Works("keyring")
      <4>1. x.inKeyring /\ (x.loaded = Unreadable \/ \A j \in Keys : x.loaded[j] = NoToken)
        BY <1>1, <2>2, <3>1 DEF StoreInv, LoadTokenFile
      <4>2. x # NoCall /\ x.op = "set" => keyring'[x.key] # NoToken
        BY <1>2, <2>2, <2>3, <2>4, <3>1
      <4>3. QED
        BY <2>5, <3>1, <4>1, <4>2 DEF Good
    <3>2. CASE ~Works("keyring")
      <4>1. ~x.inKeyring /\ x.loaded \in {tokenFile, Unreadable}
        BY <2>2, <3>2 DEF LoadTokenFile
      <4>2. QED
        BY <2>3, <2>5, <3>2, <4>1 DEF Good
    <3>3. QED
      BY <3>1, <3>2
  <2>7. ASSUME NEW d \in Commands, call'[d] # NoCall PROVE \E y : call'[d] = y /\ Good(y)'
    <3>1. CASE d = c
      BY <2>1, <2>6, <2>7, <3>1
    <3>2. CASE d # c
      <4>1. PICK y : y = call[d]
        OBVIOUS
      <4>2. call'[d] = y /\ y # NoCall /\ Good(y) /\ y.key \in Keys
        BY <1>1, <1>3, <2>7, <3>2, <4>1, ProcTyped DEF StoreInv, CallRecord
      <4>3. keyring[y.key] # NoToken => keyring'[y.key] # NoToken
        BY <1>2, <2>2, <2>3, <2>4, <4>2
      <4>4. QED
        BY <1>1, <2>3, <2>5, <4>2, <4>3 DEF Good
    <3>3. QED
      BY <3>1, <3>2
  <2>8. (\A d \in Commands : call[d] # NoCall => Good(call[d]))'
    BY <2>7 DEF Good
  <2>9. QED
    BY <1>1, <2>3, <2>5, <2>8 DEF StoreInv
<1>6. ASSUME NEW ok, CallEnds(c, ok) PROVE StoreInv'
  <2>1. PICK x : x = call[c]
    OBVIOUS
  <2>2. /\ x # NoCall /\ x.key \in Keys
        /\ Works("keyring") =>
             /\ \A k \in Keys : tokenFile'[k] = NoToken
             /\ keyring' = IF x.op = "delete" THEN [keyring EXCEPT ![x.key] = NoToken] ELSE keyring
    BY <1>1, <1>6, <2>1, CallEndsGood
  <2>3. call'[c] = NoCall /\ Works("keyring")' = Works("keyring")
    BY <1>1, <1>6, CallsEndTyped, ProcTyped DEF Works, CommandInv, StoreTyped
  <2>4. ASSUME NEW d \in Commands, call'[d] # NoCall PROVE \E y : call'[d] = y /\ Good(y)'
    <3>1. PICK y : y = call[d]
      OBVIOUS
    <3>2. d # c /\ call'[d] = y /\ y # NoCall /\ Good(y) /\ y.key \in Keys
      BY <1>1, <1>3, <2>3, <2>4, <3>1, ProcTyped DEF StoreInv, CallRecord
    <3>3. Works("keyring") /\ (x.key = y.key => y.key.acct \notin Uncontested)
      BY <1>1, <2>1, <2>2, <3>1, <3>2, CallsApart
    <3>4. y.key.acct \in Uncontested' => keyring'[y.key] = keyring[y.key]
      BY <1>1, <1>2, <2>2, <3>2, <3>3
    <3>5. QED
      BY <1>1, <2>3, <3>2, <3>3, <3>4 DEF Good
  <2>5. (\A d \in Commands : call[d] # NoCall => Good(call[d]))'
    BY <2>4 DEF Good
  <2>6. QED
    BY <1>1, <2>2, <2>3, <2>5 DEF StoreInv
<1>7. QED
  BY <1>1, <1>4, <1>5, <1>6, StoreSteps DEF StoreStep

\* What a command's call makes of a credential that is held.
LEMMA HeldStays ==
  ASSUME ResolveInv, NEW c \in Commands, Acts(c), NEW k \in Keys, k.acct \in Uncontested, Held(k)
  PROVE  Held(k)' \/ Drops(c, k)
<1>1. /\ CommandInv /\ broken' = broken /\ StoreInv
      /\ keyring \in [Keys -> Entry] /\ tokenFile \in [Keys -> Entry]
  BY ActsContest DEF ResolveInv, KeepInv, Uncontested, CommandInv, StoreTyped
<1>2. Works("keyring")' = Works("keyring")
  BY <1>1 DEF Works
<1>3. CASE keyring' = keyring /\ tokenFile' = tokenFile
  BY <1>1, <1>3 DEF Held, Works
<1>4. ASSUME NEW j, NEW t, (SetBegins(c, j, t) /\ t # NoToken) \/ DeleteBegins(c, j) PROVE Held(k)'
  <2>1. /\ tokenFile' = tokenFile
        /\ keyring' = keyring \/ (t # NoToken /\ keyring' = [keyring EXCEPT ![j] = t])
    BY <1>4 DEF SetBegins, DeleteBegins, Enter
  <2>2. keyring[k] # NoToken => keyring'[k] # NoToken
    BY <1>1, <2>1
  <2>3. QED
    BY <1>1, <1>2, <2>1, <2>2 DEF Held
<1>5. ASSUME NEW ok, CallEnds(c, ok) PROVE Held(k)' \/ Drops(c, k)
  <2>1. PICK x : x = call[c]
    OBVIOUS
  <2>2. PICK p : p = proc[c]
    OBVIOUS
  <2>3. /\ x # NoCall /\ x.key \in Keys /\ x.op \in {"set", "delete"}
        /\ Works("keyring") =>
             keyring' = IF x.op = "delete" THEN [keyring EXCEPT ![x.key] = NoToken] ELSE keyring
        /\ ~Works("keyring") => tokenFile' \in {tokenFile, [tokenFile EXCEPT ![x.key] = x.value]}
    BY <1>1, <1>5, <2>1, CallEndsGood
  <2>4. p \in Process /\ Shaped(p, x) /\ SoundProcess(p) /\ p.cmd \in {"login", "logout", "import"}
    BY <1>1, <2>1, <2>2, <2>3, ProcTyped, CallsOfCommands DEF ResolveInv
  <2>5. CASE x.key # k \/ x.op = "set"
    <3>1. x.op = "set" => x.value # NoToken
      BY <2>3, <2>4, CallsOfCommands
    <3>2. Works("keyring") => keyring'[k] = keyring[k]
      BY <1>1, <2>3, <2>5
    <3>3. ~Works("keyring") /\ tokenFile[k] # NoToken => tokenFile'[k] # NoToken
      BY <1>1, <2>3, <2>5, <3>1
    <3>4. QED
      BY <1>2, <3>2, <3>3 DEF Held
  <2>6. CASE x.key = k /\ x.op = "delete"
    <3>1. x.key.acct = p.acct /\ p.acct \in Concerns(p) /\ p.acct \in Account
      BY <2>3, <2>4, CallsOnOwnKeys, CallsOfCommands
    <3>2. p.cmd # "logout"
      BY <2>4, <2>6, <3>1 DEF SoundProcess, Uncontested
    <3>3. /\ p.cmd = "import" /\ p.phase = "undo" /\ p.journal # <<>>
          /\ LastOf(p).prior = NoToken /\ LastOf(p).key = k
      BY <2>3, <2>4, <2>6, <3>2, CallsOfCommands
    <3>4. QED
      BY <2>2, <3>3 DEF Drops
  <2>7. QED
    BY <2>3, <2>5, <2>6
<1>6. QED
  BY <1>1, <1>3, <1>4, <1>5, StoreSteps DEF StoreStep

\* What a call that succeeds has set is held.
LEMMA SetIsHeld ==
  ASSUME ResolveInv, NEW c \in Commands, Acts(c), CallEnds(c, TRUE), Uncontested # {},
         NEW x, x = call[c], x.op = "set", x.key.acct \in Uncontested
  PROVE  Held(x.key)'
<1>1. CommandInv /\ broken' = broken /\ StoreInv
  BY ActsContest DEF ResolveInv, KeepInv
<1>2. /\ x # NoCall /\ x.key \in Keys
      /\ Works("keyring") => keyring' = keyring
      /\ ~Works("keyring") /\ x.value # NoToken => tokenFile'[x.key] = x.value
  BY <1>1, CallEndsGood
<1>3. Good(x) /\ x.value # NoToken
  BY <1>1, <1>2, ProcTyped, CallsOfCommands DEF StoreInv
<1>4. Works("keyring")' = Works("keyring")
  BY <1>1 DEF Works
<1>5. QED
  BY <1>2, <1>3, <1>4 DEF Good, Held

(***************************************************************************)
(* A configuration stays sound while a command acts, unless it names what  *)
(* the command deletes.                                                    *)
(***************************************************************************)
LEMMA KeysTyped ==
  ASSUME NEW conf \in Config, NEW id \in Machines, conf.profiles[id] # NoProfile
  PROVE  /\ TokenKey(conf, id) \in Keys
         /\ TokenKey(conf, id).acct = conf.profiles[id].acct /\ conf.profiles[id].acct \in Account
<1>1. conf.profiles[id] \in Profile
  BY DEF Config
<1>2. QED
  BY <1>1, KeysAreKeys DEF TokenKey, Profile

LEMMA SoundStays ==
  ASSUME ResolveInv, NEW c \in Commands, Acts(c), NEW conf \in Config, NEW S, Sound(conf, S),
         \A k \in Keys : k.acct \in Uncontested /\ NamesKey(conf, k) => ~Drops(c, k)
  PROVE  Sound(conf, S)'
<1>1. Uncontested' \subseteq Uncontested
  BY ActsContest DEF ResolveInv, KeepInv, Uncontested
<1>2. ASSUME NEW id \in Machines, conf.profiles[id] # NoProfile, conf.profiles[id].acct \in Uncontested',
             NEW k, k = TokenKey(conf, id)
      PROVE  conf.profiles[id].acct \in conf.accounts /\ (Held(k)' \/ k \in S)
  <2>1. k \in Keys /\ k.acct \in Uncontested /\ NamesKey(conf, k)
    BY <1>1, <1>2, KeysTyped DEF NamesKey
  <2>2. conf.profiles[id].acct \in conf.accounts /\ (Held(k) \/ k \in S)
    BY <1>1, <1>2 DEF Sound
  <2>3. QED
    BY <2>1, <2>2, HeldStays
<1>3. QED
  BY <1>2 DEF Sound, TokenKey

\* What is sound, but for what is done to an account and the profiles of one.
LEMMA SoundGoesOn ==
  ASSUME NEW conf \in Config, NEW next \in Config, NEW S, Sound(conf, S)',
         \A a \in Uncontested' : a \in conf.accounts => a \in next.accounts,
         \A id \in Machines :
           next.profiles[id] # NoProfile /\ next.profiles[id].acct \in Uncontested' =>
             \/ next.profiles[id] = conf.profiles[id]
             \/ /\ next.profiles[id].acct \in next.accounts
                /\ \E k : k = TokenKey(next, id) /\ (Held(k)' \/ k \in S)
  PROVE  Sound(next, S)'
<1>1. ASSUME NEW id \in Machines, next.profiles[id] # NoProfile, next.profiles[id].acct \in Uncontested',
             NEW k, k = TokenKey(next, id)
      PROVE  next.profiles[id].acct \in next.accounts /\ (Held(k)' \/ k \in S)
  <2>1. CASE next.profiles[id] = conf.profiles[id]
    <3>1. TokenKey(conf, id) = k
      BY <1>1, <2>1 DEF TokenKey
    <3>2. conf.profiles[id].acct \in conf.accounts /\ (Held(k)' \/ k \in S)
      BY <1>1, <2>1, <3>1 DEF Sound
    <3>3. QED
      BY <1>1, <2>1, <3>2
  <2>2. QED
    BY <1>1, <2>1
<1>2. QED
  BY <1>1 DEF Sound, TokenKey

(***************************************************************************)
(* What a step of a command makes of its process p, q: what it may save    *)
(* stays sound, but for what an import has still to write, and names new   *)
(* keys of its own account only; what it will delete if it is undone was   *)
(* not held when it wrote it.                                              *)
(***************************************************************************)
Wrote(p, q, e) ==
  /\ e.key.acct = q.acct
  /\ e.prior = NoToken =>
       \/ e.key \in Keys /\ ~Held(e.key)
       \/ /\ p.cmd = "import" /\ p.phase \in Journaling /\ p.acct = q.acct
          /\ \E i \in DOMAIN p.journal : p.journal[i] = e

Carries(p, q) ==
  /\ q.phase \in Underway => q.old = config \/ (p.phase \in Underway /\ q.old = p.old)
  /\ q.phase \in ToSave =>
       /\ Sound(q.conf, Pending(q))'
       /\ \A k \in Keys : NamesKey(q.conf, k) =>
            k.acct = q.acct \/ NamesKey(config, k) \/ (p.phase \in ToSave /\ NamesKey(p.conf, k))
  /\ q.cmd = "login" /\ q.phase = "servers" /\ q.acct \in Uncontested' =>
       q.acct \in q.conf.accounts /\ Held(AccountKey(q.acct))'
  /\ q.cmd = "import" /\ q.phase \in Journaling =>
       config' = config /\ \A i \in DOMAIN q.journal : Wrote(p, q, q.journal[i])

Goes(p, q) == Concerns(q) \cap Account \subseteq Concerns(p) /\ Carries(p, q)

LEMMA Quits ==
  ASSUME NEW p, NEW q, q.phase \notin Underway, Concerns(q) \cap Account \subseteq Concerns(p)
  PROVE  Goes(p, q)
BY DEF Goes, Carries, Underway, ToSave, Journaling

LEMMA EndQuits ==
  ASSUME CommandInv, NEW c \in Commands, End(c) \/ Fails(c), NEW p, p = proc[c], NEW q, q = proc'[c]
  PROVE  Goes(p, q)
<1>1. p \in Process /\ \A r : Become(c, r) => q = r
  BY Becomes
<1>2. CASE End(c)
  <2>1. CASE p.cmd = "logout"
    <3>1. q = [p EXCEPT !.phase = "ended", !.conf = EmptyConfig]
      BY <1>1, <1>2, <2>1 DEF End
    <3>2. q.phase = "ended" /\ Concerns(q) = Concerns(p)
      BY <1>1, <3>1 DEF Process, Concerns
    <3>3. QED
      BY <3>2, Quits DEF Underway
  <2>2. CASE p.cmd # "logout"
    <3>1. q = [Idle EXCEPT !.phase = "ended"]
      BY <1>1, <1>2, <2>2 DEF End
    <3>2. q.phase = "ended" /\ q.names = {} /\ q.acct = NoAccount
      BY <3>1 DEF Idle
    <3>3. QED
      BY <3>2, Quits, AccountsAssumption DEF Underway, Concerns
  <2>3. QED
    BY <2>1, <2>2
<1>3. CASE p.cmd = "import" /\ Goto(c, "failed")
  <2>1. q = [p EXCEPT !.phase = "failed"]
    BY <1>1, <1>3 DEF Goto
  <2>2. q.phase = "failed" /\ Concerns(q) = Concerns(p)
    BY <1>1, <2>1 DEF Process, Concerns
  <2>3. QED
    BY <2>2, Quits DEF Underway
<1>4. QED
  BY <1>2, <1>3 DEF Fails

LEMMA NoAccountConcerned == NoAccount \notin Account
BY AccountsAssumption

\* What the command has in memory, and what it adds to, unless it is undoing.
LEMMA InMemory ==
  ASSUME ResolveInv, NEW c \in Commands, Acts(c), Uncontested' # {}, NEW p, p = proc[c],
         p.phase \in ToSave
  PROVE  /\ p \in Process /\ Sound(p.conf, Pending(p))'
         /\ p.cmd = "login" /\ p.phase = "servers" /\ p.acct \in Uncontested' =>
              p.acct \in p.conf.accounts /\ Held(AccountKey(p.acct))'
<1>1. CommandInv /\ Uncontested' \subseteq Uncontested /\ p \in Process /\ Shaped(p, call[c])
  BY ActsContest, ProcTyped DEF ResolveInv, KeepInv, Uncontested
<1>2. SoundProcess(p)
  BY <1>1 DEF ResolveInv
<1>3. \A k : ~Drops(c, k)
  BY DEF Drops, ToSave
<1>4. p.conf \in Config /\ Sound(p.conf, Pending(p))
  BY <1>1, <1>2 DEF SoundProcess, Process
<1>5. PICK conf, S : conf = p.conf /\ S = Pending(p)
  OBVIOUS
<1>6. Sound(conf, S)'
  BY <1>3, <1>4, <1>5, SoundStays
<1>7. Sound(p.conf, Pending(p))'
  BY <1>5, <1>6 DEF Sound, Pending, ToWrite, Journaled, LastOf
<1>8. ASSUME p.cmd = "login", p.phase = "servers", p.acct \in Uncontested'
      PROVE  p.acct \in p.conf.accounts /\ Held(AccountKey(p.acct))'
  <2>1. p.acct \in p.conf.accounts /\ Held(AccountKey(p.acct))
    BY <1>1, <1>2, <1>8 DEF SoundProcess
  <2>2. PICK k : k = AccountKey(p.acct)
    OBVIOUS
  <2>3. k \in Keys /\ k.acct \in Uncontested
    BY <1>1, <1>8, <2>2, KeysAreKeys DEF Uncontested, Shaped
  <2>4. Held(k)'
    BY <1>3, <2>1, <2>2, <2>3, HeldStays
  <2>5. QED
    BY <2>1, <2>2, <2>4 DEF Held, AccountKey
<1>9. QED
  BY <1>1, <1>7, <1>8

LEMMA OnDisk ==
  ASSUME ResolveInv, NEW c \in Commands, Acts(c), Uncontested' # {}, proc[c].phase # "undo",
         NEW conf, conf = config
  PROVE  conf \in Config /\ Sound(conf, {})'
<1>1. conf \in Config /\ Sound(conf, {})
  BY ActsContest, ProcTyped DEF ResolveInv, KeepInv, Uncontested
<1>2. QED
  BY <1>1, SoundStays DEF Drops

LEMMA GoesOn ==
  ASSUME NEW p \in Process, NEW q, p.phase \in Underway,
         q.old = p.old, q.acct = p.acct, q.names = p.names, q.cmd = p.cmd,
         q.phase \in ToSave =>
           /\ p.phase \in ToSave /\ Sound(q.conf, Pending(q))'
           /\ \A k \in Keys : NamesKey(q.conf, k) => k.acct = q.acct \/ NamesKey(p.conf, k),
         q.cmd = "login" /\ q.phase = "servers" /\ q.acct \in Uncontested' =>
           q.acct \in q.conf.accounts /\ Held(AccountKey(q.acct))',
         q.cmd = "import" /\ q.phase \in Journaling =>
           /\ config' = config /\ p.phase \in Journaling /\ SoundProcess(p)
           /\ \A i \in DOMAIN q.journal : \E j \in DOMAIN p.journal : p.journal[j] = q.journal[i]
  PROVE  Goes(p, q)
<1>1. Concerns(q) \cap Account \subseteq Concerns(p)
  BY DEF Concerns
<1>2. ASSUME q.cmd = "import", q.phase \in Journaling
      PROVE  \A i \in DOMAIN q.journal : Wrote(p, q, q.journal[i])
  BY <1>2 DEF Wrote, SoundProcess
<1>3. QED
  BY <1>1, <1>2 DEF Goes, Carries

\* The command begins a call.
LEMMA RemainsGoing ==
  ASSUME ResolveInv, NEW c \in Commands, Acts(c), Uncontested' # {}, NEW p, p = proc[c],
         p.phase \in Underway, config' = config
  PROVE  Goes(p, p)
<1>1. p \in Process /\ SoundProcess(p)
  BY ActsContest, ProcTyped DEF ResolveInv, KeepInv, Uncontested
<1>2. p.phase = "servers" => p.phase \in ToSave
  BY DEF ToSave
<1>3. QED
  BY <1>1, <1>2, InMemory, GoesOn

\* A login, a logout or an edit loads the configuration.
LEMMA LoadsGoes ==
  ASSUME ResolveInv, NEW c \in Commands, Acts(c), Uncontested' # {}, proc[c].phase # "undo",
         NEW p, NEW q, q.conf \in Config, q.cmd # "import", q.phase \in {"account", "save"},
         q.old = config, Concerns(q) \cap Account \subseteq Concerns(p),
         q.conf.profiles = config.profiles, q.conf.accounts = config.accounts
  PROVE  Goes(p, q)
<1>1. PICK conf : conf = config
  OBVIOUS
<1>2. conf \in Config /\ Sound(conf, {})'
  BY <1>1, OnDisk
<1>3. PICK next : next = q.conf
  OBVIOUS
<1>4. Sound(next, {})'
  BY <1>1, <1>2, <1>3 DEF Sound, TokenKey
<1>5. Pending(q) = {}
  BY DEF Pending
<1>6. Sound(q.conf, Pending(q))'
  <2>1. PICK S : S = Pending(q)
    OBVIOUS
  <2>2. Sound(next, S)'
    BY <1>4, <1>5, <2>1
  <2>3. QED
    BY <1>3, <2>1, <2>2 DEF Sound, Pending, ToWrite, Journaled, LastOf
<1>7. \A k : NamesKey(q.conf, k) => NamesKey(config, k)
  BY DEF NamesKey, TokenKey
<1>8. QED
  BY <1>6, <1>7 DEF Goes, Carries, Journaling, Underway, ToSave

\* A profile is added for a credential that is held.
LEMMA AddServerGoes ==
  ASSUME ResolveInv, NEW c \in Commands, Acts(c), Uncontested' # {}, NEW p, p = proc[c],
         p.cmd = "login", p.phase = "servers", NEW id \in Machines, AddServer(c, id), NEW q, q = proc'[c],
         NEW k, k = (IF id \in p.own THEN ServerKey(p.acct, id) ELSE AccountKey(p.acct)),
         p.acct \in Uncontested' /\ id \in p.own => Held(k)'
  PROVE  Goes(p, q)
<1>1. /\ p \in Process /\ p.acct \in Account /\ CommandInv
      /\ p.phase \in ToSave /\ p.phase \in Underway
  BY ProcTyped DEF ResolveInv, KeepInv, Shaped, ToSave, Underway
<1>2. /\ Sound(p.conf, Pending(p))'
      /\ p.acct \in Uncontested' => p.acct \in p.conf.accounts /\ Held(AccountKey(p.acct))'
  BY <1>1, InMemory
<1> DEFINE next == [WithProfiles(p.conf, p.acct, {id}, p.own) EXCEPT !.curServer = FirstServer(p.conf, {id}, id)]
<1>3. q = [p EXCEPT !.found = @ \ {id}, !.conf = next]
  BY <1>1, Becomes DEF AddServer
<1>4. next \in Config /\ next.accounts = p.conf.accounts
      /\ next.profiles = [jd \in Machines |-> IF jd \in {id} THEN [acct |-> p.acct, own |-> jd \in p.own]
                                              ELSE p.conf.profiles[jd]]
  <2>1. p.conf \in Config /\ {id} \in SUBSET Machines /\ p.own \in SUBSET Machines /\ id \in {id}
    BY <1>1 DEF Process
  <2>2. WithProfiles(p.conf, p.acct, {id}, p.own) \in Config
    BY <1>1, <2>1, ConfigsTyped
  <2>3. FirstServer(p.conf, {id}, id) \in Machines \cup {NoMachine}
    BY <1>1, <2>1, ConfigsTyped
  <2>4. QED
    BY <2>1, <2>2, <2>3 DEF WithProfiles, Config
<1> HIDE DEF next
<1>5. /\ q.conf = next /\ q.old = p.old /\ q.acct = p.acct /\ q.names = p.names
      /\ q.cmd = p.cmd /\ q.phase = p.phase
  BY <1>1, <1>3 DEF Process
<1>6. Pending(p) = {} /\ Pending(q) = {}
  BY <1>5 DEF Pending
<1>7. PICK conf, new : conf = p.conf /\ new = next
  OBVIOUS
<1>8. conf \in Config /\ new \in Config /\ Sound(conf, {})'
  <2>1. PICK S : S = Pending(p)
    OBVIOUS
  <2>2. Sound(conf, S)'
    BY <1>2, <1>7, <2>1 DEF Sound, Pending, ToWrite, Journaled, LastOf
  <2>3. S = {} /\ p.conf \in Config
    BY <1>1, <1>6, <2>1 DEF Process
  <2>4. QED
    BY <1>4, <1>7, <2>2, <2>3
<1>9. new.profiles[id] = [acct |-> p.acct, own |-> id \in p.own] /\ TokenKey(new, id) = k
  <2>1. new.profiles[id] = [acct |-> p.acct, own |-> id \in p.own]
    BY <1>4, <1>7
  <2>2. PICK b \in BOOLEAN : b = (id \in p.own)
    <3>1. (id \in p.own) \in BOOLEAN
      OBVIOUS
    <3>2. QED
      BY <3>1
  <2>3. new.profiles[id] = [acct |-> p.acct, own |-> b]
    BY <2>1, <2>2
  <2>4. new.profiles[id].acct = p.acct /\ new.profiles[id].own = b
    BY <2>3
  <2>5. TokenKey(new, id) = IF new.profiles[id].own THEN ServerKey(new.profiles[id].acct, id)
                            ELSE AccountKey(new.profiles[id].acct)
    BY DEF TokenKey
  <2>6. QED
    BY <2>1, <2>2, <2>4, <2>5
<1>10. p.acct \in Uncontested' => Held(k)'
  BY <1>2 DEF Held, AccountKey
<1>11. \A jd \in Machines : jd # id => new.profiles[jd] = conf.profiles[jd]
  BY <1>4, <1>7
<1>12. Sound(new, {})'
  <2>1. \A jd \in Machines : new.profiles[jd] # NoProfile /\ new.profiles[jd].acct \in Uncontested' =>
          \/ new.profiles[jd] = conf.profiles[jd]
          \/ /\ new.profiles[jd].acct \in new.accounts
             /\ \E j : j = TokenKey(new, jd) /\ (Held(j)' \/ j \in {})
    <3> SUFFICES ASSUME NEW jd \in Machines, new.profiles[jd].acct \in Uncontested', jd = id
                 PROVE  /\ new.profiles[jd].acct \in new.accounts
                        /\ \E j : j = TokenKey(new, jd) /\ Held(j)'
      BY <1>11
    <3>1. new.profiles[jd].acct = p.acct
      BY <1>9
    <3>2. new.accounts = p.conf.accounts
      BY <1>4, <1>7
    <3>3. QED
      BY <1>2, <1>9, <1>10, <3>1, <3>2
  <2>2. new.accounts = conf.accounts
    BY <1>4, <1>7
  <2>3. QED
    BY <1>8, <2>1, <2>2, SoundGoesOn
<1>13. Sound(q.conf, Pending(q))'
  <2>1. PICK S : S = Pending(q)
    OBVIOUS
  <2>2. Sound(new, S)'
    BY <1>6, <1>12, <2>1
  <2>3. QED
    BY <1>5, <1>7, <2>1, <2>2 DEF Sound, Pending, ToWrite, Journaled, LastOf
<1>14. ASSUME NEW j \in Keys, NamesKey(q.conf, j) PROVE j.acct = q.acct \/ NamesKey(p.conf, j)
  <2>1. PICK jd \in Machines : new.profiles[jd] # NoProfile /\ TokenKey(new, jd) = j
    BY <1>5, <1>7, <1>14 DEF NamesKey
  <2>2. CASE jd = id
    <3>1. j = k
      BY <1>9, <2>1, <2>2
    <3>2. k.acct = p.acct
      BY DEF ServerKey, AccountKey
    <3>3. QED
      BY <1>5, <3>1, <3>2
  <2>3. CASE jd # id
    <3>1. conf.profiles[jd] # NoProfile /\ TokenKey(conf, jd) = j
      BY <1>11, <2>1, <2>3 DEF TokenKey
    <3>2. QED
      BY <1>7, <3>1 DEF NamesKey
  <2>4. QED
    BY <2>2, <2>3
<1>15. q.acct \in Uncontested' => q.acct \in q.conf.accounts /\ Held(AccountKey(q.acct))'
  BY <1>2, <1>4, <1>5 DEF Held, AccountKey
<1>16. QED
  BY <1>1, <1>5, <1>13, <1>14, <1>15, GoesOn

LEMMA LoginGoes ==
  ASSUME ResolveInv, NEW c \in Commands, LoginSteps(c), Uncontested' # {},
         NEW p, p = proc[c], NEW q, q = proc'[c]
  PROVE  Goes(p, q)
<1>1. /\ Acts(c) /\ CommandInv /\ p \in Process /\ Shaped(p, call[c]) /\ SoundProcess(p)
      /\ Uncontested # {} /\ Uncontested' \subseteq Uncontested
  <2>1. Acts(c) /\ CommandInv
    BY DEF Acts, ResolveInv, KeepInv
  <2>2. QED
    BY <2>1, ActsContest, ProcTyped DEF ResolveInv, Uncontested
<1>2. \A r : Become(c, r) => q = r
  BY <1>1, Becomes
<1>3. p.cmd = "login" /\ p.phase \in {"plex", "account", "servers"} /\ p.acct \in Account
  <2>1. p.cmd = "login" /\ p.phase \in {"plex", "account", "servers"}
    BY DEF LoginSteps, LoginLoads, LoginAccount, LoginAccountStored, LoginServer, LoginServerStored,
           LoginStored, At, Calling
  <2>2. QED
    BY <1>1, <2>1 DEF Shaped
<1>4. CASE LoginLoads(c)
  <2> DEFINE r == [p EXCEPT !.phase = "account"]
  <2>1. PICK d \in Discoveries[p.acct] : Loads(c, Finds(r, d), config) /\ Discovers(p.acct, d)
    BY <1>4 DEF LoginLoads
  <2>2. r \in Process /\ r.phase = "account" /\ r.cmd = "login" /\ r.acct = p.acct /\ r.names = p.names
    BY <1>1, <1>3 DEF Process, Phases
  <2> HIDE DEF r
  <2>3. /\ Finds(r, d) \in Process /\ Finds(r, d).phase = "account" /\ Finds(r, d).cmd = "login"
        /\ Finds(r, d).acct = p.acct /\ Finds(r, d).names = p.names
    BY <1>3, <2>1, <2>2, FindsTyped DEF Discovers
  <2>4. PICK s : s = Finds(r, d)
    OBVIOUS
  <2>5. q = [s EXCEPT !.conf = config, !.old = config] /\ s \in Process
    BY <1>2, <2>1, <2>3, <2>4 DEF Loads
  <2>6. /\ q.conf = config /\ q.old = config /\ q.phase = "account" /\ q.cmd = "login"
        /\ Concerns(q) = Concerns(p)
    BY <2>3, <2>4, <2>5 DEF Process, Concerns
  <2>7. config \in Config /\ p.phase = "plex"
    BY <1>1, <1>4, ProcTyped DEF LoginLoads, At
  <2>8. QED
    BY <1>1, <2>6, <2>7, LoadsGoes
<1>5. ASSUME UNCHANGED proc, Writes(c), p.phase \in {"account", "servers"} PROVE Goes(p, q)
  <2>1. q = p /\ config' = config /\ p.phase \in Underway
    BY <1>5 DEF Writes, Underway
  <2>2. QED
    BY <1>1, <2>1, RemainsGoing
<1>6. CASE LoginAccount(c)
  BY <1>5, <1>6 DEF LoginAccount, At
<1>7. CASE LoginAccountStored(c)
  <2>1. PICK ok \in BOOLEAN :
          /\ CallEnds(c, ok)
          /\ IF ok THEN Become(c, [p EXCEPT !.phase = "servers", !.conf.accounts = @ \cup {p.acct}])
             ELSE Fails(c)
    BY <1>7 DEF LoginAccountStored
  <2>2. CASE ~ok
    BY <1>1, <2>1, <2>2, EndQuits
  <2>3. CASE ok
    <3>1. PICK x : x = call[c]
      OBVIOUS
    <3>2. p.phase = "account" /\ x # NoCall /\ config' = config
      BY <1>7, <3>1 DEF LoginAccountStored, Calling, Writes
    <3>3. x.op = "set" /\ x.key = AccountKey(p.acct)
      BY <1>1, <1>3, <3>1, <3>2 DEF Shaped, CallFits, Sets
    <3>4. p.acct \in Uncontested' => Held(AccountKey(p.acct))'
      <4>1. ok = TRUE /\ x.key.acct = p.acct
        BY <2>3, <3>3, <1>3, KeysAreKeys
      <4>2. p.acct \in Uncontested' => Held(x.key)'
        BY <1>1, <2>1, <3>1, <3>3, <4>1, SetIsHeld
      <4>3. QED
        BY <3>3, <4>2 DEF Held, AccountKey
    <3>5. q = [p EXCEPT !.phase = "servers", !.conf.accounts = @ \cup {p.acct}]
      BY <1>2, <2>1, <2>3
    <3>6. /\ q.conf.profiles = p.conf.profiles /\ q.conf.accounts = p.conf.accounts \cup {p.acct}
          /\ q.phase = "servers" /\ q.old = p.old /\ q.acct = p.acct /\ q.names = p.names /\ q.cmd = p.cmd
      BY <1>1, <3>5 DEF Process, Config
    <3>7. p.phase \in ToSave /\ p.phase \in Underway
      BY <3>2 DEF ToSave, Underway
    <3>8. Sound(q.conf, Pending(q))'
      <4>1. PICK conf, next, S, T : conf = p.conf /\ next = q.conf /\ S = Pending(p) /\ T = Pending(q)
        OBVIOUS
      <4>2. Sound(conf, S)'
        <5>1. Sound(p.conf, Pending(p))'
          BY <1>1, <3>7, InMemory
        <5>2. QED
          BY <4>1, <5>1 DEF Sound, Pending, ToWrite, Journaled, LastOf
      <4>3. S = T
        BY <1>3, <3>6, <4>1 DEF Pending
      <4>4. next.profiles = conf.profiles /\ conf.accounts \subseteq next.accounts
        BY <3>6, <4>1
      <4>5. Sound(next, T)'
        BY <4>2, <4>3, <4>4 DEF Sound, TokenKey
      <4>6. QED
        BY <4>1, <4>5 DEF Sound, Pending, ToWrite, Journaled, LastOf
    <3>9. \A k : NamesKey(q.conf, k) => NamesKey(p.conf, k)
      BY <3>6 DEF NamesKey, TokenKey
    <3>10. q.acct \in Uncontested' => q.acct \in q.conf.accounts /\ Held(AccountKey(q.acct))'
      BY <3>4, <3>6 DEF Held, AccountKey
    <3>11. QED
      BY <1>1, <1>3, <3>6, <3>7, <3>8, <3>9, <3>10, GoesOn
  <2>4. QED
    BY <2>2, <2>3
<1>8. CASE LoginServer(c)
  <2>1. p.phase = "servers"
    BY <1>8 DEF LoginServer, At
  <2>2. PICK id \in p.found :
          \/ Writes(c) /\ UNCHANGED proc
          \/ id \notin p.own /\ AddServer(c, id)
    BY <1>8 DEF LoginServer
  <2>3. CASE Writes(c) /\ UNCHANGED proc
    BY <1>5, <2>1, <2>3
  <2>4. CASE id \notin p.own /\ AddServer(c, id)
    <3>1. id \in Machines
      BY <1>1 DEF Process
    <3>2. QED
      BY <1>1, <1>3, <2>1, <2>4, <3>1, AddServerGoes
  <2>5. QED
    BY <2>2, <2>3, <2>4
<1>9. CASE LoginServerStored(c)
  <2>1. PICK x : x = call[c]
    OBVIOUS
  <2>2. p.phase = "servers" /\ x # NoCall
    BY <1>9, <2>1 DEF LoginServerStored, Calling
  <2>3. PICK ok \in BOOLEAN : CallEnds(c, ok) /\ (IF ok THEN AddServer(c, x.key.id) ELSE Fails(c))
    BY <1>9, <2>1 DEF LoginServerStored
  <2>4. CASE ~ok
    BY <1>1, <2>3, <2>4, EndQuits
  <2>5. CASE ok
    <3>1. PICK id \in p.found \cap p.own : Sets(x, ServerKey(p.acct, id), p.token)
      BY <1>1, <1>3, <2>1, <2>2 DEF Shaped, CallFits
    <3>2. id \in Machines /\ id \in p.own
      BY <1>1, <3>1 DEF Process
    <3>3. x.op = "set" /\ x.key = ServerKey(p.acct, id)
      BY <3>1 DEF Sets
    <3>4. x.key.id = id /\ x.key.acct = p.acct
      BY <1>3, <3>2, <3>3, KeysAreKeys
    <3>5. p.acct \in Uncontested' => Held(x.key)'
      BY <1>1, <2>1, <2>3, <2>5, <3>3, <3>4, SetIsHeld
    <3>6. AddServer(c, id)
      BY <2>3, <2>5, <3>4
    <3>7. PICK k : k = x.key
      OBVIOUS
    <3>8. p.acct \in Uncontested' => Held(k)'
      BY <3>5, <3>7
    <3>9. QED
      BY <1>1, <1>3, <2>2, <3>2, <3>3, <3>6, <3>7, <3>8, AddServerGoes
  <2>6. QED
    BY <2>4, <2>5
<1>10. CASE LoginStored(c)
  <2> DEFINE a == IF p.conf.curAccount = NoAccount THEN p.acct ELSE p.conf.curAccount
  <2>1. p.phase = "servers" /\ q = [p EXCEPT !.phase = "save", !.conf.curAccount = a] /\ config' = config
    BY <1>2, <1>10 DEF LoginStored, At, Local
  <2> HIDE DEF a
  <2>2. /\ q.conf.profiles = p.conf.profiles /\ q.conf.accounts = p.conf.accounts
        /\ q.phase = "save" /\ q.old = p.old /\ q.acct = p.acct /\ q.names = p.names /\ q.cmd = p.cmd
    BY <1>1, <2>1 DEF Process, Config
  <2>3. p.phase \in ToSave /\ p.phase \in Underway
    BY <2>1 DEF ToSave, Underway
  <2>4. Sound(q.conf, Pending(q))'
    <3>1. PICK conf, next, S, T : conf = p.conf /\ next = q.conf /\ S = Pending(p) /\ T = Pending(q)
      OBVIOUS
    <3>2. Sound(conf, S)'
      <4>1. Sound(p.conf, Pending(p))'
        BY <1>1, <2>3, InMemory
      <4>2. QED
        BY <3>1, <4>1 DEF Sound, Pending, ToWrite, Journaled, LastOf
    <3>3. S = T
      BY <1>3, <2>2, <3>1 DEF Pending
    <3>4. next.profiles = conf.profiles /\ conf.accounts = next.accounts
      BY <2>2, <3>1
    <3>5. Sound(next, T)'
      BY <3>2, <3>3, <3>4 DEF Sound, TokenKey
    <3>6. QED
      BY <3>1, <3>5 DEF Sound, Pending, ToWrite, Journaled, LastOf
  <2>5. \A k : NamesKey(q.conf, k) => NamesKey(p.conf, k)
    BY <2>2 DEF NamesKey, TokenKey
  <2>6. QED
    BY <1>1, <1>3, <2>2, <2>3, <2>4, <2>5, GoesOn
<1>11. QED
  BY <1>4, <1>6, <1>7, <1>8, <1>9, <1>10 DEF LoginSteps

\* A logout forgets its account, which is contested, and profiles.
LEMMA ForgetsGoes ==
  ASSUME ResolveInv, NEW c \in Commands, Acts(c), Uncontested' # {}, NEW p, p = proc[c], NEW q,
         p.cmd = "logout", p.phase \in {"account", "servers"}, q.phase \in {"servers", "save"},
         q.old = p.old, q.acct = p.acct, q.names = p.names, q.cmd = p.cmd, q.conf \in Config,
         \A a \in Account \ {p.acct} : a \in p.conf.accounts => a \in q.conf.accounts,
         \A id \in Machines : q.conf.profiles[id] \in {p.conf.profiles[id], NoProfile}
  PROVE  Goes(p, q)
<1>1. /\ CommandInv /\ p \in Process /\ p.phase \in ToSave /\ p.phase \in Underway
      /\ Uncontested' \subseteq Uncontested /\ p.acct \in Account /\ SoundProcess(p)
  BY ActsContest, ProcTyped DEF ResolveInv, KeepInv, Uncontested, Shaped, ToSave, Underway
<1>2. p.acct \notin Uncontested' /\ Uncontested' \subseteq Account
  BY <1>1 DEF SoundProcess, Concerns, Uncontested
<1>3. PICK conf, next, S, T : conf = p.conf /\ next = q.conf /\ S = Pending(p) /\ T = Pending(q)
  OBVIOUS
<1>4. Sound(conf, S)'
  <2>1. Sound(p.conf, Pending(p))'
    BY <1>1, InMemory
  <2>2. QED
    BY <1>3, <2>1 DEF Sound, Pending, ToWrite, Journaled, LastOf
<1>5. S = T
  BY <1>3 DEF Pending
<1>6. conf \in Config /\ next \in Config
  BY <1>1, <1>3 DEF Process
<1>7. Sound(next, T)'
  <2>1. \A a \in Uncontested' : a \in conf.accounts => a \in next.accounts
    BY <1>2, <1>3
  <2>2. \A id \in Machines : next.profiles[id] # NoProfile => next.profiles[id] = conf.profiles[id]
    BY <1>3
  <2>3. QED
    BY <1>4, <1>5, <1>6, <2>1, <2>2, SoundGoesOn
<1>8. Sound(q.conf, Pending(q))'
  BY <1>3, <1>7 DEF Sound, Pending, ToWrite, Journaled, LastOf
<1>9. \A k : NamesKey(q.conf, k) => NamesKey(p.conf, k)
  BY DEF NamesKey, TokenKey
<1>10. QED
  BY <1>1, <1>8, <1>9, GoesOn

LEMMA LogoutGoes ==
  ASSUME ResolveInv, NEW c \in Commands, LogoutSteps(c), Uncontested' # {},
         NEW p, p = proc[c], NEW q, q = proc'[c]
  PROVE  Goes(p, q)
<1>1. /\ Acts(c) /\ CommandInv /\ p \in Process /\ Shaped(p, call[c]) /\ config \in Config
  <2>1. Acts(c) /\ CommandInv
    BY DEF Acts, ResolveInv, KeepInv
  <2>2. QED
    BY <2>1, ProcTyped
<1>2. \A r : Become(c, r) => q = r
  BY <1>1, Becomes
<1>3. p.cmd = "logout" /\ p.phase \in {"load", "account", "servers"}
  BY DEF LogoutSteps, LogoutLoads, LogoutAccount, LogoutAccountDeleted, LogoutServer, LogoutServerDeleted,
         LogoutDeleted, At, Calling
<1>4. CASE LogoutLoads(c)
  <2>1. PICK a \in p.names :
         IF a \in config.accounts
         THEN Loads(c, [p EXCEPT !.phase = "account", !.acct = a,
                                !.found = ProfilesOf(config, a), !.seen = tokenFile], config)
         ELSE Fails(c)
    BY <1>4 DEF LogoutLoads
  <2>2. CASE a \notin config.accounts
    BY <1>1, <2>1, <2>2, EndQuits
  <2>3. CASE a \in config.accounts
    <3> DEFINE r == [p EXCEPT !.phase = "account", !.acct = a,
                          !.found = ProfilesOf(config, a), !.seen = tokenFile]
    <3>1. a \in Account /\ ProfilesOf(config, a) \in SUBSET Machines /\ tokenFile \in Read
      BY <1>1, <2>1, FileIsRead DEF Process, ProfilesOf
    <3>2. r \in Process /\ r.phase = "account" /\ r.cmd = "logout" /\ r.acct = a /\ r.names = p.names
      BY <1>1, <1>3, <3>1 DEF Process, Phases
    <3>3. q = [r EXCEPT !.conf = config, !.old = config]
      BY <1>2, <2>1, <2>3 DEF Loads
    <3> HIDE DEF r
    <3>4. /\ q.conf = config /\ q.old = config /\ q.phase = "account" /\ q.cmd = "logout"
          /\ q.acct = a /\ q.names = p.names
      BY <3>2, <3>3 DEF Process
    <3>5. Concerns(q) \cap Account \subseteq Concerns(p)
      BY <2>1, <3>4 DEF Concerns
    <3>6. QED
      BY <1>1, <1>3, <3>4, <3>5, LoadsGoes
  <2>4. QED
    BY <2>2, <2>3
<1>5. ASSUME UNCHANGED proc, Writes(c), p.phase \in {"account", "servers"} PROVE Goes(p, q)
  <2>1. q = p /\ config' = config /\ p.phase \in Underway
    BY <1>5 DEF Writes, Underway
  <2>2. QED
    BY <1>1, <2>1, RemainsGoing
<1>6. CASE LogoutAccount(c)
  BY <1>5, <1>6 DEF LogoutAccount, At
<1>7. CASE LogoutAccountDeleted(c)
  <2>1. PICK ok \in BOOLEAN :
         Become(c, [p EXCEPT !.phase = "servers", !.failed = ~ok,
                             !.conf.accounts = IF ok THEN @ \ {p.acct} ELSE @])
    BY <1>7 DEF LogoutAccountDeleted
  <2> DEFINE accts == IF ok THEN p.conf.accounts \ {p.acct} ELSE p.conf.accounts
  <2>2. q = [p EXCEPT !.phase = "servers", !.failed = ~ok, !.conf.accounts = accts]
    BY <1>2, <2>1
  <2>3. accts \subseteq Account /\ p.conf.accounts \subseteq accts \cup {p.acct}
    BY <1>1 DEF Process, Config
  <2> HIDE DEF accts
  <2>4. /\ q.conf.profiles = p.conf.profiles /\ q.conf.accounts = accts /\ q.conf \in Config
        /\ q.phase = "servers" /\ q.old = p.old /\ q.acct = p.acct /\ q.names = p.names /\ q.cmd = p.cmd
    BY <1>1, <2>2, <2>3 DEF Process, Config
  <2>5. p.phase = "account"
    BY <1>7 DEF LogoutAccountDeleted, Calling
  <2>6. QED
    BY <1>1, <1>3, <2>3, <2>4, <2>5, ForgetsGoes
<1>8. ASSUME NEW id \in Machines, NEW ok \in BOOLEAN, NEW f \in BOOLEAN, p.phase = "servers",
             Become(c, [p EXCEPT !.found = @ \ {id}, !.failed = f,
                                 !.conf = IF ok THEN Without(@, id) ELSE @])
      PROVE  Goes(p, q)
  <2> DEFINE conf == IF ok THEN Without(p.conf, id) ELSE p.conf
  <2>1. q = [p EXCEPT !.found = @ \ {id}, !.failed = f, !.conf = conf]
    BY <1>2, <1>8
  <2>2. /\ conf \in Config /\ conf.accounts = p.conf.accounts
        /\ \A jd \in Machines : conf.profiles[jd] \in {p.conf.profiles[jd], NoProfile}
    BY <1>1 DEF Process, Config, Without
  <2> HIDE DEF conf
  <2>3. /\ q.conf = conf /\ q.phase = "servers" /\ q.old = p.old /\ q.acct = p.acct
        /\ q.names = p.names /\ q.cmd = p.cmd
    BY <1>1, <1>8, <2>1 DEF Process
  <2>4. QED
    BY <1>1, <1>3, <1>8, <2>2, <2>3, ForgetsGoes
<1>9. CASE LogoutServer(c)
  <2>1. p.phase = "servers"
    BY <1>9 DEF LogoutServer, At
  <2>2. PICK id \in p.found :
          \/ Writes(c) /\ UNCHANGED proc
          \/ Become(c, [p EXCEPT !.found = @ \ {id}, !.conf = Without(@, id)])
    BY <1>9 DEF LogoutServer
  <2>3. CASE Writes(c) /\ UNCHANGED proc
    BY <1>5, <2>1, <2>3
  <2>4. CASE Become(c, [p EXCEPT !.found = @ \ {id}, !.conf = Without(@, id)])
    <3>1. id \in Machines /\ p.failed \in BOOLEAN
      BY <1>1 DEF Process
    <3>2. [p EXCEPT !.found = @ \ {id}, !.conf = Without(@, id)]
            = [p EXCEPT !.found = @ \ {id}, !.failed = p.failed, !.conf = Without(@, id)]
      BY <1>1 DEF Process
    <3>3. Become(c, [p EXCEPT !.found = @ \ {id}, !.failed = p.failed,
                              !.conf = IF TRUE THEN Without(@, id) ELSE @])
      BY <2>4, <3>2
    <3>4. QED
      BY <1>8, <2>1, <3>1, <3>3
  <2>5. QED
    BY <2>2, <2>3, <2>4
<1>10. CASE LogoutServerDeleted(c)
  <2>1. p.phase = "servers" /\ call[c] # NoCall
    BY <1>10 DEF LogoutServerDeleted, Calling
  <2>2. PICK id : id = call[c].key.id
    OBVIOUS
  <2>3. PICK ok \in BOOLEAN :
            Become(c, [p EXCEPT !.found = @ \ {id}, !.failed = @ \/ ~ok,
                                !.conf = IF ok THEN Without(@, id) ELSE @])
    BY <1>10, <2>2 DEF LogoutServerDeleted
  <2>4. id \in Machines
    <3>1. PICK jd \in p.found : call[c].key = ServerKey(p.acct, jd)
      BY <1>1, <1>3, <2>1 DEF Shaped, CallFits, Deletes
    <3>2. jd \in Machines /\ p.acct \in Account
      BY <1>1, <1>3, <2>1 DEF Process, Shaped
    <3>3. QED
      BY <2>2, <3>1, <3>2, KeysAreKeys
  <2>5. (p.failed \/ ~ok) \in BOOLEAN
    OBVIOUS
  <2>6. QED
    BY <1>8, <2>1, <2>3, <2>4, <2>5
<1>11. CASE LogoutDeleted(c)
  <2> DEFINE conf == IF p.failed \/ p.conf.curAccount # p.acct THEN p.conf
                     ELSE [p.conf EXCEPT !.curAccount = NoAccount, !.curServer = NoMachine]
  <2>1. p.phase = "servers"
    BY <1>11 DEF LogoutDeleted, At
  <2>2. Become(c, [p EXCEPT !.phase = "save", !.conf = conf])
    BY <1>11 DEF LogoutDeleted
  <2>3. q = [p EXCEPT !.phase = "save", !.conf = conf]
    BY <1>2, <2>2
  <2>4. conf \in Config /\ conf.accounts = p.conf.accounts /\ conf.profiles = p.conf.profiles
    <3>1. p.conf \in Config
      BY <1>1 DEF Process
    <3>2. PICK old : old = p.conf
      OBVIOUS
    <3>3. PICK made : made = [old EXCEPT !.curAccount = NoAccount, !.curServer = NoMachine]
      OBVIOUS
    <3>4. made \in Config /\ made.accounts = old.accounts /\ made.profiles = old.profiles
      BY <3>1, <3>2, <3>3 DEF Config
    <3>5. conf = old \/ conf = made
      BY <3>2, <3>3
    <3>6. QED
      BY <3>1, <3>2, <3>4, <3>5
  <2> HIDE DEF conf
  <2>5. /\ q.conf = conf /\ q.phase = "save" /\ q.old = p.old /\ q.acct = p.acct
        /\ q.names = p.names /\ q.cmd = p.cmd
    BY <1>1, <2>3 DEF Process
  <2>6. QED
    BY <1>1, <1>3, <2>1, <2>4, <2>5, ForgetsGoes
<1>12. QED
  BY <1>4, <1>6, <1>7, <1>9, <1>10, <1>11 DEF LogoutSteps

\* The steps that all commands have, and those of accounts use, config set and the like.
LEMMA OtherStepsGo ==
  ASSUME ResolveInv, NEW c \in Commands, Uncontested' # {}, NEW p, p = proc[c], NEW q, q = proc'[c],
         EditLoads(c) \/ DiscoveryFails(c) \/ SaveConfig(c) \/ Ends(c) \/ Interrupted(c)
  PROVE  Goes(p, q)
<1>1. Acts(c) /\ CommandInv /\ p \in Process /\ config \in Config
  <2>1. Acts(c) /\ CommandInv
    BY DEF Acts, ResolveInv, KeepInv
  <2>2. QED
    BY <2>1, ProcTyped
<1>2. \A r : Become(c, r) => q = r
  BY <1>1, Becomes
<1>3. CASE DiscoveryFails(c) \/ SaveConfig(c)
  BY <1>1, <1>3, EndQuits DEF DiscoveryFails, SaveConfig, Save
<1>4. CASE Ends(c) \/ Interrupted(c)
  <2>1. q = Idle
    BY <1>2, <1>4 DEF Ends, Interrupted, Leave, Become
  <2>2. q.phase = "idle" /\ q.names = {} /\ q.acct = NoAccount
    BY <2>1 DEF Idle
  <2>3. QED
    BY <2>2, Quits, NoAccountConcerned DEF Underway, Concerns
<1>5. CASE EditLoads(c)
  <2>1. CASE Fails(c)
    BY <1>1, <2>1, EndQuits
  <2>2. ASSUME NEW conf \in Edited(config), Loads(c, [p EXCEPT !.phase = "save"], conf) PROVE Goes(p, q)
    <3>1. p.cmd = "edit" /\ p.phase = "load"
      BY <1>5 DEF EditLoads, At
    <3> DEFINE r == [p EXCEPT !.phase = "save"]
    <3>2. r \in Process /\ r.phase = "save" /\ r.cmd = "edit" /\ Concerns(r) = Concerns(p)
      BY <1>1, <3>1 DEF Process, Phases, Concerns
    <3>3. q = [r EXCEPT !.conf = conf, !.old = config]
      BY <1>2, <2>2 DEF Loads
    <3> HIDE DEF r
    <3>4. conf \in Config /\ conf.accounts = config.accounts /\ conf.profiles = config.profiles
      BY <1>1, EditsTyped DEF Edited, ConfigSet, ConfigUse, AccountsUse, ServersUse, Config
    <3>5. /\ q.conf = conf /\ q.old = config /\ q.phase = "save" /\ q.cmd = "edit"
          /\ Concerns(q) = Concerns(p)
      BY <3>2, <3>3 DEF Process, Concerns
    <3>6. QED
      BY <1>1, <3>1, <3>4, <3>5, LoadsGoes
  <2>3. QED
    BY <1>5, <2>1, <2>2 DEF EditLoads
<1>6. QED
  BY <1>3, <1>4, <1>5

LEMMA JournalGrows ==
  ASSUME NEW p \in Process, NEW q, NEW e \in Prior, q.journal = Append(p.journal, e)
  PROVE  /\ DOMAIN q.journal = DOMAIN p.journal \cup {Len(p.journal) + 1}
         /\ Len(p.journal) + 1 \notin DOMAIN p.journal
         /\ \A i \in DOMAIN p.journal : q.journal[i] = p.journal[i]
         /\ q.journal[Len(p.journal) + 1] = e
         /\ LastOf(q) = e
<1> DEFINE j == p.journal
           n == Len(p.journal)
<1>1. n \in Nat /\ DOMAIN j = 1 .. n /\ j \in Seq(Prior)
  BY JournalDomain DEF Process
<1>2. /\ Append(j, e) \in Seq(Prior) /\ Len(Append(j, e)) = n + 1
      /\ \A i \in 1 .. n : Append(j, e)[i] = j[i]
      /\ Append(j, e)[n + 1] = e
  BY <1>1, AppendProperties
<1>3. DOMAIN Append(j, e) = 1 .. n + 1
  BY <1>2, LenProperties
<1>4. DOMAIN q.journal = DOMAIN j \cup {n + 1} /\ n + 1 \notin DOMAIN j
  BY <1>1, <1>3
<1>5. (\A i \in DOMAIN j : q.journal[i] = j[i]) /\ q.journal[n + 1] = e
  BY <1>1, <1>2
<1>6. LastOf(q) = e
  BY <1>2 DEF LastOf
<1>7. QED
  BY <1>4, <1>5, <1>6

\* Keys an import need not write any more are held, for an account that is uncontested.
LEMMA SoundLess ==
  ASSUME NEW conf \in Config, NEW S, NEW T, Sound(conf, S)',
         \A k \in S : k.acct \in Uncontested' => k \in T \/ Held(k)'
  PROVE  Sound(conf, T)'
<1>1. ASSUME NEW id \in Machines, conf.profiles[id] # NoProfile, conf.profiles[id].acct \in Uncontested',
             NEW k, k = TokenKey(conf, id)
      PROVE  conf.profiles[id].acct \in conf.accounts /\ (Held(k)' \/ k \in T)
  <2>1. conf.profiles[id].acct \in conf.accounts /\ (Held(k)' \/ k \in S)
    BY <1>1 DEF Sound
  <2>2. k.acct = conf.profiles[id].acct
    BY <1>1, KeysTyped
  <2>3. QED
    BY <1>1, <2>1, <2>2
<1>2. QED
  BY <1>1 DEF Sound, TokenKey

\* An import that goes on to write, or has written all.
LEMMA WritesOn ==
  ASSUME ResolveInv, NEW c \in Commands, Acts(c), Uncontested' # {}, NEW p, p = proc[c], NEW q,
         p.cmd = "import", p.phase \in {"journal", "write"}, q.phase \in {"journal", "save"},
         q.old = p.old, q.acct = p.acct, q.names = p.names, q.cmd = p.cmd, q.conf = p.conf,
         q.journal = p.journal, config' = config,
         \A k \in Pending(p) : k.acct \in Uncontested' => k \in Pending(q) \/ Held(k)'
  PROVE  Goes(p, q)
<1>1. /\ p \in Process /\ SoundProcess(p) /\ p.phase \in ToSave /\ p.phase \in Journaling /\ p.phase \in Underway
  BY ActsContest, ProcTyped DEF ResolveInv, KeepInv, Uncontested, ToSave, Journaling, Underway
<1>2. PICK conf, S, T : conf = p.conf /\ S = Pending(p) /\ T = Pending(q)
  OBVIOUS
<1>3. conf \in Config
  BY <1>1, <1>2 DEF Process
<1>4. Sound(conf, S)'
  <2>1. Sound(p.conf, Pending(p))'
    BY <1>1, InMemory
  <2>2. QED
    BY <1>2, <2>1 DEF Sound, Pending, ToWrite, Journaled, LastOf
<1>5. Sound(conf, T)'
  BY <1>2, <1>3, <1>4, SoundLess
<1>6. Sound(q.conf, Pending(q))'
  BY <1>2, <1>5 DEF Sound, Pending, ToWrite, Journaled, LastOf
<1>7. \A i \in DOMAIN q.journal : \E j \in DOMAIN p.journal : p.journal[j] = q.journal[i]
  OBVIOUS
<1>8. QED
  BY <1>1, <1>6, <1>7, GoesOn

\* An import that has failed.
LEMMA UndoGoes ==
  ASSUME ResolveInv, NEW c \in Commands, Acts(c), Uncontested' # {}, NEW p, p = proc[c],
         NEW q, q = proc'[c], p.cmd = "import", p.phase \in {"journal", "write", "save"},
         NEW after \in {"failed", "restore"}, Undo(c, after), config' = config
  PROVE  Goes(p, q)
<1>1. /\ p \in Process /\ SoundProcess(p) /\ p.phase \in Journaling /\ p.phase \in Underway
      /\ CommandInv
  BY ActsContest, ProcTyped DEF ResolveInv, KeepInv, Uncontested, Journaling, Underway
<1> DEFINE ph == IF p.journal = <<>> THEN after ELSE "undo"
<1>2. q = [p EXCEPT !.phase = ph, !.after = after]
  BY <1>1, Becomes DEF Undo
<1>3. ph \in {"failed", "restore", "undo"}
  OBVIOUS
<1> HIDE DEF ph
<1>4. /\ q.phase = ph /\ q.old = p.old /\ q.acct = p.acct /\ q.names = p.names /\ q.cmd = p.cmd
      /\ q.journal = p.journal
  BY <1>1, <1>2 DEF Process
<1>5. q.phase \notin ToSave
  BY <1>3, <1>4 DEF ToSave
<1>6. \A i \in DOMAIN q.journal : \E j \in DOMAIN p.journal : p.journal[j] = q.journal[i]
  BY <1>4
<1>7. q.cmd # "login"
  BY <1>4
<1>8. QED
  BY <1>1, <1>4, <1>5, <1>6, <1>7, GoesOn

\* An import that loads has all of its keys to write.
LEMMA ImportLoadsGoes ==
  ASSUME ResolveInv, NEW c \in Commands, ImportLoads(c), Uncontested' # {},
         NEW p, p = proc[c], NEW q, q = proc'[c]
  PROVE  Goes(p, q)
<1>1. /\ Acts(c) /\ CommandInv /\ p \in Process /\ p.cmd = "import" /\ p.phase = "plex"
      /\ p.acct \in Account /\ config \in Config /\ p.journal = <<>> /\ config' = config
  <2>1. Acts(c) /\ CommandInv
    BY DEF Acts, ImportSteps, ResolveInv, KeepInv
  <2>2. p \in Process /\ Shaped(p, call[c]) /\ config \in Config
    BY <2>1, ProcTyped
  <2>3. p.cmd = "import" /\ p.phase = "plex" /\ config' = config
    BY DEF ImportLoads, At, Loads
  <2>4. p.journal = <<>>
    BY <2>3 DEF ResolveInv, KeepInv, Keeps
  <2>5. QED
    BY <2>1, <2>2, <2>3, <2>4 DEF Shaped
<1> DEFINE a == p.acct
           r == [p EXCEPT !.phase = "journal", !.seen = [k \in Keys |-> Get(k)]]
<1>2. [k \in Keys |-> Get(k)] \in Read
  BY <1>1, GetTyped DEF CommandInv, Read
<1>3. r \in Process /\ r.phase = "journal" /\ r.cmd = "import" /\ r.acct = a /\ r.names = p.names
      /\ r.journal = <<>>
  BY <1>1, <1>2 DEF Process, Phases
<1>4. PICK d \in Discoveries[a], first \in Machines :
        /\ DOMAIN d # {} => first \in DOMAIN d
        /\ Loads(c, Finds(r, d), [WithProfiles(config, a, Finds(r, d).found, Finds(r, d).own) EXCEPT
                                    !.accounts = @ \cup {a}, !.curAccount = a,
                                    !.curServer = FirstServer(config, Finds(r, d).found, first)])
  BY DEF ImportLoads
<1> HIDE DEF a, r
<1>5. PICK s, f : s = Finds(r, d) /\ f = FirstServer(config, s.found, first)
  OBVIOUS
<1>6. /\ s \in Process /\ s.phase = "journal" /\ s.cmd = "import" /\ s.acct = a /\ s.names = p.names
      /\ s.journal = <<>> /\ s.found \in SUBSET Machines /\ s.own \in SUBSET Machines
      /\ s.found = DOMAIN d
  BY <1>1, <1>3, <1>5, FindsTyped DEF Process, a
<1>7. f \in Machines \cup {NoMachine}
  <2>1. CASE s.found = {}
    BY <1>1, <1>5, <2>1 DEF FirstServer, Config
  <2>2. CASE s.found # {}
    BY <1>1, <1>4, <1>5, <1>6, <2>2, ConfigsTyped DEF a
  <2>3. QED
    BY <2>1, <2>2
<1> DEFINE w == WithProfiles(config, a, s.found, s.own)
           conf == [w EXCEPT !.accounts = @ \cup {a}, !.curAccount = a, !.curServer = f]
<1>8. Loads(c, s, conf)
  BY <1>4, <1>5
<1>9. /\ w \in Config /\ w.accounts = config.accounts
      /\ \A id \in Machines : w.profiles[id] = IF id \in s.found THEN [acct |-> a, own |-> id \in s.own]
                                               ELSE config.profiles[id]
  <2>1. w \in Config
    BY <1>1, <1>6, ConfigsTyped DEF a
  <2>2. QED
    BY <1>1, <2>1 DEF WithProfiles, Config
<1> HIDE DEF w
<1>10. conf \in Config /\ conf.accounts = config.accounts \cup {a} /\ conf.profiles = w.profiles
  BY <1>1, <1>7, <1>9 DEF Config, a
<1> HIDE DEF conf
<1>11. q = [s EXCEPT !.conf = conf, !.old = config]
  BY <1>1, <1>8, Becomes DEF Loads
<1>12. /\ q.conf = conf /\ q.old = config /\ q.phase = "journal" /\ q.cmd = "import" /\ q.acct = a
       /\ q.names = p.names /\ q.journal = <<>> /\ q.found = s.found /\ q.own = s.own
  BY <1>6, <1>11 DEF Process
<1>13. Pending(q) = ToWrite(q)
  BY <1>12, EmptySeq DEF Pending, Journaled
<1>14. ASSUME NEW id \in Machines, conf.profiles[id] # config.profiles[id]
       PROVE  /\ conf.profiles[id].acct = a
              /\ TokenKey(conf, id) \in ToWrite(q) /\ TokenKey(conf, id).acct = a
  <2>1. id \in s.found /\ conf.profiles[id] = [acct |-> a, own |-> id \in s.own]
    BY <1>9, <1>10, <1>14
  <2>2. PICK b \in BOOLEAN : b = (id \in s.own)
    <3>1. (id \in s.own) \in BOOLEAN
      OBVIOUS
    <3>2. QED
      BY <3>1
  <2>3. conf.profiles[id] = [acct |-> a, own |-> b]
    BY <2>1, <2>2
  <2>4. conf.profiles[id].acct = a /\ conf.profiles[id].own = b
    BY <2>3
  <2>5. TokenKey(conf, id) = IF b THEN ServerKey(a, id) ELSE AccountKey(a)
    BY <2>4 DEF TokenKey
  <2>6. TokenKey(conf, id).acct = a
    BY <2>5 DEF ServerKey, AccountKey
  <2>7. TokenKey(conf, id) \in ToWrite(q)
    BY <1>12, <2>1, <2>2, <2>5 DEF ToWrite
  <2>8. QED
    BY <2>4, <2>6, <2>7
<1>15. Sound(q.conf, Pending(q))'
  <2>1. PICK old, next, T : old = config /\ next = conf /\ T = Pending(q)
    OBVIOUS
  <2>2. old \in Config /\ Sound(old, {})'
    BY <1>1, <2>1, OnDisk
  <2>3. Sound(old, T)'
    BY <2>2, SoundLess
  <2>4. \A id \in Machines : next.profiles[id] # NoProfile /\ next.profiles[id].acct \in Uncontested' =>
          \/ next.profiles[id] = old.profiles[id]
          \/ /\ next.profiles[id].acct \in next.accounts
             /\ \E k : k = TokenKey(next, id) /\ (Held(k)' \/ k \in T)
    BY <1>10, <1>13, <1>14, <2>1
  <2>5. Sound(next, T)'
    BY <1>10, <2>1, <2>2, <2>3, <2>4, SoundGoesOn
  <2>6. QED
    BY <1>12, <2>1, <2>5 DEF Sound, Pending, ToWrite, Journaled, LastOf
<1>16. ASSUME NEW k \in Keys, NamesKey(q.conf, k) PROVE k.acct = q.acct \/ NamesKey(config, k)
  <2>1. PICK id \in Machines : conf.profiles[id] # NoProfile /\ TokenKey(conf, id) = k
    BY <1>12, <1>16 DEF NamesKey
  <2>2. CASE conf.profiles[id] # config.profiles[id]
    BY <1>12, <1>14, <2>1, <2>2
  <2>3. CASE conf.profiles[id] = config.profiles[id]
    <3>1. config.profiles[id] # NoProfile /\ TokenKey(config, id) = k
      BY <2>1, <2>3 DEF TokenKey
    <3>2. QED
      BY <3>1 DEF NamesKey
  <2>4. QED
    BY <2>2, <2>3
<1>17. Concerns(q) = Concerns(p)
  BY <1>12 DEF Concerns, a
<1>18. DOMAIN q.journal = {}
  BY <1>12, EmptySeq
<1>19. QED
  BY <1>1, <1>12, <1>15, <1>16, <1>17, <1>18 DEF Goes, Carries

LEMMA ImportJournalsGoes ==
  ASSUME ResolveInv, NEW c \in Commands, ImportJournals(c), Uncontested' # {},
         NEW p, p = proc[c], NEW q, q = proc'[c]
  PROVE  Goes(p, q)
<1>1. /\ Acts(c) /\ CommandInv /\ p \in Process /\ p.cmd = "import" /\ p.phase = "journal"
      /\ p.acct \in Account /\ config' = config /\ SoundProcess(p)
  <2>1. Acts(c) /\ CommandInv
    BY DEF Acts, ImportSteps, ResolveInv, KeepInv
  <2>2. p \in Process /\ Shaped(p, call[c]) /\ SoundProcess(p)
    BY <2>1, ActsContest, ProcTyped DEF ResolveInv, Uncontested
  <2>3. p.cmd = "import" /\ p.phase = "journal" /\ config' = config
    BY DEF ImportJournals, At, Local
  <2>4. QED
    BY <2>1, <2>2, <2>3 DEF Shaped
<1>2. PICK k \in ToWrite(p) \ Journaled(p) :
       IF Get(k) = Unreadable THEN Undo(c, "failed")
       ELSE Become(c, [p EXCEPT !.phase = "write", !.journal = Append(@, [key |-> k, prior |-> Get(k)])])
  BY DEF ImportJournals
<1>3. CASE Get(k) = Unreadable
  BY <1>1, <1>2, <1>3, UndoGoes
<1>4. CASE Get(k) # Unreadable
  <2>1. PICK v : v = Get(k)
    OBVIOUS
  <2>2. k \in Keys /\ v \in Entry /\ k.acct = p.acct
    <3>1. k \in Keys
      BY <1>1, <1>2, ToWriteTyped
    <3>2. k.acct = p.acct
      BY <1>2 DEF ToWrite, AccountKey, ServerKey
    <3>3. QED
      BY <1>1, <1>4, <2>1, <3>1, <3>2, GetTyped DEF CommandInv
  <2>3. v = NoToken => ~Held(k)
    <3>1. StoreInv
      BY <1>1, ActsContest DEF ResolveInv, Uncontested
    <3>2. QED
      BY <1>4, <2>1, <2>2, <3>1 DEF Get, FileFallback, Held, StoreInv
  <2>4. PICK e : e = [key |-> k, prior |-> v]
    OBVIOUS
  <2>5. e \in Prior /\ e.key = k /\ e.prior = v
    BY <2>2, <2>4 DEF Prior
  <2>6. q = [p EXCEPT !.phase = "write", !.journal = Append(@, e)]
    BY <1>1, <1>2, <1>4, <2>1, <2>4, Becomes
  <2>7. /\ q.journal = Append(p.journal, e) /\ q.phase = "write" /\ q.old = p.old /\ q.acct = p.acct
        /\ q.names = p.names /\ q.cmd = p.cmd /\ q.conf = p.conf /\ q.found = p.found /\ q.own = p.own
    BY <1>1, <2>6 DEF Process
  <2>8. /\ DOMAIN q.journal = DOMAIN p.journal \cup {Len(p.journal) + 1}
        /\ \A i \in DOMAIN p.journal : q.journal[i] = p.journal[i]
        /\ q.journal[Len(p.journal) + 1] = e
        /\ LastOf(q) = e
    BY <1>1, <2>5, <2>7, JournalGrows
  <2>9. p.phase \in ToSave /\ p.phase \in Underway /\ p.phase \in Journaling
    BY <1>1 DEF ToSave, Underway, Journaling
  <2>10. Pending(p) \subseteq Pending(q)
    <3>1. ToWrite(q) = ToWrite(p)
      BY <2>7 DEF ToWrite
    <3>2. \A j : j \in Journaled(q) => j \in Journaled(p) \/ j = k
      BY <2>5, <2>8 DEF Journaled
    <3>3. \A j \in Pending(p) : j \in ToWrite(p) /\ j \notin Journaled(p)
      BY <1>1 DEF Pending
    <3>4. QED
      BY <1>1, <2>5, <2>7, <2>8, <3>1, <3>2, <3>3 DEF Pending
  <2>11. Sound(q.conf, Pending(q))'
    <3>1. PICK conf, S, T : conf = p.conf /\ S = Pending(p) /\ T = Pending(q)
      OBVIOUS
    <3>2. conf \in Config
      BY <1>1, <3>1 DEF Process
    <3>3. Sound(conf, S)'
      <4>1. Sound(p.conf, Pending(p))'
        BY <1>1, <2>9, InMemory
      <4>2. QED
        BY <3>1, <4>1 DEF Sound, Pending, ToWrite, Journaled, LastOf
    <3>4. Sound(conf, T)'
      BY <2>10, <3>1, <3>2, <3>3, SoundLess
    <3>5. QED
      BY <2>7, <3>1, <3>4 DEF Sound, Pending, ToWrite, Journaled, LastOf
  <2>12. ASSUME NEW i \in DOMAIN q.journal PROVE Wrote(p, q, q.journal[i])
    <3>1. CASE i \in DOMAIN p.journal
      BY <1>1, <2>7, <2>8, <2>9, <3>1 DEF Wrote, SoundProcess
    <3>2. CASE i = Len(p.journal) + 1
      BY <2>2, <2>3, <2>5, <2>7, <2>8, <3>2 DEF Wrote
    <3>3. QED
      BY <2>8, <2>12, <3>1, <3>2
  <2>13. Concerns(q) = Concerns(p)
    BY <2>7 DEF Concerns
  <2>14. QED
    BY <1>1, <2>7, <2>9, <2>11, <2>12, <2>13 DEF Goes, Carries
<1>5. QED
  BY <1>3, <1>4

LEMMA ImportGoes ==
  ASSUME ResolveInv, NEW c \in Commands, ImportSteps(c), Uncontested' # {},
         NEW p, p = proc[c], NEW q, q = proc'[c]
  PROVE  Goes(p, q)
<1>1. /\ Acts(c) /\ CommandInv /\ p \in Process /\ Shaped(p, call[c]) /\ config \in Config
      /\ Uncontested # {} /\ Uncontested' \subseteq Uncontested /\ SoundProcess(p)
  <2>1. Acts(c) /\ CommandInv
    BY DEF Acts, ResolveInv, KeepInv
  <2>2. QED
    BY <2>1, ActsContest, ProcTyped DEF ResolveInv, Uncontested
<1>2. \A r : Become(c, r) => q = r
  BY <1>1, Becomes
<1>3. p.cmd = "import"
  BY DEF ImportSteps, ImportNext, ImportLoads, ImportJournals, ImportWrites, ImportWritten, ImportStored,
         ImportUndoes, ImportUndone, ImportFailed, ImportSaves, ImportRestores, At, Calling
<1>4. CASE ImportNext(c)
  <2>1. CASE End(c)
    BY <1>1, <2>1, EndQuits
  <2>2. ASSUME NEW a \in p.names, NEW empty \in BOOLEAN,
               Become(c, [Idle EXCEPT !.cmd = "import", !.names = p.names \ {a}, !.acct = a,
                                      !.token = p.token,
                                      !.phase = IF empty THEN "next" ELSE "plex"])
        PROVE  Goes(p, q)
    <3> DEFINE ph == IF empty THEN "next" ELSE "plex"
    <3>1. q = [Idle EXCEPT !.cmd = "import", !.names = p.names \ {a}, !.acct = a, !.token = p.token,
                           !.phase = ph]
      BY <1>2, <2>2
    <3>2. ph \notin Underway
      BY DEF Underway
    <3> HIDE DEF ph
    <3>3. q.phase = ph /\ q.names = p.names \ {a} /\ q.acct = a
      BY <3>1, IdleTyped DEF Process
    <3>4. Concerns(q) \subseteq Concerns(p)
      BY <3>3 DEF Concerns
    <3>5. QED
      BY <3>2, <3>3, <3>4, Quits
  <2>3. QED
    BY <1>4, <2>1, <2>2 DEF ImportNext
<1>5. ASSUME NEW phase \in Phases, Goto(c, phase)
      PROVE  /\ q.phase = phase /\ q.old = p.old /\ q.acct = p.acct /\ q.names = p.names /\ q.cmd = p.cmd
             /\ q.conf = p.conf /\ q.found = p.found /\ q.own = p.own /\ q.journal = p.journal
  <2>1. q = [p EXCEPT !.phase = phase]
    BY <1>2, <1>5 DEF Goto
  <2>2. QED
    BY <1>1, <2>1 DEF Process
<1>6. ASSUME NEW phase \in {"failed", "next"}, Goto(c, phase) PROVE Goes(p, q)
  <2>1. q.phase = phase /\ Concerns(q) = Concerns(p)
    BY <1>5, <1>6 DEF Concerns, Phases
  <2>2. QED
    BY <2>1, Quits DEF Underway
<1>7. CASE ImportWrites(c) \/ ImportUndoes(c)
  <2>1. q = p /\ config' = config /\ p.phase \in Underway
    BY <1>7 DEF ImportWrites, ImportUndoes, At, Writes, Underway
  <2>2. QED
    BY <1>1, <2>1, RemainsGoing
<1>8. CASE ImportWritten(c)
  <2>1. p.phase = "write" /\ call[c] # NoCall /\ config' = config
    BY <1>8 DEF ImportWritten, Calling, Writes
  <2>2. PICK ok \in BOOLEAN :
          CallEnds(c, ok) /\ (IF ok THEN Goto(c, "journal") ELSE Undo(c, "failed"))
    BY <1>8 DEF ImportWritten
  <2>3. CASE ~ok
    BY <1>1, <1>3, <2>1, <2>2, <2>3, UndoGoes
  <2>4. CASE ok
    <3>1. PICK x : x = call[c]
      OBVIOUS
    <3>2. x.op = "set" /\ x.key = LastOf(p).key /\ ok = TRUE
      BY <1>1, <1>3, <2>1, <2>4, <3>1 DEF Shaped, CallFits, Sets
    <3>3. x.key.acct \in Uncontested' => Held(x.key)'
      BY <1>1, <2>2, <3>1, <3>2, SetIsHeld
    <3>4. /\ q.phase = "journal" /\ q.old = p.old /\ q.acct = p.acct /\ q.names = p.names /\ q.cmd = p.cmd
          /\ q.conf = p.conf /\ q.found = p.found /\ q.own = p.own /\ q.journal = p.journal
      BY <1>5, <2>2, <2>4 DEF Phases
    <3>5. ASSUME NEW k \in Pending(p), k.acct \in Uncontested' PROVE k \in Pending(q) \/ Held(k)'
      <4>1. k \in ToWrite(p) /\ (k \notin Journaled(p) \/ k = LastOf(p).key)
        BY DEF Pending
      <4>2. ToWrite(q) = ToWrite(p) /\ Journaled(q) = Journaled(p)
        BY <3>4 DEF ToWrite, Journaled
      <4>3. CASE k \notin Journaled(p)
        BY <1>3, <3>4, <4>1, <4>2, <4>3 DEF Pending
      <4>4. CASE k = x.key
        BY <3>3, <3>5, <4>4
      <4>5. QED
        BY <3>2, <4>1, <4>3, <4>4
    <3>6. QED
      BY <1>1, <1>3, <2>1, <3>4, <3>5, WritesOn
  <2>5. QED
    BY <2>3, <2>4
<1>9. CASE ImportStored(c)
  <2>1. p.phase = "journal" /\ ToWrite(p) \subseteq Journaled(p) /\ Goto(c, "save") /\ config' = config
    BY <1>9 DEF ImportStored, At, Local
  <2>2. /\ q.phase = "save" /\ q.old = p.old /\ q.acct = p.acct /\ q.names = p.names /\ q.cmd = p.cmd
        /\ q.conf = p.conf /\ q.journal = p.journal
    BY <1>5, <2>1 DEF Phases
  <2>3. Pending(p) = {}
    BY <2>1 DEF Pending
  <2>4. QED
    BY <1>1, <1>3, <2>1, <2>2, <2>3, WritesOn
<1>10. CASE ImportUndone(c)
  <2> DEFINE rest == SubSeq(p.journal, 1, Len(p.journal) - 1)
             ph == IF rest = <<>> THEN p.after ELSE "undo"
  <2>1. p.phase = "undo" /\ p.journal # <<>> /\ config' = config
    BY <1>1, <1>10 DEF ImportUndone, Calling, Writes, Shaped
  <2>2. q = [p EXCEPT !.journal = rest, !.phase = ph]
    BY <1>2, <1>10 DEF ImportUndone
  <2>3. ph \in {"failed", "restore", "undo"}
    BY <1>1 DEF Process
  <2>4. \A i \in DOMAIN rest : i \in DOMAIN p.journal /\ rest[i] = p.journal[i]
    <3>1. /\ rest \in Seq(Prior) /\ Len(rest) = Len(p.journal) - 1
          /\ \A i \in 1 .. Len(rest) : rest[i] = p.journal[i]
      BY <1>1, <2>1, FrontOfJournal
    <3> HIDE DEF rest
    <3>2. DOMAIN rest = 1 .. Len(rest) /\ DOMAIN p.journal = 1 .. Len(p.journal)
          /\ Len(p.journal) \in Nat
      BY <1>1, <3>1, LenProperties, JournalDomain
    <3>3. QED
      BY <3>1, <3>2
  <2> HIDE DEF rest, ph
  <2>5. /\ q.phase = ph /\ q.old = p.old /\ q.acct = p.acct /\ q.names = p.names /\ q.cmd = p.cmd
        /\ q.journal = rest
    BY <1>1, <2>2 DEF Process
  <2>6. q.phase \notin ToSave /\ p.phase \in Underway /\ p.phase \in Journaling
    BY <2>1, <2>3, <2>5 DEF ToSave, Underway, Journaling
  <2>7. QED
    BY <1>1, <1>3, <2>1, <2>4, <2>5, <2>6, GoesOn
<1>11. CASE ImportFailed(c)
  BY <1>6, <1>11 DEF ImportFailed
<1>12. CASE ImportSaves(c)
  <2>1. CASE Goto(c, "next")
    BY <1>6, <2>1
  <2>2. CASE Undo(c, "restore") /\ ~Works("config")
    <3>1. p.phase = "save" /\ config' = config
      BY <1>12, <2>2 DEF ImportSaves, At, Save
    <3>2. QED
      BY <1>1, <1>3, <2>2, <3>1, UndoGoes
  <2>3. QED
    BY <1>12, <2>1, <2>2 DEF ImportSaves, Save
<1>13. CASE ImportRestores(c)
  BY <1>6, <1>13 DEF ImportRestores, Save
<1>14. QED
  BY <1>4, <1>7, <1>8, <1>9, <1>10, <1>11, <1>12, <1>13, ImportLoadsGoes, ImportJournalsGoes DEF ImportSteps

LEMMA CommandsGo ==
  ASSUME ResolveInv, NEW c \in Commands, Acts(c), ~Begins(c), Uncontested' # {},
         NEW p, p = proc[c], NEW q, q = proc'[c]
  PROVE  Goes(p, q)
BY LoginGoes, ImportGoes, LogoutGoes, OtherStepsGo DEF Acts

\* What a command deletes that an import made, no other configuration names.
LEMMA DropsUnnamed ==
  ASSUME ResolveInv, Uncontested # {}, NEW c \in Commands, NEW k \in Keys, k.acct \in Uncontested, Drops(c, k),
         NEW p, p = proc[c]
  PROVE  Unnamed(c, k) /\ k.acct \in Concerns(p) /\ Busy(c)
<1>1. /\ p.cmd = "import" /\ p.phase = "undo" /\ p.journal # <<>>
      /\ LastOf(p).prior = NoToken /\ LastOf(p).key = k
  BY DEF Drops
<1>2. p \in Process /\ SoundProcess(p) /\ Frees(c, p)
  BY ProcTyped DEF ResolveInv, KeepInv
<1>3. p.phase \in Journaling /\ Busy(c)
  BY <1>1 DEF Journaling, Busy
<1>4. Len(p.journal) \in DOMAIN p.journal
  BY <1>1, <1>2, JournalDomain
<1>5. k.acct = p.acct
  BY <1>1, <1>2, <1>3, <1>4 DEF SoundProcess, LastOf
<1>6. Unnamed(c, k)
  BY <1>1, <1>2, <1>3, <1>4, <1>5 DEF Frees, LastOf
<1>7. QED
  BY <1>3, <1>5, <1>6 DEF Concerns

\* A key that nobody names is named by nobody, but for what the command loads and makes.
LEMMA UnnamedStays ==
  ASSUME CommandInv, NEW c \in Commands, Acts(c), NEW p, p = proc[c], NEW q, q = proc'[c], Carries(p, q),
         NEW e \in Commands, NEW k \in Keys, Unnamed(e, k),
         IF e = c THEN config' = config ELSE q.phase \in ToSave => k.acct # q.acct
  PROVE  Unnamed(e, k)'
<1>1. ~NamesKey(config', k)
  <2>1. p.phase = "save" => p.phase \in ToSave
    BY DEF ToSave
  <2>2. p.phase = "restore" => p.phase \in Underway
    BY DEF Underway
  <2>3. config' = config \/ (p.phase = "save" /\ config' = p.conf) \/ (p.phase = "restore" /\ config' = p.old)
    BY FileMoves
  <2>4. QED
    BY <2>1, <2>2, <2>3 DEF Unnamed
<1>2. ASSUME NEW d \in Commands
      PROVE  /\ proc'[d].phase \in Underway => ~NamesKey(proc'[d].old, k)
             /\ proc'[d].phase \in ToSave /\ d # e => ~NamesKey(proc'[d].conf, k)
  <2>1. CASE d # c
    <3>1. proc'[d] = proc[d]
      BY <2>1, OthersStay
    <3>2. QED
      BY <3>1 DEF Unnamed
  <2>2. CASE d = c
    <3>1. q.phase \in Underway => ~NamesKey(q.old, k)
      BY DEF Carries, Unnamed
    <3>2. q.phase \in ToSave /\ c # e => ~NamesKey(q.conf, k)
      BY DEF Carries, Unnamed
    <3>3. QED
      BY <2>2, <3>1, <3>2
  <2>3. QED
    BY <2>1, <2>2
<1>3. QED
  BY <1>1, <1>2 DEF Unnamed, NamesKey, TokenKey

\* The file stays sound.
LEMMA ConfigStaysSound ==
  ASSUME ResolveInv, NEW c \in Commands, Acts(c), Uncontested' # {}
  PROVE  Sound(config, {})'
<1>1. /\ CommandInv /\ Uncontested # {} /\ config \in Config
      /\ proc[c] \in Process /\ SoundProcess(proc[c]) /\ Sound(config, {})
  BY ActsContest, ProcTyped DEF ResolveInv, KeepInv, Uncontested
<1>2. PICK conf, p : conf = config' /\ p = proc[c]
  OBVIOUS
<1>3. config' = config \/ (p.phase = "save" /\ config' = p.conf) \/ (p.phase = "restore" /\ config' = p.old)
  BY <1>2, FileMoves
<1>4. CASE config' = config
  <2>1. \A k \in Keys : k.acct \in Uncontested /\ NamesKey(conf, k) => ~Drops(c, k)
    BY <1>1, <1>2, <1>4, DropsUnnamed DEF Unnamed
  <2>2. Sound(conf, {})'
    BY <1>1, <1>2, <1>4, <2>1, SoundStays
  <2>3. QED
    BY <1>2, <2>2 DEF Sound, TokenKey
<1>5. CASE p.phase = "save" /\ config' = p.conf
  <2>1. p.phase \in ToSave
    BY <1>5 DEF ToSave
  <2>2. Sound(p.conf, Pending(p))'
    BY <1>2, <2>1, InMemory
  <2>3. PICK S : S = Pending(p)
    OBVIOUS
  <2>4. Sound(conf, S)'
    BY <1>2, <1>5, <2>2, <2>3 DEF Sound, Pending, ToWrite, Journaled, LastOf
  <2>5. S = {}
    BY <1>5, <2>3 DEF Pending
  <2>6. Sound(conf, {})'
    BY <2>4, <2>5
  <2>7. QED
    BY <1>2, <2>6 DEF Sound, TokenKey
<1>6. CASE p.phase = "restore" /\ config' = p.old
  <2>1. p.phase \in Underway /\ \A k : ~Drops(c, k)
    BY <1>2, <1>6 DEF Underway, Drops
  <2>2. conf \in Config /\ Sound(conf, {})
    BY <1>1, <1>2, <1>6, <2>1 DEF SoundProcess, Process
  <2>3. Sound(conf, {})'
    BY <2>1, <2>2, SoundStays
  <2>4. QED
    BY <1>2, <2>3 DEF Sound, TokenKey
<1>7. QED
  BY <1>3, <1>4, <1>5, <1>6

\* What the others have in memory stays sound.
LEMMA OthersStaySound ==
  ASSUME ResolveInv, NEW c \in Commands, Acts(c), Uncontested' # {}, NEW d \in Commands, d # c,
         NEW r, r = proc[d]
  PROVE  SoundProcess(r)'
<1>1. /\ CommandInv /\ Uncontested # {} /\ Uncontested' \subseteq Uncontested /\ contested \subseteq contested'
      /\ r \in Process /\ Shaped(r, call[d]) /\ SoundProcess(r) /\ Apart
  BY ActsContest, ProcTyped DEF ResolveInv, KeepInv, Uncontested
<1>2. ASSUME r.phase \in ToSave PROVE Sound(r.conf, Pending(r))'
  <2>1. PICK conf, S : conf = r.conf /\ S = Pending(r)
    OBVIOUS
  <2>2. conf \in Config /\ Sound(conf, S)
    BY <1>1, <1>2, <2>1 DEF SoundProcess, Process
  <2>3. \A k \in Keys : k.acct \in Uncontested /\ NamesKey(conf, k) => ~Drops(c, k)
    BY <1>1, <1>2, <2>1, DropsUnnamed DEF Unnamed
  <2>4. Sound(conf, S)'
    BY <2>2, <2>3, SoundStays
  <2>5. QED
    BY <2>1, <2>4 DEF Sound, Pending, ToWrite, Journaled, LastOf
<1>3. ASSUME r.phase \in Underway PROVE Sound(r.old, {})'
  <2>1. PICK conf : conf = r.old
    OBVIOUS
  <2>2. conf \in Config /\ Sound(conf, {})
    BY <1>1, <1>3, <2>1 DEF SoundProcess, Process
  <2>3. \A k \in Keys : k.acct \in Uncontested /\ NamesKey(conf, k) => ~Drops(c, k)
    BY <1>1, <1>3, <2>1, DropsUnnamed DEF Unnamed
  <2>4. Sound(conf, {})'
    BY <2>2, <2>3, SoundStays
  <2>5. QED
    BY <2>1, <2>4 DEF Sound
<1>4. ASSUME r.cmd = "login", r.phase = "servers", r.acct \in Uncontested'
      PROVE  r.acct \in r.conf.accounts /\ Held(AccountKey(r.acct))'
  <2>1. r.acct \in r.conf.accounts /\ Held(AccountKey(r.acct))
    BY <1>1, <1>4 DEF SoundProcess
  <2>2. PICK k : k = AccountKey(r.acct)
    OBVIOUS
  <2>3. k \in Keys /\ k.acct = r.acct /\ r.acct \in Uncontested
    BY <1>1, <1>4, <2>2, KeysAreKeys DEF Shaped
  <2>4. Busy(d) /\ r.acct \in Concerns(r)
    BY <1>4 DEF Busy, Concerns
  <2>5. ~Drops(c, k)
    <3>1. SUFFICES ASSUME Drops(c, k) PROVE FALSE
      OBVIOUS
    <3>2. k.acct \in Concerns(proc[c]) /\ Busy(c)
      BY <1>1, <2>3, <3>1, DropsUnnamed
    <3>3. QED
      BY <1>1, <2>3, <2>4, <3>2 DEF Apart
  <2>6. Held(k)'
    BY <2>1, <2>2, <2>3, <2>5, HeldStays
  <2>7. QED
    BY <2>1, <2>2, <2>6 DEF Held, AccountKey
<1>5. /\ r.cmd = "logout" => Concerns(r) \cap Account \subseteq contested'
      /\ r.cmd = "import" /\ r.phase \in Journaling => \A i \in DOMAIN r.journal : r.journal[i].key.acct = r.acct
  BY <1>1 DEF SoundProcess
<1>6. QED
  BY <1>2, <1>3, <1>4, <1>5 DEF SoundProcess, Uncontested, Concerns

\* What the command has in memory stays sound.
LEMMA ItselfStaysSound ==
  ASSUME ResolveInv, NEW c \in Commands, Acts(c), Uncontested' # {}, NEW p, p = proc[c], NEW q \in Process,
         q = proc'[c], Carries(p, q), q.cmd = "logout" => Concerns(q) \cap Account \subseteq contested'
  PROVE  SoundProcess(q)'
<1>1. /\ CommandInv /\ Uncontested # {} /\ p \in Process /\ SoundProcess(p) /\ config \in Config
      /\ Sound(config, {})
  BY ActsContest, ProcTyped DEF ResolveInv, KeepInv, Uncontested
<1>2. ASSUME q.phase \in Underway PROVE Sound(q.old, {})'
  <2>1. q.old = config \/ (p.phase \in Underway /\ q.old = p.old)
    BY <1>2 DEF Carries
  <2>2. PICK conf : conf = q.old
    OBVIOUS
  <2>3. conf \in Config /\ Sound(conf, {})
    BY <1>1, <2>1, <2>2 DEF SoundProcess, Process
  <2>4. \A k \in Keys : k.acct \in Uncontested /\ NamesKey(conf, k) => ~Drops(c, k)
    BY <1>1, <2>1, <2>2, DropsUnnamed DEF Unnamed
  <2>5. Sound(conf, {})'
    BY <2>3, <2>4, SoundStays
  <2>6. QED
    BY <2>2, <2>5 DEF Sound
<1>3. q.cmd = "import" /\ q.phase \in Journaling => \A i \in DOMAIN q.journal : q.journal[i].key.acct = q.acct
  BY DEF Carries, Wrote
<1>4. /\ q.phase \in ToSave => Sound(q.conf, Pending(q))'
      /\ q.cmd = "login" /\ q.phase = "servers" /\ q.acct \in Uncontested' =>
           q.acct \in q.conf.accounts /\ Held(AccountKey(q.acct))'
  BY DEF Carries
<1>5. QED
  BY <1>2, <1>3, <1>4 DEF SoundProcess, Uncontested, Concerns

\* Undoing an import frees nothing another configuration names.
LEMMA FreesStay ==
  ASSUME ResolveInv, CommandInv', NEW c \in Commands, Acts(c), Uncontested' # {}, Apart',
         NEW p, p = proc[c], NEW q, q = proc'[c], Carries(p, q),
         NEW d \in Commands, NEW r, r = proc'[d], SoundProcess(r)'
  PROVE  Frees(d, r)'
<1>1. /\ CommandInv /\ Uncontested' \subseteq Uncontested /\ Uncontested # {} /\ p \in Process /\ q \in Process
      /\ r \in Process
  BY ActsContest, ProcTyped DEF ResolveInv, KeepInv, Uncontested, CommandInv, CommandsShaped
<1>2. \A e \in Commands : e # c => proc'[e] = proc[e]
  BY <1>1, OthersStay
<1>3. ASSUME NEW e \in Commands, NEW f \in Commands, e # f, proc'[e].phase # "idle", proc'[f].phase # "idle",
             proc'[e].acct = proc'[f].acct
      PROVE  proc'[e].acct \notin Uncontested'
  BY <1>3 DEF Apart, Busy, Concerns
<1>4. ASSUME r.cmd = "import", r.phase \in Journaling, r.acct \in Uncontested',
             NEW i \in DOMAIN r.journal, r.journal[i].prior = NoToken, NEW k, k = r.journal[i].key
      PROVE  Unnamed(d, k)'
  <2>1. k \in Keys /\ k.acct = r.acct /\ r.phase # "idle"
    BY <1>1, <1>4, JournalDomain DEF SoundProcess, Journaling
  <2>2. CASE d # c
    <3>1. r = proc[d] /\ Frees(d, r)
      BY <1>1, <1>2, <2>2 DEF ResolveInv
    <3>2. Unnamed(d, k)
      BY <1>1, <1>4, <3>1 DEF Frees
    <3>3. q.phase \in ToSave => k.acct # q.acct
      <4>1. q.phase \in ToSave => q.phase # "idle"
        BY DEF ToSave
      <4>2. QED
        BY <1>3, <1>4, <2>1, <2>2, <4>1
    <3>4. QED
      BY <1>1, <2>1, <2>2, <3>2, <3>3, UnnamedStays
  <2>3. CASE d = c
    <3>1. r = q /\ config' = config /\ Wrote(p, q, r.journal[i])
      BY <1>4, <2>3 DEF Carries
    <3>2. CASE p.cmd = "import" /\ p.phase \in Journaling /\ p.acct = q.acct
               /\ \E j \in DOMAIN p.journal : p.journal[j] = r.journal[i]
      <4>1. Frees(c, p)
        BY <1>1 DEF ResolveInv
      <4>2. Unnamed(c, k)
        BY <1>1, <1>4, <3>1, <3>2, <4>1 DEF Frees
      <4>3. QED
        BY <1>1, <2>1, <2>3, <3>1, <4>2, UnnamedStays
    <3>3. CASE ~Held(k)
      <4>1. ASSUME NEW conf \in Config, NEW S, Sound(conf, S), k \notin S PROVE ~NamesKey(conf, k)
        <5> SUFFICES ASSUME NEW id \in Machines, conf.profiles[id] # NoProfile, TokenKey(conf, id) = k
                     PROVE  FALSE
          BY DEF NamesKey
        <5>1. conf.profiles[id].acct \in Uncontested
          BY <1>1, <1>4, <2>1, KeysTyped
        <5>2. QED
          BY <3>3, <4>1, <5>1 DEF Sound
      <4>2. ~NamesKey(config, k)
        BY <1>1, <4>1, ProcTyped DEF ResolveInv
      <4>3. ASSUME NEW e \in Commands
            PROVE  /\ proc[e].phase \in Underway => ~NamesKey(proc[e].old, k)
                   /\ proc[e].phase \in ToSave /\ e # c => ~NamesKey(proc[e].conf, k)
        <5>1. PICK s : s = proc[e]
          OBVIOUS
        <5>2. s \in Process /\ SoundProcess(s)
          BY <1>1, <5>1, ProcTyped DEF ResolveInv
        <5>3. s.phase \in Underway => ~NamesKey(s.old, k)
          BY <4>1, <5>2 DEF SoundProcess, Process
        <5>4. s.phase \in ToSave /\ e # c => k \notin Pending(s)
          <6> SUFFICES ASSUME s.phase \in ToSave, e # c, k \in Pending(s) PROVE FALSE
            OBVIOUS
          <6>1. k.acct = s.acct
            BY DEF Pending, ToWrite, AccountKey, ServerKey
          <6>2. s.phase # "idle" /\ proc'[e] = s
            BY <1>2, <5>1 DEF ToSave
          <6>3. QED
            BY <1>3, <1>4, <2>1, <2>3, <6>1, <6>2
        <5>5. s.phase \in ToSave /\ e # c => ~NamesKey(s.conf, k)
          BY <4>1, <5>2, <5>4 DEF SoundProcess, Process
        <5>6. QED
          BY <5>1, <5>3, <5>5
      <4>4. Unnamed(c, k)
        BY <4>2, <4>3 DEF Unnamed
      <4>5. QED
        BY <1>1, <2>1, <2>3, <3>1, <4>4, UnnamedStays
    <3>4. QED
      BY <1>4, <3>1, <3>2, <3>3 DEF Wrote
  <2>4. QED
    BY <2>2, <2>3
<1>5. QED
  BY <1>4 DEF Frees, Uncontested, Unnamed, NamesKey, TokenKey

LEMMA StepResolves ==
  ASSUME ResolveInv, KeepInv', NEW c \in Commands, Acts(c), Uncontested' # {}, Apart',
         NEW p, p = proc[c], NEW q, q = proc'[c], Carries(p, q),
         q.cmd = "logout" => Concerns(q) \cap Account \subseteq contested'
  PROVE  ResolveInv'
<1>1. CommandInv /\ CommandInv' /\ q \in Process
  BY DEF ResolveInv, KeepInv, CommandInv, CommandsShaped
<1>2. ASSUME NEW d \in Commands PROVE \E r : r = proc'[d] /\ SoundProcess(r)' /\ Frees(d, r)'
  <2>1. PICK r : r = proc'[d]
    OBVIOUS
  <2>2. SoundProcess(r)'
    <3>1. CASE d = c
      <4>1. r = q /\ SoundProcess(q)'
        BY <1>1, <2>1, <3>1, ItselfStaysSound
      <4>2. QED
        BY <4>1
    <3>2. CASE d # c
      <4>1. r = proc[d]
        BY <1>1, <2>1, <3>2, OthersStay
      <4>2. QED
        BY <3>2, <4>1, OthersStaySound
    <3>3. QED
      BY <3>1, <3>2
  <2>3. QED
    BY <1>1, <2>1, <2>2, FreesStay
<1>3. (\A d \in Commands : SoundProcess(proc[d]) /\ Frees(d, proc[d]))'
  <2> SUFFICES ASSUME NEW d \in Commands PROVE SoundProcess(proc[d])' /\ Frees(d, proc[d])'
    OBVIOUS
  <2>1. PICK r : r = proc'[d] /\ SoundProcess(r)' /\ Frees(d, r)'
    BY <1>2
  <2>2. SoundProcess(proc[d])'
    <3>1. r.phase \in ToSave => Sound(proc[d].conf, Pending(proc[d]))'
      <4>1. r.phase \in ToSave => Sound(r.conf, Pending(r))'
        BY <2>1 DEF SoundProcess
      <4>2. QED
        BY <2>1, <4>1 DEF Sound, Pending, ToWrite, Journaled, LastOf
    <3>2. r.phase \in Underway => Sound(proc[d].old, {})'
      <4>1. r.phase \in Underway => Sound(r.old, {})'
        BY <2>1 DEF SoundProcess
      <4>2. QED
        BY <2>1, <4>1 DEF Sound
    <3>3. r.cmd = "login" /\ r.phase = "servers" /\ r.acct \in Uncontested' =>
            r.acct \in r.conf.accounts /\ Held(AccountKey(proc[d].acct))'
      <4>1. r.cmd = "login" /\ r.phase = "servers" /\ r.acct \in Uncontested' =>
              r.acct \in r.conf.accounts /\ Held(AccountKey(r.acct))'
        BY <2>1 DEF SoundProcess
      <4>2. QED
        BY <2>1, <4>1 DEF Held, AccountKey
    <3>4. /\ r.cmd = "logout" => Concerns(r) \cap Account \subseteq contested'
          /\ r.cmd = "import" /\ r.phase \in Journaling =>
               \A i \in DOMAIN r.journal : r.journal[i].key.acct = r.acct
      BY <2>1 DEF SoundProcess, Concerns
    <3>5. QED
      BY <2>1, <3>1, <3>2, <3>3, <3>4 DEF SoundProcess, Concerns
  <2>3. Frees(d, proc[d])'
    BY <2>1 DEF Frees, Unnamed
  <2>4. QED
    BY <2>2, <2>3
<1>4. StoreInv' /\ Sound(config, {})'
  BY <1>1, StoreInvStays, ConfigStaysSound
<1>5. QED
  BY <1>3, <1>4 DEF ResolveInv

LEMMA ApartStays ==
  ASSUME ResolveInv, NEW c \in Commands, Acts(c), ~Begins(c), Uncontested' # {},
         NEW p, p = proc[c], NEW q, q = proc'[c], Concerns(q) \cap Account \subseteq Concerns(p)
  PROVE  Apart'
<1>1. /\ CommandInv /\ Uncontested # {} /\ broken' = broken /\ contested' = contested
      /\ p.phase # "idle" /\ Apart /\ Uncontested' \subseteq Account
  BY ActsContest DEF ResolveInv, KeepInv, Uncontested
<1>2. \A d \in Commands : d # c => proc'[d] = proc[d]
  BY <1>1, OthersStay
<1>3. ASSUME NEW d \in Commands, proc'[d].phase # "idle"
      PROVE  Busy(d) /\ Concerns(proc'[d]) \cap Uncontested \subseteq Concerns(proc[d])
  <2>1. CASE d = c
    BY <1>1, <2>1 DEF Busy, Uncontested
  <2>2. CASE d # c
    BY <1>2, <1>3, <2>2 DEF Busy
  <2>3. QED
    BY <2>1, <2>2
<1>4. ASSUME NEW d \in Commands, NEW e \in Commands, d # e, proc'[d].phase # "idle", proc'[e].phase # "idle"
      PROVE  Works("keyring") /\ Concerns(proc'[d]) \cap Concerns(proc'[e]) \cap Uncontested = {}
  <2>1. Busy(d) /\ Busy(e)
    BY <1>3, <1>4
  <2>2. Works("keyring") /\ Concerns(proc[d]) \cap Concerns(proc[e]) \cap Uncontested = {}
    BY <1>1, <1>4, <2>1 DEF Apart
  <2>3. QED
    BY <1>3, <1>4, <2>2
<1>5. QED
  BY <1>1, <1>4 DEF Apart, Busy, Works, Uncontested, Concerns

\* A command that begins.
LEMMA BeginsResolve ==
  ASSUME ResolveInv, KeepInv', NEW c \in Commands, Begins(c), Uncontested' # {}
  PROVE  ResolveInv'
<1>1. /\ Acts(c) /\ CommandInv /\ broken' = broken
      /\ \A d \in Commands : d # c => proc'[d] = proc[d]
  <2>1. Acts(c) /\ CommandInv
    BY DEF Acts, ResolveInv, KeepInv
  <2>2. QED
    BY <2>1, ActsContest, OthersStay
<1>2. PICK cmd, accts, phase : /\ Begin(c, cmd, accts, phase) /\ phase \in {"plex", "next", "load"}
                               /\ accts \subseteq Account
                               /\ cmd = "login" => \E a \in Account : accts = {a}
  <2>1. \A accts \in ImportSets : accts \subseteq Account
    BY AccountsAssumption
  <2>2. CASE \E a \in Account : LoginBegins(c, a) \/ LogoutBegins(c, a)
    BY <2>2 DEF LoginBegins, LogoutBegins
  <2>3. CASE \E accts \in ImportSets : ImportBegins(c, accts)
    BY <2>1, <2>3 DEF ImportBegins
  <2>4. CASE EditBegins(c)
    BY <2>4 DEF EditBegins
  <2>5. QED
    BY <2>2, <2>3, <2>4 DEF Begins
<1> DEFINE a == IF cmd = "login" THEN CHOOSE x \in accts : TRUE ELSE NoAccount
           t == IF cmd \in {"login", "import"} THEN events' ELSE NoToken
<1>3. Become(c, [Idle EXCEPT !.phase = phase, !.cmd = cmd, !.names = accts, !.acct = a, !.token = t])
  BY <1>2 DEF Begin
<1>4. a \in accts \/ a \notin Account
  BY <1>2, NoAccountConcerned
<1> HIDE DEF a, t
<1>5. PICK p, q : p = proc[c] /\ q = proc'[c]
  OBVIOUS
<1>6. q = [Idle EXCEPT !.phase = phase, !.cmd = cmd, !.names = accts, !.acct = a, !.token = t]
  BY <1>1, <1>3, <1>5, Becomes
<1>7. q.phase = phase /\ q.cmd = cmd /\ q.names = accts /\ q.acct = a
  BY <1>6, IdleTyped DEF Process
<1>8. Concerns(q) \cap Account \subseteq accts
  BY <1>4, <1>7 DEF Concerns
<1>9. Carries(p, q)
  BY <1>2, <1>7 DEF Carries, Underway, ToSave, Journaling
<1>10. /\ \A b \in accts : cmd = "logout" => b \in contested'
       /\ \A b \in accts, d \in Commands :
            proc[d].phase # "idle" /\ b \in Concerns(proc[d]) => b \in contested'
       /\ \A d \in Commands : proc[d].phase # "idle" => Works("keyring")
  BY <1>2 DEF Begin, Running, Concerns, Uncontested
<1>11. q.cmd = "logout" => Concerns(q) \cap Account \subseteq contested'
  BY <1>7, <1>8, <1>10
<1>12. ASSUME NEW d \in Commands, d # c, proc'[d].phase # "idle"
       PROVE  Works("keyring") /\ Concerns(q) \cap Concerns(proc'[d]) \cap Uncontested' = {}
  BY <1>1, <1>8, <1>10, <1>12 DEF Uncontested
<1>13. ASSUME NEW d \in Commands, NEW e \in Commands, d # e, proc'[d].phase # "idle", proc'[e].phase # "idle"
       PROVE  Works("keyring") /\ Concerns(proc'[d]) \cap Concerns(proc'[e]) \cap Uncontested' = {}
  <2>1. CASE d = c \/ e = c
    BY <1>5, <1>12, <1>13, <2>1
  <2>2. CASE d # c /\ e # c
    <3>1. Apart /\ Uncontested' \subseteq Uncontested
      BY <1>1, ActsContest DEF ResolveInv, Uncontested
    <3>2. QED
      BY <1>1, <1>13, <2>2, <3>1 DEF Apart, Busy
  <2>3. QED
    BY <2>1, <2>2
<1>14. Apart'
  BY <1>1, <1>13 DEF Apart, Busy, Works, Concerns
<1>15. QED
  BY <1>1, <1>5, <1>9, <1>11, <1>14, StepResolves

LEMMA InitResolveInv == AccountsInit => ResolveInv
<1> SUFFICES ASSUME AccountsInit PROVE ResolveInv
  OBVIOUS
<1>1. /\ KeepInv /\ call = [c \in Commands |-> NoCall] /\ proc = [c \in Commands |-> Idle]
      /\ config \in InitialConfigs
  BY InitKeepInv DEF AccountsInit
<1> DEFINE stored == [k \in Keys |-> IF \E a \in Account : k \in KeysOf(config, a) THEN 0 ELSE NoToken]
           none == [k \in Keys |-> NoToken]
<1>2. IF Works("keyring") THEN keyring = stored /\ tokenFile = none
      ELSE keyring \in {none, stored} /\ tokenFile = stored
  BY DEF AccountsInit
<1>3. StoreInv
  BY <1>1, <1>2 DEF StoreInv
<1>4. config \in Config /\ \A id \in Machines :
        config.profiles[id] # NoProfile => config.profiles[id].acct \in config.accounts
  BY <1>1, ConfigAssumption
<1>5. ASSUME NEW id \in Machines, config.profiles[id] # NoProfile PROVE Held(TokenKey(config, id))
  <2>1. PICK k, b : k = TokenKey(config, id) /\ b = config.profiles[id].acct
    OBVIOUS
  <2>2. k \in Keys /\ b \in Account
    BY <1>4, <1>5, <2>1, KeysTyped
  <2>3. k \in KeysOf(config, b)
    BY <1>5, <2>1 DEF KeysOf, ProfilesOf
  <2>4. stored[k] = 0
    BY <2>2, <2>3
  <2>5. 0 # NoToken
    <3>1. 0 \in 0 .. MaxEvents
      BY AccountsAssumption
    <3>2. 0 \in Tokens /\ NoToken \notin Tokens
      BY <3>1, AccountsAssumption
    <3>3. QED
      BY <3>2
  <2> HIDE DEF stored
  <2>6. QED
    BY <1>2, <2>1, <2>4, <2>5 DEF Held
<1>6. Sound(config, {})
  BY <1>4, <1>5 DEF Sound
<1>7. \A c \in Commands : proc[c] = Idle /\ ~Busy(c)
  BY <1>1 DEF Idle, Busy
<1>8. Idle.phase = "idle" /\ Idle.cmd = "none"
  BY DEF Idle
<1>9. \A c \in Commands : SoundProcess(proc[c]) /\ Frees(c, proc[c])
  BY <1>7, <1>8 DEF SoundProcess, Frees, ToSave, Underway
<1>10. QED
  BY <1>1, <1>3, <1>6, <1>7, <1>9 DEF ResolveInv, Apart

LEMMA SameResolveInv ==
  ASSUME ResolveInv, KeepInv', UNCHANGED <<keyring, tokenFile, call, config, proc, contested>>,
         Works("keyring")' <=> Works("keyring")
  PROVE  ResolveInv'
<1>1. Uncontested' = Uncontested
  BY DEF Uncontested
<1>2. SUFFICES ASSUME Uncontested # {}
               PROVE  /\ StoreInv' /\ Apart' /\ Sound(config, {})'
                      /\ (\A c \in Commands : SoundProcess(proc[c]) /\ Frees(c, proc[c]))'
  BY <1>1 DEF ResolveInv
<1>3. StoreInv'
  <2>1. StoreInv
    BY <1>2 DEF ResolveInv
  <2>2. QED
    BY <2>1 DEF StoreInv, Good, Uncontested
<1>4. Apart'
  <2>1. Apart
    BY <1>2 DEF ResolveInv
  <2>2. QED
    BY <2>1 DEF Apart, Busy, Concerns, Uncontested
<1>5. \A k : Held(k)' <=> Held(k)
  BY DEF Held
<1>6. ASSUME NEW conf, NEW S, Sound(conf, S) PROVE Sound(conf, S)'
  BY <1>5, <1>6 DEF Sound, TokenKey, ServerKey, AccountKey, Uncontested
<1>7. Sound(config, {})'
  <2>1. PICK conf : conf = config /\ Sound(conf, {})
    BY <1>2 DEF ResolveInv
  <2>2. Sound(conf, {})'
    BY <1>6, <2>1
  <2>3. QED
    BY <2>1, <2>2 DEF Sound
<1>8. ASSUME NEW c \in Commands PROVE SoundProcess(proc[c])' /\ Frees(c, proc[c])'
  <2>1. PICK p : p = proc[c] /\ SoundProcess(p) /\ Frees(c, p)
    BY <1>2 DEF ResolveInv
  <2>2. /\ p.phase \in ToSave => Sound(p.conf, Pending(p))'
        /\ p.phase \in Underway => Sound(p.old, {})'
    BY <1>6, <2>1 DEF SoundProcess
  <2>3. p.cmd = "login" /\ p.phase = "servers" /\ p.acct \in Uncontested' =>
          p.acct \in p.conf.accounts /\ Held(AccountKey(p.acct))'
    BY <1>1, <1>5, <2>1 DEF SoundProcess
  <2>4. SoundProcess(p)'
    BY <2>1, <2>2, <2>3 DEF SoundProcess
  <2>5. SoundProcess(proc[c])'
    <3>1. SoundProcess(proc[c])' <=> SoundProcess(p)'
      BY <2>1
    <3>2. QED
      BY <2>4, <3>1
  <2>6. Frees(c, proc[c])'
    BY <2>1 DEF Frees, Unnamed, Uncontested, NamesKey, TokenKey, ServerKey, AccountKey
  <2>7. QED
    BY <2>5, <2>6
<1>9. QED
  BY <1>3, <1>4, <1>7, <1>8

LEMMA NextResolveInv == ResolveInv /\ [AccountsNext]_vars => ResolveInv'
<1> SUFFICES ASSUME ResolveInv, [AccountsNext]_vars PROVE ResolveInv'
  OBVIOUS
<1>1. KeepInv' /\ CommandInv
  BY NextKeepInv DEF ResolveInv, KeepInv
<1>2. CASE UNCHANGED vars
  BY <1>1, <1>2, SameResolveInv DEF vars, storeVars, Works
<1>3. CASE PartFlips
  <2>1. PICK part \in Parts :
          Flips(part) /\ contested' = IF part = "keyring" THEN Account ELSE contested
    BY <1>3 DEF PartFlips
  <2>2. UNCHANGED <<keyring, tokenFile, call, config, proc>>
    BY <1>3, <2>1 DEF PartFlips, Flips
  <2>3. CASE part = "keyring"
    <3>1. Uncontested' = {}
      BY <2>1, <2>3 DEF Uncontested
    <3>2. QED
      BY <1>1, <3>1 DEF ResolveInv
  <2>4. CASE part # "keyring"
    <3>1. Works("keyring")' <=> Works("keyring")
      BY <2>1, <2>4 DEF Flips, Works
    <3>2. QED
      BY <1>1, <2>1, <2>2, <2>4, <3>1, SameResolveInv
  <2>5. QED
    BY <2>3, <2>4
<1>4. ASSUME NEW c \in Commands, Acts(c) PROVE ResolveInv'
  <2>1. CASE Uncontested' = {}
    BY <1>1, <2>1 DEF ResolveInv
  <2>2. CASE Uncontested' # {} /\ Begins(c)
    BY <1>1, <2>2, BeginsResolve
  <2>3. CASE Uncontested' # {} /\ ~Begins(c)
    <3>1. PICK p, q : p = proc[c] /\ q = proc'[c]
      OBVIOUS
    <3>2. Goes(p, q)
      BY <1>4, <2>3, <3>1, CommandsGo
    <3>3. Carries(p, q) /\ Concerns(q) \cap Account \subseteq Concerns(p)
      BY <3>2 DEF Goes
    <3>4. Apart'
      BY <1>4, <2>3, <3>1, <3>3, ApartStays
    <3>5. q.cmd = "logout" => Concerns(q) \cap Account \subseteq contested'
      <4>1. q.cmd = "logout" => p.cmd = "logout"
        BY <1>1, <1>4, <2>3, <3>1, SameCommand
      <4>2. SoundProcess(p) /\ contested \subseteq contested'
        BY <1>1, <1>4, <2>3, <3>1, ActsContest DEF ResolveInv, Uncontested
      <4>3. QED
        BY <3>3, <4>1, <4>2 DEF SoundProcess
    <3>6. QED
      BY <1>1, <1>4, <2>3, <3>1, <3>3, <3>4, <3>5, StepResolves
  <2>4. QED
    BY <2>1, <2>2, <2>3
<1>5. QED
  BY <1>2, <1>3, <1>4, StepsOfCommands

\* A profile on disk whose account is uncontested belongs to a configured
\* account and its credential can be read, however many commands run for other
\* accounts and wherever each of them is interrupted or fails: a credential is
\* stored before the configuration that names it, and what the undoing of an
\* import deletes nothing else names.
THEOREM SavedProfilesWork == Spec => []SavedProfilesResolve
<1>1. ResolveInv => SavedProfilesResolve
  <2> SUFFICES ASSUME ResolveInv, NEW id \in Machines, config.profiles[id] # NoProfile,
                      config.profiles[id].acct \notin contested
               PROVE  /\ Connection(config, id) = [key |-> TokenKey(config, id)]
                      /\ Get(Connection(config, id).key) # NoToken
    BY DEF SavedProfilesResolve
  <2>1. PICK k : k = TokenKey(config, id)
    OBVIOUS
  <2>2. config \in Config
    BY DEF ResolveInv, KeepInv, CommandInv, RestTyped
  <2>3. k \in Keys /\ config.profiles[id].acct \in Uncontested
    BY <2>1, <2>2, KeysTyped DEF Uncontested
  <2>4. config.profiles[id].acct \in config.accounts /\ Held(k)
    BY <2>1, <2>3 DEF ResolveInv, Sound
  <2>5. id # NoName
    BY AccountsAssumption
  <2>6. Connection(config, id) = [key |-> k]
    BY <2>1, <2>4, <2>5 DEF Connection
  <2>7. Unreadable # NoToken
    BY AccountsAssumption DEF Entry
  <2>8. Get(k) # NoToken
    BY <2>4, <2>7 DEF Held, Get, FileFallback
  <2>9. QED
    BY <2>1, <2>6, <2>8
<1>2. QED
  BY <1>1, InitResolveInv, NextResolveInv, PTL DEF Spec

(***************************************************************************)
(* The configuration refers to itself: that no save of a configuration     *)
(* loaded long ago breaks it needs that every copy in memory does, but for *)
(* the account that its command is about to log out.                       *)
(***************************************************************************)
Refers(conf, S) ==
  /\ conf.curAccount \in conf.accounts \cup S \cup {NoAccount}
  /\ \A id \in Machines : conf.profiles[id] # NoProfile => conf.profiles[id].acct \in conf.accounts \cup S

Leaving(p) ==
  IF p.cmd = "logout" /\ (p.phase \in {"account", "servers"} \/ p.failed) THEN {p.acct} ELSE {}

RefersProcess(p, S) ==
  /\ Refers(p.old, S)
  /\ Refers(p.conf, S \cup Leaving(p))
  /\ p.cmd = "logout" /\ (p.phase = "account" \/ (p.phase = "servers" /\ ~p.failed)) =>
       ProfilesOf(p.conf, p.acct) \subseteq p.found
  /\ p.cmd = "login" /\ p.phase = "servers" => p.acct \in p.conf.accounts

RefersInv ==
  /\ CommandInv
  /\ Refers(config, halfway)
  /\ \A c \in Commands : RefersProcess(proc[c], halfway)

StepRefers(c) == RefersProcess(proc'[c], halfway') /\ Refers(config', halfway') /\ halfway \subseteq halfway'

LEMMA RefersMore ==
  ASSUME NEW conf, NEW S, NEW T, Refers(conf, S), S \subseteq T
  PROVE  Refers(conf, T)
BY DEF Refers

LEMMA RefersProcessMore ==
  ASSUME NEW p, NEW S, NEW T, RefersProcess(p, S), S \subseteq T
  PROVE  RefersProcess(p, T)
<1>1. S \cup Leaving(p) \subseteq T \cup Leaving(p)
  OBVIOUS
<1>2. Refers(p.old, T) /\ Refers(p.conf, T \cup Leaving(p))
  BY <1>1, RefersMore DEF RefersProcess
<1>3. QED
  BY <1>2 DEF RefersProcess

LEMMA EmptyRefers == \A S : Refers(EmptyConfig, S)
BY DEF EmptyConfig, Refers

LEMMA IdleRefers ==
  ASSUME NEW S, NEW p, p.conf = EmptyConfig, p.old = EmptyConfig, p.cmd # "logout",
         p.cmd # "login" \/ p.phase # "servers"
  PROVE  RefersProcess(p, S)
BY EmptyRefers DEF RefersProcess

LEMMA SteadyRefers ==
  ASSUME RefersInv, NEW c \in Commands, RefersProcess(proc'[c], halfway), Local(c) \/ Writes(c)
  PROVE  StepRefers(c)
BY DEF RefersInv, StepRefers, Local, Writes

LEMMA EndsRefer ==
  ASSUME RefersInv, NEW c \in Commands, End(c) \/ Fails(c)
  PROVE  RefersProcess(proc'[c], halfway)
<1> DEFINE p == proc[c]
           q == proc'[c]
<1>1. p \in Process /\ (\A r : Become(c, r) => q = r) /\ RefersProcess(p, halfway)
  BY Becomes DEF RefersInv
<1>2. CASE End(c) /\ p.cmd = "logout"
  <2>1. q = [p EXCEPT !.phase = "ended", !.conf = EmptyConfig]
    BY <1>1, <1>2 DEF End
  <2>2. q.phase = "ended" /\ q.conf = EmptyConfig /\ q.old = p.old
    BY <1>1, <2>1 DEF Process
  <2> HIDE DEF q
  <2>3. QED
    BY <1>1, <2>2, EmptyRefers DEF RefersProcess, q
<1>3. CASE End(c) /\ p.cmd # "logout"
  <2>1. q = [Idle EXCEPT !.phase = "ended"]
    BY <1>1, <1>3 DEF End
  <2>2. q.conf = EmptyConfig /\ q.old = EmptyConfig /\ q.cmd = "none"
    BY <2>1 DEF Idle
  <2>3. QED
    BY <2>2, IdleRefers
<1>4. CASE p.cmd = "import" /\ Goto(c, "failed")
  <2>1. q = [p EXCEPT !.phase = "failed"]
    BY <1>1, <1>4 DEF Goto
  <2>2. q.phase = "failed" /\ q.conf = p.conf /\ q.old = p.old /\ q.cmd = "import"
    BY <1>1, <1>4, <2>1 DEF Process
  <2> HIDE DEF q
  <2>3. QED
    BY <1>1, <1>4, <2>2 DEF RefersProcess, Leaving, q
<1>5. QED
  BY <1>2, <1>3, <1>4 DEF Fails

LEMMA LoadsRefer ==
  ASSUME RefersInv, NEW c \in Commands, NEW r \in Process, NEW conf \in Config, Loads(c, r, conf),
         Refers(conf, halfway), r.cmd = "logout" => ProfilesOf(conf, r.acct) \subseteq r.found,
         r.phase # "servers"
  PROVE  StepRefers(c)
<1> DEFINE q == proc'[c]
<1>1. q = [r EXCEPT !.conf = conf, !.old = config]
  BY Becomes DEF Loads, RefersInv
<1>2. q.conf = conf /\ q.old = config /\ q.phase = r.phase /\ q.cmd = r.cmd /\ q.acct = r.acct
      /\ q.found = r.found
  BY <1>1 DEF Process
<1> HIDE DEF q
<1>3. Refers(conf, halfway \cup Leaving(q)) /\ Refers(config, halfway)
  BY RefersMore DEF RefersInv
<1>4. RefersProcess(q, halfway)
  BY <1>2, <1>3 DEF RefersProcess
<1>5. config' = config /\ halfway' = halfway
  BY DEF Loads
<1>6. QED
  BY <1>3, <1>4, <1>5 DEF StepRefers, q

LEMMA EditsRefer ==
  ASSUME NEW conf \in Config, NEW S, Refers(conf, S), NEW next \in Edited(conf)
  PROVE  Refers(next, S)
<1>1. next.accounts = conf.accounts /\ next.profiles = conf.profiles
  BY DEF Edited, ConfigSet, ConfigUse, AccountsUse, ServersUse, Config
<1>2. next.curAccount \in conf.accounts \cup S \cup {NoAccount}
  <2>1. ASSUME NEW n PROVE ConfigSet(conf, n).curAccount = conf.curAccount
                           /\ ConfigUse(conf, n).curAccount = conf.curAccount
    BY DEF ConfigSet, ConfigUse, Config
  <2>2. ASSUME NEW a \in conf.accounts PROVE AccountsUse(conf, a).curAccount = a
    BY DEF AccountsUse, Config
  <2>3. ASSUME NEW id \in Machines PROVE ServersUse(conf, id).curAccount = conf.profiles[id].acct
    BY DEF ServersUse, Config
  <2>4. QED
    BY <2>1, <2>2, <2>3 DEF Edited, Refers
<1>3. QED
  BY <1>1, <1>2 DEF Refers

\* New profiles belong to an account that is configured.
LEMMA ProfilesRefer ==
  ASSUME NEW conf \in Config, NEW a \in Account, NEW ids \in SUBSET Machines, NEW own \in SUBSET Machines,
         NEW S, Refers(conf, S), NEW next, next.curAccount \in {conf.curAccount, a},
         next.accounts = conf.accounts \cup {a}, next.profiles = WithProfiles(conf, a, ids, own).profiles
  PROVE  Refers(next, S)
<1>1. \A id \in Machines : \/ next.profiles[id] = conf.profiles[id]
                           \/ next.profiles[id] \in [acct : {a}, own : BOOLEAN]
  BY WithProfilesKeeps
<1>2. ASSUME NEW id \in Machines, next.profiles[id] # NoProfile
      PROVE  next.profiles[id].acct \in next.accounts \cup S
  BY <1>1, <1>2 DEF Refers
<1>3. QED
  BY <1>2 DEF Refers

LEMMA LoginRefers ==
  ASSUME RefersInv, NEW c \in Commands, LoginSteps(c)
  PROVE  StepRefers(c)
<1> DEFINE p == proc[c]
<1>1. p \in Process /\ Shaped(p, call[c]) /\ RefersProcess(p, halfway) /\ config \in Config /\ CommandInv
  BY ProcTyped DEF RefersInv
<1>2. \A q : Become(c, q) => proc'[c] = q
  BY <1>1, Becomes
<1>3. ASSUME UNCHANGED proc, Writes(c) PROVE StepRefers(c)
  BY <1>1, <1>3, SteadyRefers
<1>4. CASE LoginLoads(c)
  <2> DEFINE r == [p EXCEPT !.phase = "account"]
  <2>1. p.cmd = "login" /\ p.acct \in Account
    BY <1>1, <1>4 DEF LoginLoads, At, Shaped
  <2>2. PICK d \in Discoveries[p.acct] : Loads(c, Finds(r, d), config)
    BY <1>4 DEF LoginLoads
  <2>3. r \in Process /\ r.phase = "account" /\ r.cmd = "login"
    BY <1>1, <2>1 DEF Process, Phases
  <2> HIDE DEF r
  <2>4. Finds(r, d) \in Process /\ Finds(r, d).phase = "account" /\ Finds(r, d).cmd = "login"
    BY <2>1, <2>3, FindsTyped
  <2>5. QED
    BY <1>1, <2>2, <2>4, LoadsRefer DEF RefersInv
<1>5. CASE LoginAccountStored(c)
  <2>1. p.cmd = "login" /\ p.phase = "account" /\ p.acct \in Account /\ Writes(c)
    BY <1>1, <1>5 DEF LoginAccountStored, Calling, Shaped
  <2>2. Become(c, [p EXCEPT !.phase = "servers", !.conf.accounts = @ \cup {p.acct}]) \/ Fails(c)
    BY <1>5 DEF LoginAccountStored
  <2>3. CASE Fails(c)
    BY <2>1, <2>3, EndsRefer, SteadyRefers
  <2>4. CASE Become(c, [p EXCEPT !.phase = "servers", !.conf.accounts = @ \cup {p.acct}])
    <3> DEFINE q == proc'[c]
    <3>1. q = [p EXCEPT !.phase = "servers", !.conf.accounts = @ \cup {p.acct}]
      BY <1>2, <2>4
    <3>2. q.old = p.old /\ q.cmd = "login" /\ q.acct = p.acct
          /\ q.conf.accounts = p.conf.accounts \cup {p.acct} /\ q.conf.profiles = p.conf.profiles
          /\ q.conf.curAccount = p.conf.curAccount
      BY <1>1, <2>1, <3>1 DEF Process, Config
    <3> HIDE DEF q
    <3>3. Refers(p.old, halfway) /\ Refers(p.conf, halfway)
      BY <1>1, <2>1 DEF RefersProcess, Leaving
    <3>4. Refers(q.conf, halfway)
      BY <3>2, <3>3 DEF Refers
    <3>5. RefersProcess(q, halfway)
      BY <3>2, <3>3, <3>4 DEF RefersProcess, Leaving
    <3>6. QED
      BY <2>1, <3>5, SteadyRefers DEF q
  <2>5. QED
    BY <2>2, <2>3, <2>4
<1>6. ASSUME NEW id \in Machines, AddServer(c, id), p.cmd = "login", p.phase = "servers", Local(c) \/ Writes(c)
      PROVE  StepRefers(c)
  <2> DEFINE w == WithProfiles(p.conf, p.acct, {id}, p.own)
             f == FirstServer(p.conf, {id}, id)
             q == proc'[c]
  <2>1. p.acct \in Account /\ p.conf \in Config /\ p.own \in SUBSET Machines /\ {id} \in SUBSET Machines
    BY <1>1, <1>6 DEF Shaped, Process
  <2>2. w \in Config /\ w.accounts = p.conf.accounts /\ w.curAccount = p.conf.curAccount
    <3>1. w \in Config
      BY <2>1, ConfigsTyped
    <3>2. w.accounts = p.conf.accounts
      BY <2>1, WithProfilesKeeps
    <3>3. w.curAccount = p.conf.curAccount
      BY <2>1, WithProfilesKeeps
    <3>4. QED
      BY <3>1, <3>2, <3>3
  <2>3. q = [p EXCEPT !.found = @ \ {id}, !.conf = [w EXCEPT !.curServer = f]]
    BY <1>2, <1>6 DEF AddServer
  <2>4. w.profiles = WithProfiles(p.conf, p.acct, {id}, p.own).profiles
    OBVIOUS
  <2> HIDE DEF w, f
  <2>5. q.phase = "servers" /\ q.old = p.old /\ q.cmd = "login" /\ q.acct = p.acct
        /\ q.conf = [w EXCEPT !.curServer = f]
    BY <1>1, <1>6, <2>3 DEF Process
  <2>6. q.conf.accounts = w.accounts /\ q.conf.profiles = w.profiles /\ q.conf.curAccount = w.curAccount
    BY <2>2, <2>5 DEF Config
  <2> HIDE DEF q
  <2>7. Refers(p.old, halfway) /\ Refers(p.conf, halfway) /\ p.acct \in p.conf.accounts
    BY <1>1, <1>6 DEF RefersProcess, Leaving
  <2>8. Refers(q.conf, halfway)
    BY <2>1, <2>2, <2>4, <2>6, <2>7, ProfilesRefer
  <2>9. RefersProcess(q, halfway)
    BY <2>2, <2>5, <2>6, <2>7, <2>8 DEF RefersProcess, Leaving
  <2>10. QED
    BY <1>6, <2>9, SteadyRefers DEF q
<1>7. CASE LoginServer(c)
  <2>1. p.cmd = "login" /\ p.phase = "servers" /\ p.found \in SUBSET Machines
    BY <1>1, <1>7 DEF LoginServer, At, Process
  <2>2. PICK id \in p.found : (Writes(c) /\ UNCHANGED proc) \/ (AddServer(c, id) /\ Local(c))
    BY <1>7 DEF LoginServer
  <2>3. QED
    BY <1>3, <1>6, <2>1, <2>2
<1>8. CASE LoginServerStored(c)
  <2>1. p.cmd = "login" /\ p.phase = "servers" /\ call[c] # NoCall /\ Writes(c)
    BY <1>8 DEF LoginServerStored, Calling
  <2>2. PICK id \in p.found \cap p.own : Sets(call[c], ServerKey(p.acct, id), p.token)
    BY <1>1, <2>1 DEF Shaped, CallFits
  <2>3. id \in Machines /\ call[c].key.id = id
    BY <1>1, <2>2 DEF Process, Sets, ServerKey
  <2>4. CASE Fails(c)
    BY <2>1, <2>4, EndsRefer, SteadyRefers
  <2>5. CASE AddServer(c, id)
    BY <1>6, <2>1, <2>3, <2>5
  <2>6. QED
    BY <1>8, <2>3, <2>4, <2>5 DEF LoginServerStored
<1>9. CASE LoginStored(c)
  <2> DEFINE q == proc'[c]
  <2>1. p.cmd = "login" /\ p.phase = "servers" /\ Local(c)
    BY <1>9 DEF LoginStored, At
  <2>2. q = [p EXCEPT !.phase = "save", !.conf.curAccount = IF @ = NoAccount THEN p.acct ELSE @]
    BY <1>2, <1>9 DEF LoginStored
  <2>3. q.phase = "save" /\ q.old = p.old /\ q.cmd = "login"
        /\ q.conf.accounts = p.conf.accounts /\ q.conf.profiles = p.conf.profiles
        /\ q.conf.curAccount \in {p.acct, p.conf.curAccount}
    BY <1>1, <2>1, <2>2 DEF Process, Config
  <2> HIDE DEF q
  <2>4. Refers(p.old, halfway) /\ Refers(p.conf, halfway) /\ p.acct \in p.conf.accounts
    BY <1>1, <2>1 DEF RefersProcess, Leaving
  <2>5. Refers(q.conf, halfway)
    BY <2>3, <2>4 DEF Refers
  <2>6. RefersProcess(q, halfway)
    BY <2>3, <2>4, <2>5 DEF RefersProcess, Leaving
  <2>7. QED
    BY <2>1, <2>6, SteadyRefers DEF q
<1>10. QED
  BY <1>3, <1>4, <1>5, <1>7, <1>8, <1>9 DEF LoginSteps, LoginAccount

LEMMA ImportLoadsRefers ==
  ASSUME RefersInv, NEW c \in Commands, ImportLoads(c)
  PROVE  StepRefers(c)
<1> DEFINE a == proc[c].acct
           r == [proc[c] EXCEPT !.phase = "journal", !.seen = [k \in Keys |-> Get(k)]]
<1>1. proc[c] \in Process /\ proc[c].cmd = "import" /\ a \in Account /\ config \in Config /\ CommandInv
  BY ProcTyped DEF ImportLoads, At, Shaped, RefersInv
<1>2. [k \in Keys |-> Get(k)] \in Read
  BY <1>1, GetTyped DEF CommandInv, Read
<1>3. r \in Process /\ r.phase = "journal" /\ r.cmd = "import" /\ r.acct = a
  BY <1>1, <1>2 DEF Process, Phases
<1>4. PICK d \in Discoveries[a], first \in Machines :
        /\ DOMAIN d # {} => first \in DOMAIN d
        /\ Loads(c, Finds(r, d), [WithProfiles(config, a, Finds(r, d).found, Finds(r, d).own) EXCEPT
                                    !.accounts = @ \cup {a}, !.curAccount = a,
                                    !.curServer = FirstServer(config, Finds(r, d).found, first)])
  BY DEF ImportLoads
<1> HIDE DEF a, r
<1> DEFINE p == Finds(r, d)
           w == WithProfiles(config, a, p.found, p.own)
           f == FirstServer(config, p.found, first)
           conf == [w EXCEPT !.accounts = @ \cup {a}, !.curAccount = a, !.curServer = f]
<1>5. p \in Process /\ p.phase = "journal" /\ p.cmd = "import" /\ p.found = DOMAIN d
      /\ p.found \in SUBSET Machines /\ p.own \in SUBSET Machines
  BY <1>1, <1>3, FindsTyped DEF Process
<1>6. Loads(c, p, conf)
  BY <1>4
<1> HIDE DEF p
<1>7. w \in Config /\ w.accounts = config.accounts /\ w.profiles = WithProfiles(config, a, p.found, p.own).profiles
  <2>1. w \in Config
    BY <1>1, <1>5, ConfigsTyped
  <2>2. w.accounts = config.accounts
    BY <1>1, <1>5, WithProfilesKeeps
  <2>3. QED
    BY <2>1, <2>2
<1>8. f \in Machines \cup {NoMachine}
  <2>1. CASE p.found = {}
    BY <1>1, <2>1 DEF FirstServer, Config
  <2>2. CASE p.found # {}
    BY <1>1, <1>4, <1>5, <2>2, ConfigsTyped
  <2>3. QED
    BY <2>1, <2>2
<1> HIDE DEF w, f
<1>9. conf \in Config /\ conf.accounts = config.accounts \cup {a} /\ conf.profiles = w.profiles
      /\ conf.curAccount = a
  BY <1>1, <1>7, <1>8 DEF Config
<1> HIDE DEF conf
<1>10. Refers(conf, halfway)
  BY <1>1, <1>5, <1>7, <1>9, ProfilesRefer DEF RefersInv
<1>11. QED
  BY <1>5, <1>6, <1>9, <1>10, LoadsRefer

\* A step of an import that loads nothing keeps both configurations in memory.
LEMMA ImportGoesOnRefers ==
  ASSUME NEW p, NEW q, NEW S, RefersProcess(p, S), p.cmd = "import",
         q.cmd = p.cmd, q.old = p.old, q.conf = p.conf
  PROVE  RefersProcess(q, S)
BY DEF RefersProcess, Leaving

LEMMA ImportRefers ==
  ASSUME RefersInv, NEW c \in Commands, ImportSteps(c)
  PROVE  StepRefers(c)
<1> DEFINE p == proc[c]
           q == proc'[c]
<1>1. p \in Process /\ RefersProcess(p, halfway) /\ Refers(config, halfway) /\ CommandInv
  BY Becomes DEF RefersInv
<1>2. \A r : Become(c, r) => q = r
  BY <1>1, Becomes
<1>3. CASE ImportNext(c)
  <2>1. CASE End(c)
    BY <1>3, <2>1, EndsRefer, SteadyRefers DEF ImportNext
  <2>2. CASE \E a \in p.names, empty \in BOOLEAN :
               Become(c, [Idle EXCEPT !.cmd = "import", !.names = p.names \ {a}, !.acct = a,
                                      !.token = p.token, !.phase = IF empty THEN "next" ELSE "plex"])
    <3>1. PICK a \in p.names, empty \in BOOLEAN :
               q = [Idle EXCEPT !.cmd = "import", !.names = p.names \ {a}, !.acct = a,
                                      !.token = p.token, !.phase = IF empty THEN "next" ELSE "plex"]
      BY <1>2, <2>2
    <3>2. q.conf = EmptyConfig /\ q.old = EmptyConfig /\ q.cmd = "import"
      BY <3>1 DEF Idle
    <3> HIDE DEF q
    <3>3. RefersProcess(q, halfway)
      BY <3>2, IdleRefers
    <3>4. QED
      BY <1>3, <3>3, SteadyRefers DEF q, ImportNext
  <2>3. QED
    BY <1>3, <2>1, <2>2 DEF ImportNext
<1>4. CASE ImportWrites(c) \/ ImportUndoes(c)
  BY <1>1, <1>4, SteadyRefers DEF ImportWrites, ImportUndoes
<1>5. ASSUME p.cmd = "import", q.cmd = p.cmd, q.old = p.old, q.conf = p.conf
      PROVE  RefersProcess(q, halfway)
  BY <1>1, <1>5, ImportGoesOnRefers
<1>6. ASSUME NEW phase, Goto(c, phase) PROVE q.cmd = p.cmd /\ q.old = p.old /\ q.conf = p.conf
  BY <1>1, <1>2, <1>6 DEF Goto, Process
<1>7. ASSUME NEW after \in {"failed", "restore"}, Undo(c, after)
      PROVE  q.cmd = p.cmd /\ q.old = p.old /\ q.conf = p.conf
  BY <1>1, <1>7, UndoIsOnward DEF Onward
<1>8. CASE ImportJournals(c)
  <2>1. p.cmd = "import" /\ Local(c)
    BY <1>8 DEF ImportJournals, At
  <2>2. CASE Undo(c, "failed")
    BY <1>5, <1>7, <2>1, <2>2, SteadyRefers
  <2>3. CASE \E k : Become(c, [p EXCEPT !.phase = "write",
                                        !.journal = Append(@, [key |-> k, prior |-> Get(k)])])
    <3>1. PICK k : q = [p EXCEPT !.phase = "write",
                                 !.journal = Append(@, [key |-> k, prior |-> Get(k)])]
      BY <1>2, <2>3
    <3>2. q.cmd = p.cmd /\ q.old = p.old /\ q.conf = p.conf
      BY <1>1, <3>1 DEF Process
    <3>3. QED
      BY <1>5, <2>1, <3>2, SteadyRefers
  <2>4. QED
    BY <1>8, <2>2, <2>3 DEF ImportJournals
<1>9. CASE ImportWritten(c) \/ ImportStored(c) \/ ImportFailed(c)
  <2>1. p.cmd = "import" /\ (Local(c) \/ Writes(c))
    BY <1>9 DEF ImportWritten, ImportStored, ImportFailed, At, Calling
  <2>2. Undo(c, "failed") \/ \E phase : Goto(c, phase)
    BY <1>9 DEF ImportWritten, ImportStored, ImportFailed
  <2>3. q.cmd = p.cmd /\ q.old = p.old /\ q.conf = p.conf
    BY <1>6, <1>7, <2>2
  <2>4. QED
    BY <1>5, <2>1, <2>3, SteadyRefers
<1>10. CASE ImportUndone(c)
  <2> DEFINE rest == SubSeq(p.journal, 1, Len(p.journal) - 1)
             ph == IF rest = <<>> THEN p.after ELSE "undo"
  <2>1. p.cmd = "import" /\ Writes(c)
    BY <1>10 DEF ImportUndone, Calling
  <2>2. q = [p EXCEPT !.journal = rest, !.phase = ph]
    BY <1>2, <1>10 DEF ImportUndone
  <2> HIDE DEF rest, ph
  <2>3. q.cmd = p.cmd /\ q.old = p.old /\ q.conf = p.conf
    BY <1>1, <2>2 DEF Process
  <2>4. QED
    BY <1>5, <2>1, <2>3, SteadyRefers
<1>11. CASE ImportSaves(c) \/ ImportRestores(c)
  <2>1. p.cmd = "import" /\ config' \in {config, p.conf, p.old} /\ halfway' = halfway
    BY <1>11 DEF ImportSaves, ImportRestores, Save, At
  <2>2. Undo(c, "restore") \/ \E phase : Goto(c, phase)
    BY <1>11 DEF ImportSaves, ImportRestores, Save
  <2>3. RefersProcess(q, halfway)
    BY <1>5, <1>6, <1>7, <2>1, <2>2
  <2>4. Refers(p.old, halfway) /\ Refers(p.conf, halfway)
    BY <1>1, <2>1 DEF RefersProcess, Leaving
  <2>5. QED
    BY <1>1, <2>1, <2>3, <2>4 DEF StepRefers
<1>12. QED
  BY <1>3, <1>4, <1>8, <1>9, <1>10, <1>11, ImportLoadsRefers DEF ImportSteps

LEMMA WithoutRefers ==
  ASSUME NEW conf \in Config, NEW S, Refers(conf, S), NEW id \in Machines
  PROVE  Refers(Without(conf, id), S)
<1>1. Without(conf, id).accounts = conf.accounts /\ Without(conf, id).curAccount = conf.curAccount
      /\ \A i \in Machines : Without(conf, id).profiles[i] \in {conf.profiles[i], NoProfile}
  BY DEF Without, Config
<1>2. QED
  BY <1>1 DEF Refers

LEMMA WithoutForgets ==
  ASSUME NEW conf \in Config, NEW a, NEW id \in Machines, NEW found \in SUBSET Machines,
         ProfilesOf(conf, a) \subseteq found
  PROVE  ProfilesOf(Without(conf, id), a) \subseteq found \ {id}
<1>1. Without(conf, id).profiles[id] = NoProfile
      /\ \A i \in Machines : i # id => Without(conf, id).profiles[i] = conf.profiles[i]
  BY DEF Without, Config
<1>2. QED
  BY <1>1 DEF ProfilesOf

LEMMA LogoutRefers ==
  ASSUME RefersInv, NEW c \in Commands, LogoutSteps(c)
  PROVE  StepRefers(c)
<1> DEFINE p == proc[c]
           q == proc'[c]
           S == halfway \cup {p.acct}
<1>1. p \in Process /\ Shaped(p, call[c]) /\ RefersProcess(p, halfway) /\ config \in Config /\ CommandInv
  BY ProcTyped DEF RefersInv
<1>2. \A r : Become(c, r) => q = r
  BY <1>1, Becomes
<1>3. CASE LogoutLoads(c)
  <2>1. p.cmd = "logout"
    BY <1>3 DEF LogoutLoads, At
  <2>2. PICK a \in p.names :
         IF a \in config.accounts
         THEN Loads(c, [p EXCEPT !.phase = "account", !.acct = a,
                                !.found = ProfilesOf(config, a), !.seen = tokenFile], config)
         ELSE Fails(c) /\ Local(c)
    BY <1>3 DEF LogoutLoads
  <2>3. CASE a \in config.accounts
    <3> DEFINE r == [p EXCEPT !.phase = "account", !.acct = a,
                          !.found = ProfilesOf(config, a), !.seen = tokenFile]
    <3>1. a \in Account /\ ProfilesOf(config, a) \in SUBSET Machines /\ tokenFile \in Read
      BY <1>1, <2>3, FileIsRead DEF Config, ProfilesOf
    <3>2. r \in Process /\ r.phase = "account" /\ r.acct = a /\ r.found = ProfilesOf(config, a)
      BY <1>1, <3>1 DEF Process, Phases
    <3>3. Loads(c, r, config)
      BY <2>2, <2>3
    <3> HIDE DEF r
    <3>4. QED
      BY <1>1, <3>2, <3>3, LoadsRefer DEF RefersInv
  <2>4. CASE a \notin config.accounts
    BY <2>2, <2>4, EndsRefer, SteadyRefers
  <2>5. QED
    BY <2>3, <2>4
<1>4. CASE LogoutAccount(c)
  BY <1>1, <1>4, SteadyRefers DEF LogoutAccount
\* Until the logout is done, its account may be missing.
<1>5. ASSUME p.cmd = "logout", p.phase \in {"account", "servers"}
      PROVE  Refers(p.old, halfway) /\ Refers(p.conf, S)
             /\ (p.phase = "account" \/ ~p.failed => ProfilesOf(p.conf, p.acct) \subseteq p.found)
  BY <1>1, <1>5 DEF RefersProcess, Leaving
<1>6. CASE LogoutAccountDeleted(c)
  <2>1. p.cmd = "logout" /\ p.phase = "account" /\ Writes(c) /\ p.conf \in Config
    BY <1>1, <1>6 DEF LogoutAccountDeleted, Calling, Process
  <2>2. PICK ok \in BOOLEAN :
          q = [p EXCEPT !.phase = "servers", !.failed = ~ok, !.conf.accounts = IF ok THEN @ \ {p.acct} ELSE @]
    BY <1>2, <1>6 DEF LogoutAccountDeleted
  <2>3. q.old = p.old /\ q.acct = p.acct /\ q.cmd = p.cmd /\ q.found = p.found /\ q.phase = "servers"
        /\ q.conf.profiles = p.conf.profiles /\ q.conf.curAccount = p.conf.curAccount
        /\ q.conf.accounts \in {p.conf.accounts, p.conf.accounts \ {p.acct}}
    BY <1>1, <2>1, <2>2 DEF Process, Config
  <2> HIDE DEF q
  <2>4. Refers(p.old, halfway) /\ Refers(p.conf, S) /\ ProfilesOf(p.conf, p.acct) \subseteq p.found
    BY <1>5, <2>1
  <2>5. Refers(q.conf, S)
    BY <2>3, <2>4 DEF Refers
  <2>6. ProfilesOf(q.conf, q.acct) \subseteq q.found
    BY <2>3, <2>4 DEF ProfilesOf
  <2>7. RefersProcess(q, halfway)
    BY <2>1, <2>3, <2>4, <2>5, <2>6 DEF RefersProcess, Leaving
  <2>8. QED
    BY <2>1, <2>7, SteadyRefers DEF q
<1>7. CASE LogoutServer(c)
  <2>1. p.cmd = "logout" /\ p.phase = "servers" /\ p.conf \in Config /\ p.found \in SUBSET Machines
    BY <1>1, <1>7 DEF LogoutServer, At, Process
  <2>2. PICK id \in p.found :
       \/ Writes(c) /\ UNCHANGED proc
       \/ Local(c) /\ q = [p EXCEPT !.found = @ \ {id}, !.conf = Without(@, id)]
    BY <1>2, <1>7 DEF LogoutServer
  <2>3. CASE Local(c) /\ q = [p EXCEPT !.found = @ \ {id}, !.conf = Without(@, id)]
    <3>1. q.conf = Without(p.conf, id) /\ q.old = p.old /\ q.acct = p.acct /\ q.cmd = p.cmd
          /\ q.found = p.found \ {id} /\ q.phase = p.phase /\ q.failed = p.failed
      BY <1>1, <2>3 DEF Process
    <3> HIDE DEF q
    <3>2. Refers(q.conf, S) /\ (~q.failed => ProfilesOf(q.conf, q.acct) \subseteq q.found)
      BY <1>5, <2>1, <2>2, <3>1, WithoutRefers, WithoutForgets
    <3>3. RefersProcess(q, halfway)
      BY <1>5, <2>1, <3>1, <3>2 DEF RefersProcess, Leaving
    <3>4. QED
      BY <2>3, <3>3, SteadyRefers DEF q
  <2>4. QED
    BY <1>1, <2>2, <2>3, SteadyRefers
<1>8. CASE LogoutServerDeleted(c)
  <2>1. p.cmd = "logout" /\ p.phase = "servers" /\ p.conf \in Config /\ p.found \in SUBSET Machines
        /\ Writes(c) /\ call[c] # NoCall
    BY <1>1, <1>8 DEF LogoutServerDeleted, Calling, Process
  <2>2. PICK id \in p.found : Deletes(call[c], ServerKey(p.acct, id))
    BY <1>1, <2>1 DEF Shaped, CallFits
  <2>3. call[c].key.id = id
    BY <2>2 DEF Deletes, ServerKey
  <2>4. PICK ok \in BOOLEAN :
          q = [p EXCEPT !.found = @ \ {id}, !.failed = @ \/ ~ok, !.conf = IF ok THEN Without(@, id) ELSE @]
    BY <1>2, <1>8, <2>3 DEF LogoutServerDeleted
  <2> DEFINE conf == IF ok THEN Without(p.conf, id) ELSE p.conf
  <2>5. q.conf = conf /\ q.old = p.old /\ q.acct = p.acct /\ q.cmd = p.cmd
        /\ q.found = p.found \ {id} /\ q.phase = p.phase
    BY <1>1, <2>4 DEF Process
  <2>6. q.failed = (p.failed \/ ~ok)
    BY <1>1, <2>4 DEF Process
  <2> HIDE DEF q
  <2>7. Refers(conf, S)
    BY <1>5, <2>1, <2>2, WithoutRefers
  <2>8. ~q.failed => ProfilesOf(conf, p.acct) \subseteq p.found \ {id}
    <3>1. SUFFICES ASSUME ~q.failed PROVE ProfilesOf(conf, p.acct) \subseteq p.found \ {id}
      OBVIOUS
    <3>2. ok /\ ~p.failed
      BY <2>6, <3>1
    <3>3. conf = Without(p.conf, id)
      BY <3>2
    <3>4. ProfilesOf(p.conf, p.acct) \subseteq p.found
      BY <1>5, <2>1, <3>2
    <3>5. QED
      BY <2>1, <2>2, <3>3, <3>4, WithoutForgets
  <2> HIDE DEF conf
  <2>9. RefersProcess(q, halfway)
    BY <1>5, <2>1, <2>5, <2>7, <2>8 DEF RefersProcess, Leaving
  <2>10. QED
    BY <2>1, <2>9, SteadyRefers DEF q
<1>9. CASE LogoutDeleted(c)
  <2> DEFINE conf == IF p.failed \/ p.conf.curAccount # p.acct THEN p.conf
                     ELSE [p.conf EXCEPT !.curAccount = NoAccount, !.curServer = NoMachine]
  <2>1. p.cmd = "logout" /\ p.phase = "servers" /\ p.conf \in Config /\ Local(c) /\ p.found = {}
    BY <1>1, <1>9 DEF LogoutDeleted, At, Process
  <2>2. q = [p EXCEPT !.phase = "save", !.conf = conf]
    BY <1>2, <1>9 DEF LogoutDeleted
  <2>3. q.conf = conf /\ q.old = p.old /\ q.acct = p.acct /\ q.cmd = p.cmd /\ q.failed = p.failed
        /\ q.phase = "save"
    BY <1>1, <2>2 DEF Process
  <2> HIDE DEF q
  <2>4. Refers(p.old, halfway) /\ Refers(p.conf, S)
    BY <1>5, <2>1
  <2>5. Refers(q.conf, halfway \cup Leaving(q))
    <3>1. CASE p.failed
      BY <2>1, <2>3, <2>4, <3>1 DEF Leaving
    <3>2. CASE ~p.failed
      <4>1. ProfilesOf(p.conf, p.acct) = {}
        BY <1>5, <2>1, <3>2
      <4>2. conf.curAccount # p.acct \/ conf.curAccount = NoAccount
        BY <2>1, <3>2 DEF Config
      <4>3. conf.curAccount \in {p.conf.curAccount, NoAccount} /\ conf.accounts = p.conf.accounts
            /\ conf.profiles = p.conf.profiles
        BY <2>1 DEF Config
      <4> HIDE DEF conf
      <4>4. Refers(conf, halfway)
        BY <2>4, <4>1, <4>2, <4>3 DEF Refers, ProfilesOf
      <4>5. QED
        BY <2>3, <4>4, RefersMore
    <3>3. QED
      BY <3>1, <3>2
  <2> HIDE DEF conf
  <2>6. RefersProcess(q, halfway)
    BY <2>1, <2>3, <2>4, <2>5 DEF RefersProcess
  <2>7. QED
    BY <2>1, <2>6, SteadyRefers DEF q
<1>10. QED
  BY <1>3, <1>4, <1>6, <1>7, <1>8, <1>9 DEF LogoutSteps

LEMMA BeginsRefer ==
  ASSUME RefersInv, NEW c \in Commands, Begins(c)
  PROVE  StepRefers(c)
<1>1. PICK cmd, accts, phase : Begin(c, cmd, accts, phase) /\ phase \in {"plex", "next", "load"}
  BY DEF Begins, LoginBegins, LogoutBegins, ImportBegins, EditBegins
<1> DEFINE q == proc'[c]
           a == IF cmd = "login" THEN CHOOSE a \in accts : TRUE ELSE NoAccount
           t == IF cmd \in {"login", "import"} THEN events' ELSE NoToken
<1>2. q = [Idle EXCEPT !.phase = phase, !.cmd = cmd, !.names = accts, !.acct = a, !.token = t]
  BY <1>1, Becomes DEF Begin, RefersInv
<1> HIDE DEF a, t
<1>3. q.conf = EmptyConfig /\ q.old = EmptyConfig /\ q.phase = phase
  BY <1>2, IdleTyped DEF Idle, Process
<1> HIDE DEF q
<1>4. RefersProcess(q, halfway)
  BY <1>1, <1>3, EmptyRefers DEF RefersProcess
<1>5. config' = config /\ halfway' = halfway
  BY <1>1 DEF Begin
<1>6. QED
  BY <1>4, <1>5 DEF StepRefers, RefersInv, q

\* The account of a logout that failed joins those that may be missing when the
\* logout saves.
LEMMA SaveRefers ==
  ASSUME RefersInv, NEW c \in Commands, SaveConfig(c)
  PROVE  StepRefers(c)
<1> DEFINE p == proc[c]
<1>1. RefersProcess(p, halfway) /\ Refers(config, halfway) /\ p.phase = "save" /\ End(c)
      /\ Save(c, p.conf, End(c))
  BY DEF RefersInv, SaveConfig, At, Save
<1>2. RefersProcess(proc'[c], halfway) /\ halfway \subseteq halfway'
  BY <1>1, EndsRefer DEF Save
<1>3. CASE Works("config")
  <2>1. config' = p.conf /\ halfway \cup Leaving(p) \subseteq halfway'
    BY <1>1, <1>3 DEF Save, Leaving
  <2>2. Refers(p.conf, halfway \cup Leaving(p))
    BY <1>1 DEF RefersProcess
  <2>3. QED
    BY <1>2, <2>1, <2>2, RefersMore, RefersProcessMore DEF StepRefers
<1>4. CASE ~Works("config")
  <2>1. config' = config
    BY <1>1, <1>4 DEF Save
  <2>2. QED
    BY <1>1, <1>2, <2>1, RefersMore, RefersProcessMore DEF StepRefers
<1>5. QED
  BY <1>3, <1>4

LEMMA OtherStepsRefer ==
  ASSUME RefersInv, NEW c \in Commands, EditLoads(c) \/ DiscoveryFails(c) \/ Ends(c) \/ Interrupted(c)
  PROVE  StepRefers(c)
<1> DEFINE p == proc[c]
<1>1. p \in Process /\ config \in Config /\ CommandInv
  BY ProcTyped DEF RefersInv
<1>2. CASE EditLoads(c)
  <2>1. p.cmd = "edit"
    BY <1>2 DEF EditLoads, At
  <2>2. CASE \E conf \in Edited(config) : Loads(c, [p EXCEPT !.phase = "save"], conf)
    <3>1. PICK conf \in Edited(config) : Loads(c, [p EXCEPT !.phase = "save"], conf)
      BY <2>2
    <3> DEFINE r == [p EXCEPT !.phase = "save"]
    <3>2. r \in Process /\ r.cmd = "edit" /\ r.phase = "save"
      BY <1>1, <2>1 DEF Process, Phases
    <3>3. Loads(c, r, conf)
      BY <3>1
    <3> HIDE DEF r
    <3>4. conf \in Config /\ Refers(conf, halfway)
      BY <1>1, <3>1, EditsTyped, EditsRefer DEF RefersInv
    <3>5. QED
      BY <3>2, <3>3, <3>4, LoadsRefer
  <2>3. CASE Fails(c) /\ Local(c)
    BY <2>3, EndsRefer, SteadyRefers
  <2>4. QED
    BY <1>2, <2>2, <2>3 DEF EditLoads
<1>3. CASE DiscoveryFails(c)
  BY <1>3, EndsRefer, SteadyRefers DEF DiscoveryFails
<1>4. CASE Ends(c) \/ Interrupted(c)
  <2>1. proc'[c] = Idle /\ config' = config /\ halfway' = halfway
    BY <1>1, <1>4, Becomes DEF Ends, Interrupted, Leave, Become
  <2>2. Idle.conf = EmptyConfig /\ Idle.old = EmptyConfig /\ Idle.cmd = "none"
    BY DEF Idle
  <2>3. RefersProcess(Idle, halfway)
    BY <2>2, IdleRefers
  <2>4. QED
    BY <2>1, <2>3 DEF StepRefers, RefersInv
<1>5. QED
  BY <1>2, <1>3, <1>4

LEMMA ActsRefer ==
  ASSUME RefersInv, NEW c \in Commands, Acts(c)
  PROVE  StepRefers(c)
BY BeginsRefer, LoginRefers, ImportRefers, LogoutRefers, SaveRefers, OtherStepsRefer DEF Acts

LEMMA InitRefersInv == AccountsInit => RefersInv
<1> SUFFICES ASSUME AccountsInit PROVE RefersInv
  OBVIOUS
<1>1. CommandInv /\ config \in InitialConfigs /\ \A c \in Commands : proc[c] = Idle
  BY InitCommandInv DEF AccountsInit
<1>2. Refers(config, halfway)
  BY <1>1, ConfigAssumption DEF Refers
<1>3. Idle.conf = EmptyConfig /\ Idle.old = EmptyConfig /\ Idle.cmd = "none"
  BY DEF Idle
<1>4. RefersProcess(Idle, halfway)
  BY <1>3, IdleRefers
<1>5. QED
  BY <1>1, <1>2, <1>4 DEF RefersInv

LEMMA NextRefersInv == RefersInv /\ [AccountsNext]_vars => RefersInv'
<1> SUFFICES ASSUME RefersInv, [AccountsNext]_vars PROVE RefersInv'
  OBVIOUS
<1>1. CommandInv'
  BY NextCommandInv DEF RefersInv
<1>2. CASE UNCHANGED vars \/ PartFlips
  <2>1. proc' = proc /\ config' = config /\ halfway' = halfway
    BY <1>2 DEF vars, PartFlips
  <2>2. QED
    BY <1>1, <2>1 DEF RefersInv, RefersProcess, Refers, Leaving, ProfilesOf
<1>3. ASSUME NEW c \in Commands, Acts(c) PROVE RefersInv'
  <2>1. StepRefers(c)
    BY <1>3, ActsRefer
  <2>2. Refers(config', halfway') /\ halfway \subseteq halfway'
    BY <2>1 DEF StepRefers
  <2>3. ASSUME NEW d \in Commands PROVE RefersProcess(proc'[d], halfway')
    <3>1. CASE d = c
      BY <2>1, <3>1 DEF StepRefers
    <3>2. CASE d # c
      <4>1. proc'[d] = proc[d]
        BY <1>3, <3>2, OthersStay DEF RefersInv
      <4>2. RefersProcess(proc[d], halfway)
        BY DEF RefersInv
      <4>3. QED
        BY <2>2, <4>1, <4>2, RefersProcessMore
    <3>3. QED
      BY <3>1, <3>2
  <2>4. Refers(config, halfway)'
    BY <2>2 DEF Refers
  <2>5. (\A d \in Commands : RefersProcess(proc[d], halfway))'
    BY <2>3 DEF RefersProcess, Refers, Leaving, ProfilesOf
  <2>6. QED
    BY <1>1, <2>4, <2>5 DEF RefersInv
<1>4. QED
  BY <1>2, <1>3, StepsOfCommands

\* However the commands overwrite each other's configuration, and wherever they
\* are interrupted or fail, the current account and the account of every profile
\* in the file are configured, but for those of a logout that failed half-way.
THEOREM ConfigurationRefers == Spec => []ConfigRefersToItself
<1>1. RefersInv => ConfigRefersToItself
  BY DEF RefersInv, Refers, ConfigRefersToItself
<1>2. QED
  BY <1>1, InitRefersInv, NextRefersInv, PTL DEF Spec
=============================================================================
