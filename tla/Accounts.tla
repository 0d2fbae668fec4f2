------------------------------ MODULE Accounts ------------------------------
(***************************************************************************)
(* The commands that change the configuration file and the credentials:    *)
(* auth login, auth import, auth logout, accounts use, servers use, config *)
(* init, set and use (internal/cli, internal/config, internal/authstore).  *)
(*                                                                         *)
(* Each command is a process with its own copy of the configuration: it    *)
(* loads the file, changes the copy and saves all of it by a rename, and   *)
(* nothing locks the file.  A command may be interrupted between any two   *)
(* steps.  What Plex.tv advertises and the servers validate is a function  *)
(* from profile keys to whether the server has an access token of its own. *)
(***************************************************************************)
EXTENDS CredentialStore, Sequences, FiniteSetsExt

CONSTANTS Account,
          Machines,     \* profile keys, numbered in their order as strings
          Names,        \* servers of the older configuration format
          Discoveries,  \* Discoveries[a]: what account a may discover
          ImportSets,   \* the accounts one import may be given
          InitialConfigs, InitiallyBroken,
          NoAccount, NoMachine, NoName, NoProfile, NoConnection,
          MaxEvents, MaxAttempts

ASSUME AccountsAssumption ==
  /\ Keys = [acct : Account, id : Machines \cup {NoMachine}]
  /\ Machines \subseteq Nat
  /\ 0 .. MaxEvents \subseteq Tokens
  /\ MaxAttempts \in Nat \ {0}
  /\ InitiallyBroken \subseteq SUBSET Parts
  /\ EnvToken \in [Keys -> Entry] /\ LegacyEnv \in [Keys -> Entry]
  /\ NoToken \notin Tokens /\ Unreadable \notin Entry \cup [Keys -> Entry]
  /\ NoAccount \notin Account /\ NoMachine \notin Machines /\ NoName \notin Machines
  /\ MaxEvents \in Nat
  /\ \A accts \in ImportSets : accts \subseteq Account /\ IsFiniteSet(accts)
  /\ \A a \in Account : \A d \in Discoveries[a] : DOMAIN d \subseteq Machines

AccountKey(a) == [acct |-> a, id |-> NoMachine]
ServerKey(a, id) == [acct |-> a, id |-> id]

Profile == [acct : Account, own : BOOLEAN]
Config == [accounts : SUBSET Account,
           profiles : [Machines -> Profile \cup {NoProfile}],
           curAccount : Account \cup {NoAccount},
           curServer : Machines \cup {NoMachine},
           servers : SUBSET Names,
           current : Names \cup {NoName}]

\* What earlier logins and imports saved.
ASSUME ConfigAssumption ==
  /\ NoProfile \notin Profile
  /\ InitialConfigs \subseteq Config
  /\ \A conf \in InitialConfigs, id \in Machines :
       conf.profiles[id] # NoProfile => conf.profiles[id].acct \in conf.accounts
  /\ \A conf \in InitialConfigs : conf.curAccount \in conf.accounts \cup {NoAccount}

EmptyConfig == [accounts |-> {}, profiles |-> [id \in Machines |-> NoProfile],
                curAccount |-> NoAccount, curServer |-> NoMachine,
                servers |-> {}, current |-> NoName]

EveryProfile(conf, a) == {id \in Machines : conf.profiles[id] # NoProfile}
ProfilesOf(conf, a) == {id \in Machines : /\ conf.profiles[id] # NoProfile
                                          /\ conf.profiles[id].acct = a}

TokenKey(conf, id) ==
  LET p == conf.profiles[id] IN IF p.own THEN ServerKey(p.acct, id) ELSE AccountKey(p.acct)

\* The keys the configuration names for account a.
KeysOf(conf, a) == {TokenKey(conf, id) : id \in ProfilesOf(conf, a)}
                     \cup (IF a \in conf.accounts THEN {AccountKey(a)} ELSE {})

VARIABLES
  config,     \* the configuration file
  proc,       \* proc[c]: the command c runs, see Idle
  events,     \* commands started, a longer import counted for each account, and parts
              \* flipped; the command that is the n-th event stores token n
  quiet,      \* commands since whose load nothing but themselves has changed anything
  contested,  \* accounts SavedProfilesResolve says nothing about, see Begin
  halfway     \* accounts a logout could not remove completely

vars == <<storeVars, config, proc, events, quiet, contested, halfway>>

Idle == [phase |-> "idle", cmd |-> "none", acct |-> NoAccount, token |-> NoToken,
         names |-> {},              \* import: the accounts still to do
         conf |-> EmptyConfig,      \* the configuration in memory
         old |-> EmptyConfig,       \* as it was loaded
         found |-> {},              \* profiles to store, or to log out
         own |-> {},                \* those among them with a token of their own
         journal |-> <<>>,          \* import: prior values of the keys written
         seen |-> <<>>,             \* import: what Get returned when it loaded,
                                    \* logout: what tokens.json held then
         after |-> "failed",        \* import: what follows the undoing
         failed |-> FALSE]          \* logout: a credential could not be deleted

AccountsTypeOK ==
  /\ StoreTypeOK
  /\ config \in Config
  /\ \A c \in Commands : /\ proc[c].conf \in Config
                         /\ proc[c].found \subseteq Machines
                         /\ proc[c].own \subseteq Machines
  /\ events \in 0 .. MaxEvents
  /\ quiet \subseteq Commands
  /\ contested \subseteq Account
  /\ halfway \subseteq Account

\* What earlier commands left: a configuration and the credentials it names, in
\* the file when the keyring fails, and in the keyring as well if it once worked.
AccountsInit ==
  /\ broken \in InitiallyBroken
  /\ config \in InitialConfigs
  /\ LET stored == [k \in Keys |-> IF \E a \in Account : k \in KeysOf(config, a) THEN 0 ELSE NoToken]
         none == [k \in Keys |-> NoToken]
     IN IF Works("keyring") THEN keyring = stored /\ tokenFile = none
        ELSE keyring \in {none, stored} /\ tokenFile = stored
  /\ call = [c \in Commands |-> NoCall]
  /\ proc = [c \in Commands |-> Idle]
  /\ events = 0
  /\ quiet = {}
  /\ contested = {}
  /\ halfway = {}

At(c, cmds, phase) == proc[c].cmd \in cmds /\ proc[c].phase = phase /\ call[c] = NoCall
Calling(c, cmds, phase) == proc[c].cmd \in cmds /\ proc[c].phase = phase /\ call[c] # NoCall

Become(c, p) == proc' = [proc EXCEPT ![c] = p]
Goto(c, phase) == Become(c, [proc[c] EXCEPT !.phase = phase])

\* What a finished logout leaves is compared with what it loaded.
End(c) ==
  IF proc[c].cmd = "logout" THEN Become(c, [proc[c] EXCEPT !.phase = "ended", !.conf = EmptyConfig])
  ELSE Become(c, [Idle EXCEPT !.phase = "ended"])

\* A failure that leaves nothing to undo: importOne returns to its loop.
Fails(c) == IF proc[c].cmd = "import" THEN Goto(c, "failed")
            ELSE End(c)

Local(c) == UNCHANGED <<storeVars, config, events, quiet, contested, halfway>>
Writes(c) == quiet' = quiet \cap {c} /\ UNCHANGED <<config, events, contested, halfway>>

(***************************************************************************)
(* Starting.  An account is contested once two commands for it overlap or  *)
(* a logout of it starts, and every account is once the keyring changes or *)
(* two commands overlap that would use the token file.                     *)
(***************************************************************************)
Running == {c \in Commands : proc[c].phase # "idle"}

Begin(c, cmd, accts, phase) ==
  /\ proc[c].phase = "idle"
  /\ events' = events + Max({1, Cardinality(accts)})
  /\ events' <= MaxEvents
  /\ Become(c, [Idle EXCEPT !.phase = phase, !.cmd = cmd, !.names = accts,
                !.acct = IF cmd = "login" THEN CHOOSE a \in accts : TRUE ELSE NoAccount,
                !.token = IF cmd \in {"login", "import"} THEN events' ELSE NoToken])
  /\ contested' = contested
       \cup {a \in accts : cmd = "logout" \/ \E d \in Running : a \in proc[d].names \cup {proc[d].acct}}
       \cup (IF Running # {} /\ ~Works("keyring") THEN Account ELSE {})
  /\ UNCHANGED <<storeVars, config, quiet, halfway>>

LoginBegins(c, a) == Begin(c, "login", {a}, "plex")
ImportBegins(c, accts) == Begin(c, "import", accts, "next")
LogoutBegins(c, a) == Begin(c, "logout", {a}, "load")
EditBegins(c) == Begin(c, "edit", {}, "load")

\* A token is read from a file, the environment or standard input; an empty
\* one is skipped, and a dry run skips all.
ImportNext(c) ==
  /\ At(c, {"import"}, "next")
  /\ \/ \E a \in proc[c].names, empty \in BOOLEAN :
          Become(c, [Idle EXCEPT !.cmd = "import", !.names = proc[c].names \ {a}, !.acct = a,
                                 !.token = proc[c].token,
                                 !.phase = IF empty THEN "next" ELSE "plex"])
     \/ proc[c].names = {} /\ End(c)
  /\ Local(c)

(***************************************************************************)
(* Plex.tv.  A pending PIN changes nothing; a poll that fails, an account  *)
(* that cannot be looked up and a context that ends leave nothing behind.  *)
(***************************************************************************)

\* The legacy list is taken unless it fails or is empty.  The JSON list is asked
\* for again after 404, 429 and server errors, up to MaxAttempts times.
Answers == {"list", "empty", "retryable", "other"}
Resources(legacy, json) ==
  IF legacy = "list" THEN legacy
  ELSE LET settled == {n \in 1 .. MaxAttempts : json[n] # "retryable"}
       IN IF settled = {} THEN "retryable" ELSE json[Min(settled)]

\* d[id]: whether the server of profile id has an access token of its own.
Discovers(a, d) ==
  /\ d \in Discoveries[a]
  /\ \E legacy \in Answers, json \in [1 .. MaxAttempts -> Answers] :
       Resources(legacy, json) = IF DOMAIN d = {} THEN "empty" ELSE "list"

Finds(p, d) == [p EXCEPT !.found = DOMAIN d, !.own = {id \in DOMAIN d : d[id]}]

DiscoveryFails(c) ==
  /\ At(c, {"login", "import"}, "plex")
  /\ Fails(c)
  /\ Local(c)

(***************************************************************************)
(* Loading the configuration.                                              *)
(***************************************************************************)
Loads(c, p, conf) ==
  /\ Become(c, [p EXCEPT !.conf = conf, !.old = config])
  /\ quiet' = quiet \cup {c}
  /\ UNCHANGED <<storeVars, config, events, contested, halfway>>

LoginLoads(c) ==
  /\ At(c, {"login"}, "plex")
  /\ \E d \in Discoveries[proc[c].acct] :
       /\ Discovers(proc[c].acct, d)
       /\ Loads(c, Finds([proc[c] EXCEPT !.phase = "account"], d), config)

\* The profiles of the servers ids, those in own with a token of their own.
WithProfiles(conf, a, ids, own) ==
  [conf EXCEPT !.profiles = [id \in Machines |-> IF id \in ids THEN [acct |-> a, own |-> id \in own]
                                                 ELSE conf.profiles[id]]]
FirstServer(conf, ids, id) ==
  IF conf.curServer # NoMachine THEN conf.curServer
  ELSE IF ids = {} THEN NoMachine ELSE id

\* importOne builds the new configuration before it writes anything.  The first
\* server that validates becomes current, whichever that is.
ImportLoads(c) ==
  LET a == proc[c].acct IN
  /\ At(c, {"import"}, "plex")
  /\ \E d \in Discoveries[a], first \in Machines :
       /\ Discovers(a, d)
       /\ DOMAIN d # {} => first \in DOMAIN d
       /\ LET p == Finds([proc[c] EXCEPT !.phase = "journal", !.seen = [k \in Keys |-> Get(k)]], d)
          IN Loads(c, p, [WithProfiles(config, a, p.found, p.own) EXCEPT
                            !.accounts = @ \cup {a}, !.curAccount = a,
                            !.curServer = FirstServer(config, p.found, first)])

LogoutLoads(c) ==
  /\ At(c, {"logout"}, "load")
  /\ \E a \in proc[c].names :
       IF a \in config.accounts
       THEN Loads(c, [proc[c] EXCEPT !.phase = "account", !.acct = a,
                                     !.found = ProfilesOf(config, a), !.seen = tokenFile], config)
       ELSE Fails(c) /\ Local(c)

ConfigSet(conf, n) == [conf EXCEPT !.servers = @ \cup {n},
                                   !.current = IF @ = NoName THEN n ELSE @]
ConfigUse(conf, n) == [conf EXCEPT !.current = n]
AccountsUse(conf, a) ==
  [conf EXCEPT !.curAccount = a,
               !.curServer = IF ProfilesOf(conf, a) = {} THEN @ ELSE Min(ProfilesOf(conf, a))]
ServersUseSwapped(conf, id) ==
  [conf EXCEPT !.curAccount = id, !.curServer = conf.profiles[id].acct]
ServersUse(conf, id) == [conf EXCEPT !.curServer = id, !.curAccount = conf.profiles[id].acct]

Edited(conf) ==
  {conf}                                                        \* config init
    \cup {ConfigSet(conf, n) : n \in Names}
    \cup {ConfigUse(conf, n) : n \in conf.servers}
    \cup {AccountsUse(conf, a) : a \in conf.accounts}
    \cup {ServersUse(conf, id) : id \in {i \in Machines : conf.profiles[i] # NoProfile}}

EditLoads(c) ==
  /\ At(c, {"edit"}, "load")
  /\ \/ \E conf \in Edited(config) : Loads(c, [proc[c] EXCEPT !.phase = "save"], conf)
     \/ Fails(c) /\ Local(c)

(***************************************************************************)
(* auth login: store the account's token, then server by server.           *)
(***************************************************************************)
LoginAccount(c) ==
  /\ At(c, {"login"}, "account")
  /\ SetBegins(c, AccountKey(proc[c].acct), proc[c].token)
  /\ Writes(c) /\ UNCHANGED proc

LoginAccountStored(c) ==
  /\ Calling(c, {"login"}, "account")
  /\ \E ok \in BOOLEAN :
       /\ CallEnds(c, ok)
       /\ IF ok THEN Become(c, [proc[c] EXCEPT !.phase = "servers",
                                               !.conf.accounts = @ \cup {proc[c].acct}])
          ELSE Fails(c)
  /\ Writes(c)

AddServer(c, id) ==
  LET p == proc[c] IN
  Become(c, [p EXCEPT !.found = @ \ {id},
                      !.conf = [WithProfiles(p.conf, p.acct, {id}, p.own) EXCEPT
                                  !.curServer = FirstServer(p.conf, {id}, id)]])

LoginServer(c) ==
  /\ At(c, {"login"}, "servers")
  /\ \E id \in proc[c].found :
       \/ /\ id \in proc[c].own
          /\ SetBegins(c, ServerKey(proc[c].acct, id), proc[c].token)
          /\ Writes(c) /\ UNCHANGED proc
       \/ id \notin proc[c].own /\ AddServer(c, id) /\ Local(c)

LoginServerStored(c) ==
  /\ Calling(c, {"login"}, "servers")
  /\ \E ok \in BOOLEAN :
       /\ CallEnds(c, ok)
       /\ IF ok THEN AddServer(c, call[c].key.id) ELSE Fails(c)
  /\ Writes(c)

LoginStored(c) ==
  /\ At(c, {"login"}, "servers") /\ proc[c].found = {}
  /\ Become(c, [proc[c] EXCEPT !.phase = "save",
                               !.conf.curAccount = IF @ = NoAccount THEN proc[c].acct ELSE @])
  /\ Local(c)

(***************************************************************************)
(* auth import: read the prior value of each key, then write it; undo in   *)
(* reverse order whatever the undoing returns.                             *)
(***************************************************************************)
ToWrite(p) == {AccountKey(p.acct)} \cup {ServerKey(p.acct, id) : id \in p.found \cap p.own}
Journaled(p) == {p.journal[i].key : i \in DOMAIN p.journal}

UndoNothing(c, after) == Goto(c, after)
Undo(c, after) ==
  Become(c, [proc[c] EXCEPT !.phase = IF proc[c].journal = <<>> THEN after ELSE "undo",
                            !.after = after])

ImportJournals(c) ==
  /\ At(c, {"import"}, "journal")
  /\ \E k \in ToWrite(proc[c]) \ Journaled(proc[c]) :
       IF Get(k) = Unreadable THEN Undo(c, "failed")
       ELSE Become(c, [proc[c] EXCEPT !.phase = "write",
                                      !.journal = Append(@, [key |-> k, prior |-> Get(k)])])
  /\ Local(c)

ImportWrites(c) ==
  /\ At(c, {"import"}, "write")
  /\ SetBegins(c, proc[c].journal[Len(proc[c].journal)].key, proc[c].token)
  /\ Writes(c) /\ UNCHANGED proc

ImportWritten(c) ==
  /\ Calling(c, {"import"}, "write")
  /\ \E ok \in BOOLEAN :
       /\ CallEnds(c, ok)
       /\ IF ok THEN Goto(c, "journal") ELSE Undo(c, "failed")
  /\ Writes(c)

ImportStored(c) ==
  /\ At(c, {"import"}, "journal")
  /\ ToWrite(proc[c]) \subseteq Journaled(proc[c])
  /\ Goto(c, "save")
  /\ Local(c)

ImportDeletes(c) ==
  /\ At(c, {"import"}, "undo")
  /\ DeleteBegins(c, proc[c].journal[Len(proc[c].journal)].key)
  /\ Writes(c) /\ UNCHANGED proc
ImportUndoes(c) ==
  LET e == proc[c].journal[Len(proc[c].journal)] IN
  /\ At(c, {"import"}, "undo")
  /\ IF e.prior = NoToken THEN DeleteBegins(c, e.key) ELSE SetBegins(c, e.key, e.prior)
  /\ Writes(c) /\ UNCHANGED proc

ImportUndone(c) ==
  LET rest == SubSeq(proc[c].journal, 1, Len(proc[c].journal) - 1) IN
  /\ Calling(c, {"import"}, "undo")
  /\ \E ok \in BOOLEAN : CallEnds(c, ok)
  /\ Become(c, [proc[c] EXCEPT !.journal = rest,
                               !.phase = IF rest = <<>> THEN proc[c].after ELSE "undo"])
  /\ Writes(c)

\* The loop goes on with the next account.
ImportFailed(c) ==
  /\ At(c, {"import"}, "failed")
  /\ Goto(c, "next")
  /\ Local(c)

(***************************************************************************)
(* auth logout: an account or profile stays when its credential could not  *)
(* be deleted.                                                             *)
(***************************************************************************)
Without(conf, id) == [conf EXCEPT !.profiles[id] = NoProfile]

LogoutAccount(c) ==
  /\ At(c, {"logout"}, "account")
  /\ DeleteBegins(c, AccountKey(proc[c].acct))
  /\ Writes(c) /\ UNCHANGED proc

LogoutAccountDeleted(c) ==
  /\ Calling(c, {"logout"}, "account")
  /\ \E ok \in BOOLEAN :
       /\ CallEnds(c, ok)
       /\ Become(c, [proc[c] EXCEPT !.phase = "servers", !.failed = ~ok,
                                    !.conf.accounts = IF ok THEN @ \ {proc[c].acct} ELSE @])
  /\ Writes(c)

LogoutServer(c) ==
  /\ At(c, {"logout"}, "servers")
  /\ \E id \in proc[c].found :
       \/ /\ proc[c].old.profiles[id].own
          /\ DeleteBegins(c, ServerKey(proc[c].acct, id))
          /\ Writes(c) /\ UNCHANGED proc
       \/ /\ ~proc[c].old.profiles[id].own
          /\ Become(c, [proc[c] EXCEPT !.found = @ \ {id}, !.conf = Without(@, id)])
          /\ Local(c)

LogoutServerDeleted(c) ==
  LET id == call[c].key.id IN
  /\ Calling(c, {"logout"}, "servers")
  /\ \E ok \in BOOLEAN :
       /\ CallEnds(c, ok)
       /\ Become(c, [proc[c] EXCEPT !.found = @ \ {id}, !.failed = @ \/ ~ok,
                                    !.conf = IF ok THEN Without(@, id) ELSE @])
  /\ Writes(c)

KeptCurrent(c) ==
  /\ At(c, {"logout"}, "servers") /\ proc[c].found = {}
  /\ Goto(c, "save")
  /\ Local(c)
LogoutDeleted(c) ==
  LET a == proc[c].acct IN
  /\ At(c, {"logout"}, "servers") /\ proc[c].found = {}
  /\ Become(c, [proc[c] EXCEPT !.phase = "save",
                               !.conf = IF proc[c].failed \/ @.curAccount # a THEN @
                                        ELSE [@ EXCEPT !.curAccount = NoAccount, !.curServer = NoMachine]])
  /\ Local(c)

(***************************************************************************)
(* Saving.  The file is replaced by a rename or stays as it is.            *)
(***************************************************************************)
Save(c, conf, then) ==
  /\ config' = IF Works("config") THEN conf ELSE config
  /\ quiet' = quiet \cap {c}
  /\ then
  /\ halfway' = IF proc[c].cmd = "logout" /\ proc[c].failed /\ Works("config")
                THEN halfway \cup {proc[c].acct} ELSE halfway
  /\ UNCHANGED <<storeVars, events, contested>>

SaveConfig(c) ==
  /\ At(c, {"login", "logout", "edit"}, "save")
  /\ Save(c, proc[c].conf, End(c))

ImportSaves(c) ==
  /\ At(c, {"import"}, "save")
  /\ Save(c, proc[c].conf, IF Works("config") THEN Goto(c, "next") ELSE Undo(c, "restore"))

\* Save(previous), its error ignored.
ImportRestores(c) ==
  /\ At(c, {"import"}, "restore")
  /\ Save(c, proc[c].old, Goto(c, "failed"))

Leave(c) ==
  /\ proc' = [proc EXCEPT ![c] = Idle]
  /\ quiet' = quiet \ {c}
  /\ UNCHANGED <<keyring, tokenFile, broken, config, events, contested, halfway>>

Ends(c) == proc[c].phase = "ended" /\ Leave(c) /\ UNCHANGED call

Interrupted(c) ==
  /\ proc[c].phase \notin {"idle", "ended"}
  /\ Leave(c)
  /\ call' = [call EXCEPT ![c] = NoCall]

PartFlips ==
  /\ events < MaxEvents
  /\ events' = events + 1
  /\ \E part \in Parts :
       /\ Flips(part)
       /\ contested' = IF part = "keyring" THEN Account ELSE contested
  /\ quiet' = {}
  /\ UNCHANGED <<config, proc, halfway>>

LoginSteps(c) == \/ LoginLoads(c) \/ LoginAccount(c) \/ LoginAccountStored(c)
                 \/ LoginServer(c) \/ LoginServerStored(c) \/ LoginStored(c)
ImportSteps(c) == \/ ImportNext(c) \/ ImportLoads(c) \/ ImportJournals(c) \/ ImportWrites(c)
                  \/ ImportWritten(c) \/ ImportStored(c) \/ ImportUndoes(c) \/ ImportUndone(c)
                  \/ ImportFailed(c) \/ ImportSaves(c) \/ ImportRestores(c)
LogoutSteps(c) == \/ LogoutLoads(c) \/ LogoutAccount(c) \/ LogoutAccountDeleted(c)
                  \/ LogoutServer(c) \/ LogoutServerDeleted(c) \/ LogoutDeleted(c)

AccountsNext ==
  \/ PartFlips
  \/ \E c \in Commands :
       \/ \E a \in Account : LoginBegins(c, a) \/ LogoutBegins(c, a)
       \/ \E accts \in ImportSets : ImportBegins(c, accts)
       \/ EditBegins(c) \/ EditLoads(c)
       \/ DiscoveryFails(c)
       \/ LoginSteps(c) \/ ImportSteps(c) \/ LogoutSteps(c)
       \/ SaveConfig(c) \/ Ends(c) \/ Interrupted(c)

Spec == AccountsInit /\ [][AccountsNext]_vars

(***************************************************************************)
(* What the commands promise.                                              *)
(***************************************************************************)

\* Config.Resolve: a server of the older format, by name, current or only one.
Resolve(conf, name) ==
  LET chosen == IF name # NoName THEN name
                ELSE IF conf.current = NoName /\ Cardinality(conf.servers) = 1
                     THEN CHOOSE n \in conf.servers : TRUE ELSE conf.current
  IN IF chosen \in conf.servers THEN [server |-> chosen] ELSE NoConnection

\* resolveConfiguredConnection: the key of the selected or current profile, or a
\* server of the older format, also when the name is no profile.
Connection(conf, selected) ==
  LET name == IF selected # NoName THEN selected
              ELSE IF conf.curServer # NoMachine THEN conf.curServer ELSE NoName
      known == {id \in Machines : conf.profiles[id] # NoProfile}
  IN IF name \notin known THEN Resolve(conf, IF known = {} THEN selected ELSE name)
     ELSE IF conf.profiles[name].acct \notin conf.accounts THEN NoConnection
     ELSE [key |-> TokenKey(conf, name)]

\* "A later write or config failure restores prior values": when importOne
\* fails, each credential reads as it did when the import loaded the
\* configuration and the file holds that configuration, although the keyring,
\* the file fallback or the configuration may be failing all the while.
FailedImportRestores ==
  \A c \in quiet : proc[c].phase = "failed" /\ proc[c].seen # <<>> =>
    config = proc[c].old /\ \A k \in Keys : Get(k) = proc[c].seen[k]

\* After a logout, complete or partial, a credential that is still stored under
\* a key the logout loaded is still named by the configuration, so that it can
\* be found and deleted.  The exception is what Delete overlooks: the copy in a
\* keyring that fails, where a copy in the file was there to be deleted.
LoggedOut(c) == proc[c].cmd = "logout" /\ proc[c].phase = "ended" /\ Works("config")
Overlooked(c, k) ==
  /\ ~Works("keyring") /\ keyring[k] # NoToken
  /\ proc[c].seen[k] # NoToken /\ tokenFile[k] = NoToken
ConfigNamesWhatIsLeft ==
  \A c \in quiet : LoggedOut(c) =>
    \A k \in KeysOf(proc[c].old, proc[c].acct) \ KeysOf(config, proc[c].acct) :
      Stored(k) => Overlooked(c, k)

\* A profile on disk belongs to a configured account and its credential can be
\* read, whatever command was interrupted or failed half-way: login and import
\* store credentials before the configuration that names them.
SavedProfilesResolve ==
  \A id \in Machines :
    config.profiles[id] # NoProfile /\ config.profiles[id].acct \notin contested =>
      /\ Connection(config, id) = [key |-> TokenKey(config, id)]
      /\ Get(Connection(config, id).key) # NoToken

\* Whichever commands overwrite each other's configuration, the file agrees with
\* itself: the current account and the account of every profile are configured,
\* or a logout that reported its failure took them away half-way.
ConfigRefersToItself ==
  /\ config.curAccount \in config.accounts \cup halfway \cup {NoAccount}
  /\ \A id \in Machines :
       config.profiles[id] # NoProfile => config.profiles[id].acct \in config.accounts \cup halfway

\* A command that found the file as it last loaded it changes the account it is
\* about and the profiles it discovered, and of the others nothing.
CommandsKeepOthers ==
  [][\A c \in quiet : proc[c].phase \in {"save", "restore"} /\ proc'[c] # proc[c] =>
       \A b \in Account \ {proc[c].acct} :
         /\ b \in config'.accounts <=> b \in config.accounts
         /\ \A id \in ProfilesOf(config, b) :
              config'.profiles[id] \in {config.profiles[id]} \cup [acct : {proc[c].acct}, own : BOOLEAN]
    ]_vars

\* "Surface the failure instead of reporting success with orphaned credentials":
\* after a logout that reports success no credential of the account is stored.
LogoutLeavesNoCredential ==
  \A c \in quiet : LoggedOut(c) /\ ~proc[c].failed =>
    \A k \in Keys : k.acct = proc[c].acct => ~Stored(k)
=============================================================================
