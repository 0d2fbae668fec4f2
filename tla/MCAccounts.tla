---------------------------- MODULE MCAccounts ----------------------------
(***************************************************************************)
(* A small instance of Accounts: two accounts that share server 1, the     *)
(* first of which may also discover server 2, which has no token of its    *)
(* own; the second has a token in the environment.                         *)
(***************************************************************************)
EXTENDS Accounts, TLC

CONSTANTS c1, c2, a1, a2, s1

MCDiscoveries ==
  (a1 :> {1 :> TRUE @@ 2 :> FALSE}) @@ (a2 :> {<<>>, 1 :> TRUE})
MCKeys == [acct : Account, id : Machines \cup {NoMachine}]
MCTokens == 0 .. MaxEvents + 1
MCEnvToken == [k \in MCKeys |-> NoToken]
MCLegacyEnv == [k \in MCKeys |-> IF k.acct = a2 /\ k.id = NoMachine THEN MaxEvents + 1 ELSE NoToken]

\* Nothing yet; the first account with both servers; both accounts, the shared
\* server being the second one's.
FirstLogin == [EmptyConfig EXCEPT !.accounts = {a1}, !.curAccount = a1, !.curServer = 1,
                                  !.profiles = <<[acct |-> a1, own |-> TRUE], [acct |-> a1, own |-> FALSE]>>]
SecondLogin == [FirstLogin EXCEPT !.accounts = {a1, a2}, !.profiles[1].acct = a2]
MCInitialConfigs == {EmptyConfig, FirstLogin, SecondLogin}
MCNoConfig == {EmptyConfig}
MCInitiallyBroken == {{}, {"keyring"}}

\* No command is interrupted.
UninterruptedNext == AccountsNext /\ ~\E c \in Commands : Interrupted(c)
UninterruptedSpec == AccountsInit /\ [][UninterruptedNext]_vars

Symmetry == Permutations(Commands)
=============================================================================
