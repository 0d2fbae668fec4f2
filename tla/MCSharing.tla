----------------------------- MODULE MCSharing -----------------------------
(***************************************************************************)
(* Two commands and another client over two owned servers and a foreign    *)
(* one.  Share 1 can be revoked; 2 is of a Home user; 3 is on the other    *)
(* server; 4 is listed twice; 5 is free for an invitation.                 *)
(***************************************************************************)
EXTENDS Sharing

CONSTANTS lan, c1, c2, m1, m2, foreign, den, alone, l1, l2, ann, bob, kid

MCResourceLists == {
  <<[machine |-> m1, name |-> alone, owned |-> TRUE], [machine |-> m2, name |-> den, owned |-> TRUE],
    [machine |-> foreign, name |-> den, owned |-> FALSE]>>,
  <<[machine |-> m1, name |-> den, owned |-> TRUE], [machine |-> foreign, name |-> alone, owned |-> FALSE]>>}

ListedShare(id, user, machine, grants) ==
  [id |-> id, user |-> user, owned |-> TRUE, machine |-> machine, pending |-> id = 1, grants |-> grants]

MCInitialShares == {
  {ListedShare(1, ann, m1, {l1}), ListedShare(2, kid, m1, {l1})},
  {ListedShare(1, ann, m1, {l1, l2}), ListedShare(3, ann, m2, {l1})},
  {ListedShare(1, ann, m1, {l1}), ListedShare(4, ann, m2, {l1}), ListedShare(4, bob, m2, {l2})},
  {[ListedShare(1, ann, m1, {l1}) EXCEPT !.owned = FALSE]}}

Request(cmd, server, id, requested) ==
  [cmd |-> cmd, server |-> server, id |-> id, requested |-> requested]

MCRequests ==
  {Request("remove", m1, id, {}) : id \in {1, 2, 3}}
  \cup {Request("remove", den, 1, {}), Request("remove", m2, 4, {})}
  \cup {Request("update", m1, 1, {}), Request("update", lan, 1, {l2}), Request("update", alone, 1, {l1})}
  \cup {Request("invite", alone, 0, {}), Request("invite", den, 0, {l1})}

MCProfiles == lan :> m1

Symmetry == Permutations({c1, c2})

Old(id) == [id |-> id, user |-> ann, owned |-> TRUE, machine |-> m2, pending |-> FALSE, grants |-> {}]

MCSnapshots ==
  [id : 1 .. MaxShares + 2, user : Users, owned : {TRUE}, machine : {m1, m2}, pending : BOOLEAN,
   grants : SUBSET Libraries]

MCOffsets == {-1, 0}

\* Rows of an older version: the text of the second shows an earlier time.
MCInitialRows == {
  {},
  {[id |-> 1, at |-> 1, offset |-> 0, share |-> Old(MaxShares + 1)], [id |-> 2, at |-> 2, offset |-> -1, share |-> Old(MaxShares + 2)]}}
=============================================================================
