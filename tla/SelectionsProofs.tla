-------------------------- MODULE SelectionsProofs --------------------------
(***************************************************************************)
(* Functions defined by recursion on a number, the lists that are built by *)
(* selecting, and sorting: what serve, the sharing commands and the        *)
(* reports are proved by.                                                  *)
(***************************************************************************)
EXTENDS Selections, SequenceTheorems, FiniteSetTheorems, WellFoundedInduction, TLAPS

(***************************************************************************)
(* Numbers, and functions defined by recursion on them.                    *)
(***************************************************************************)
LEMMA SmallestOf ==
  ASSUME NEW S \in SUBSET Nat, S # {}
  PROVE  \E m \in S : \A n \in S : m <= n
<1>1. PICK m \in S : \A n \in S : ~ <<n, m>> \in OpToRel(<, Nat)
  BY NatLessThanWellFounded, WFMin, Zenon
<1>2. ASSUME NEW n \in S PROVE ~ (n < m)
  BY <1>1 DEF OpToRel
<1>3. QED
  BY <1>2

LEMMA UpTo ==
  ASSUME NEW n \in Nat, NEW S, 0 \in S, \A i \in 1 .. n : i - 1 \in S => i \in S
  PROVE  \A i \in 0 .. n : i \in S
<1> DEFINE Bad == {i \in 0 .. n : i \notin S}
<1> SUFFICES ASSUME Bad # {} PROVE FALSE
  OBVIOUS
<1>1. Bad \in SUBSET Nat
  OBVIOUS
<1>2. PICK m \in Bad : \A i \in Bad : m <= i
  <2> HIDE DEF Bad
  <2>1. QED
    BY <1>1, SmallestOf
<1>3. m \in 1 .. n /\ m - 1 \in 0 .. n /\ m - 1 \notin Bad
  <2>1. m \in 0 .. n /\ m # 0
    OBVIOUS
  <2>2. ~(m <= m - 1)
    BY <2>1
  <2>3. QED
    BY <1>2, <2>1, <2>2
<1>4. QED
  BY <1>3

\* A loop of n rounds has a result.
HasLoop(A, base, n, step) ==
  \E g \in [0 .. n -> A] : g[0] = base /\ \A i \in 1 .. n : g[i] = step[<<g[i - 1], i>>]

LEMMA LoopsExist ==
  ASSUME NEW A, NEW base \in A, NEW n \in Nat, NEW step,
         \A a \in A, i \in 1 .. n : step[<<a, i>>] \in A
  PROVE  HasLoop(A, base, n, step)
<1> DEFINE Loop(m, g) == g = [i \in 0 .. m |-> IF i = 0 THEN base ELSE step[<<g[i - 1], i>>]]
           Good == {m \in 0 .. n : \E g \in [0 .. m -> A] : Loop(m, g)}
<1>1. 0 \in Good
  <2>1. PICK g \in [0 .. 0 -> A] : g = [i \in 0 .. 0 |-> base]
    OBVIOUS
  <2>2. Loop(0, g)
    BY <2>1
  <2>3. QED
    BY <2>2
<1>2. ASSUME NEW m \in 1 .. n, m - 1 \in Good PROVE m \in Good
  <2>1. PICK g \in [0 .. m - 1 -> A] : Loop(m - 1, g)
    BY <1>2
  <2>2. PICK h : h = [i \in 0 .. m |-> IF i = m THEN step[<<g[m - 1], m>>] ELSE g[i]]
    OBVIOUS
  <2>3. g[m - 1] \in A /\ step[<<g[m - 1], m>>] \in A
    OBVIOUS
  <2>4. ASSUME NEW i \in 0 .. m PROVE h[i] \in A
    <3>1. CASE i = m
      BY <2>2, <2>3, <3>1
    <3>2. CASE i # m
      BY <2>2, <3>2
    <3>3. QED
      BY <3>1, <3>2
  <2>5. ASSUME NEW i \in 0 .. m PROVE h[i] = IF i = 0 THEN base ELSE step[<<h[i - 1], i>>]
    <3>1. CASE i = m
      <4>1. h[m] = step[<<g[m - 1], m>>] /\ h[m - 1] = g[m - 1]
        BY <2>2
      <4>2. QED
        BY <3>1, <4>1
    <3>2. CASE i = 0 /\ i # m
      BY <2>1, <2>2, <3>2
    <3>3. CASE i \in 1 .. m - 1
      <4>1. h[i] = g[i] /\ h[i - 1] = g[i - 1]
        BY <2>2, <3>3
      <4>2. g[i] = step[<<g[i - 1], i>>]
        BY <2>1, <3>3
      <4>3. QED
        BY <3>3, <4>1, <4>2
    <3>4. QED
      BY <3>1, <3>2, <3>3
  <2>6. h \in [0 .. m -> A]
    BY <2>2, <2>4
  <2>7. Loop(m, h)
    <3>1. h = [i \in 0 .. m |-> h[i]]
      BY <2>2
    <3>2. QED
      BY <2>5, <3>1
  <2>8. m \in 0 .. n
    OBVIOUS
  <2> HIDE DEF Loop
  <2>9. QED
    BY <2>6, <2>7, <2>8
<1> HIDE DEF Good
<1>3. \A m \in 0 .. n : m \in Good
  BY <1>1, <1>2, UpTo
<1>4. PICK g \in [0 .. n -> A] : Loop(n, g)
  BY <1>3 DEF Good
<1>5. g[0] = base /\ \A i \in 1 .. n : g[i] = step[<<g[i - 1], i>>]
  BY <1>4
<1>6. QED
  BY <1>5 DEF HasLoop

(***************************************************************************)
(* The elements of a list that are in a set.                               *)
(***************************************************************************)
LEMMA SelectionRounds ==
  ASSUME NEW R, NEW s \in Seq(R), NEW S
  PROVE  /\ Len(s) \in Nat
         /\ SelectedSoFar(s, S)[0] = <<>>
         /\ \A i \in 1 .. Len(s) :
              SelectedSoFar(s, S)[i] = IF s[i] \in S THEN Append(SelectedSoFar(s, S)[i - 1], s[i])
                                                     ELSE SelectedSoFar(s, S)[i - 1]
<1> DEFINE n == Len(s)
           Rounds(g) == g = [i \in 0 .. n |->
             IF i = 0 THEN <<>> ELSE IF s[i] \in S THEN Append(g[i - 1], s[i]) ELSE g[i - 1]]
           step == [p \in Seq(R) \X (1 .. n) |-> IF s[p[2]] \in S THEN Append(p[1], s[p[2]]) ELSE p[1]]
<1>1. n \in Nat
  OBVIOUS
<1>2. \A a \in Seq(R), i \in 1 .. n :
        step[<<a, i>>] \in Seq(R) /\ step[<<a, i>>] = IF s[i] \in S THEN Append(a, s[i]) ELSE a
  <2> SUFFICES ASSUME NEW a \in Seq(R), NEW i \in 1 .. n
               PROVE  step[<<a, i>>] \in Seq(R) /\ step[<<a, i>>] = IF s[i] \in S THEN Append(a, s[i]) ELSE a
    OBVIOUS
  <2>1. step[<<a, i>>] = IF s[i] \in S THEN Append(a, s[i]) ELSE a
    OBVIOUS
  <2>2. s[i] \in R
    OBVIOUS
  <2>3. Append(a, s[i]) \in Seq(R)
    BY <2>2
  <2> HIDE DEF step
  <2>4. QED
    BY <2>1, <2>3
<1>3. PICK A, base : A = Seq(R) /\ base = <<>> /\ base \in A
  <2>1. <<>> \in Seq(R)
    OBVIOUS
  <2>2. QED
    BY <2>1
<1>4. PICK g \in [0 .. n -> A] : g[0] = base /\ \A i \in 1 .. n : g[i] = step[<<g[i - 1], i>>]
  <2> HIDE DEF step, n
  <2>1. \A a \in A, i \in 1 .. n : step[<<a, i>>] \in A
    BY <1>2, <1>3
  <2>2. base \in A /\ n \in Nat
    BY <1>1, <1>3
  <2>3. HasLoop(A, base, n, step)
    BY <2>1, <2>2, LoopsExist
  <2>4. QED
    BY <2>3 DEF HasLoop
<1>5. \E f : Rounds(f)
  <2>1. ASSUME NEW i \in 0 .. n
        PROVE  g[i] = IF i = 0 THEN <<>> ELSE IF s[i] \in S THEN Append(g[i - 1], s[i]) ELSE g[i - 1]
    <3> HIDE DEF step, n
    <3>1. CASE i = 0
      BY <1>3, <1>4, <3>1
    <3>2. CASE i # 0
      <4>1. i \in 1 .. n /\ i - 1 \in 0 .. n
        BY <1>1, <3>2
      <4>2. g[i] = step[<<g[i - 1], i>>] /\ g[i - 1] \in Seq(R)
        BY <1>3, <1>4, <3>2, <4>1
      <4>3. QED
        BY <1>2, <3>2, <4>1, <4>2
    <3>3. QED
      BY <3>1, <3>2
  <2>2. Rounds(g)
    <3>1. g = [i \in 0 .. n |-> g[i]]
      OBVIOUS
    <3>2. QED
      BY <2>1, <3>1
  <2> HIDE DEF Rounds
  <2>3. QED
    BY <2>2
<1>6. Rounds(SelectedSoFar(s, S))
  BY <1>5 DEF SelectedSoFar
<1>7. PICK out : out = SelectedSoFar(s, S)
  OBVIOUS
<1> HIDE DEF step
<1>8. out[0] = <<>> /\ \A i \in 1 .. n : out[i] = IF s[i] \in S THEN Append(out[i - 1], s[i]) ELSE out[i - 1]
  <2>1. Rounds(out)
    BY <1>6, <1>7
  <2>2. 0 \in 0 .. n /\ \A i \in 1 .. n : i \in 0 .. n /\ i # 0
    BY <1>1
  <2> HIDE DEF n
  <2>3. QED
    BY <2>1, <2>2
<1>9. QED
  BY <1>1, <1>7, <1>8

\* The list keeps its order, and what it leaves out is not in the set.
LEMMA SelectionIsOrdered ==
  ASSUME NEW R, NEW s \in Seq(R), NEW S
  PROVE  /\ Among(s, S) \in Seq(R \cap S)
         /\ Len(Among(s, S)) <= Len(s)
         /\ \E at \in [1 .. Len(Among(s, S)) -> 1 .. Len(s)] :
              /\ \A j \in 1 .. Len(Among(s, S)) : Among(s, S)[j] = s[at[j]]
              /\ \A j, k \in 1 .. Len(Among(s, S)) : j < k => at[j] < at[k]
<1> DEFINE Ordered(i, r) ==
             /\ r \in Seq(R \cap S) /\ Len(r) <= i
             /\ \E at \in [1 .. Len(r) -> 1 .. i] :
                  /\ \A j \in 1 .. Len(r) : r[j] = s[at[j]]
                  /\ \A j, k \in 1 .. Len(r) : j < k => at[j] < at[k]
<1>1. PICK out, n : out = SelectedSoFar(s, S) /\ n = Len(s)
  OBVIOUS
<1>2. /\ n \in Nat /\ out[0] = <<>>
      /\ \A i \in 1 .. n : out[i] = IF s[i] \in S THEN Append(out[i - 1], s[i]) ELSE out[i - 1]
  BY <1>1, SelectionRounds
<1>3. Ordered(0, out[0])
  <2>1. PICK r : r = out[0] /\ r \in Seq(R \cap S) /\ Len(r) = 0
    <3>1. <<>> \in Seq(R \cap S) /\ Len(<<>>) = 0
      OBVIOUS
    <3>2. QED
      BY <1>2, <3>1
  <2>2. PICK at : at = [j \in 1 .. Len(r) |-> j]
    OBVIOUS
  <2>3. 1 .. Len(r) = {}
    BY <2>1
  <2>4. at \in [1 .. Len(r) -> 1 .. 0]
    BY <2>2, <2>3
  <2>5. /\ \A j \in 1 .. Len(r) : r[j] = s[at[j]]
        /\ \A j, k \in 1 .. Len(r) : j < k => at[j] < at[k]
    BY <2>3
  <2>6. Len(r) <= 0
    BY <2>1
  <2>7. Ordered(0, r)
    BY <2>1, <2>4, <2>5, <2>6, Zenon
  <2>8. QED
    BY <2>1, <2>7
<1>4. ASSUME NEW i \in 1 .. n, Ordered(i - 1, out[i - 1])
      PROVE  Ordered(i, out[i])
  <2>1. PICK r : r = out[i - 1] /\ r \in Seq(R \cap S) /\ Len(r) <= i - 1 /\ Len(r) \in Nat
    BY <1>4
  <2>2. PICK at \in [1 .. Len(r) -> 1 .. i - 1] :
          /\ \A j \in 1 .. Len(r) : r[j] = s[at[j]]
          /\ \A j, k \in 1 .. Len(r) : j < k => at[j] < at[k]
    BY <1>4, <2>1
  <2>3. CASE s[i] \notin S
    <3>1. out[i] = r
      BY <1>2, <2>1, <2>3
    <3>2. at \in [1 .. Len(r) -> 1 .. i] /\ Len(r) <= i
      BY <2>1, <2>2
    <3>3. Ordered(i, r)
      BY <2>1, <2>2, <3>2
    <3>4. QED
      BY <3>1, <3>3
  <2>4. CASE s[i] \in S
    <3>1. s[i] \in R \cap S
      BY <1>1, <1>2, <2>4
    <3>2. PICK t : t = Append(r, s[i])
      OBVIOUS
    <3>3. /\ t \in Seq(R \cap S) /\ Len(t) = Len(r) + 1 /\ t[Len(r) + 1] = s[i]
          /\ \A j \in 1 .. Len(r) : t[j] = r[j]
      BY <2>1, <3>1, <3>2, AppendProperties
    <3>4. PICK at2 : at2 = [j \in 1 .. Len(r) + 1 |-> IF j <= Len(r) THEN at[j] ELSE i]
      OBVIOUS
    <3>5. ASSUME NEW j \in 1 .. Len(r) + 1
          PROVE  at2[j] \in 1 .. i /\ t[j] = s[at2[j]] /\ (j <= Len(r) => at2[j] < i) /\ (~(j <= Len(r)) => at2[j] = i)
      <4>1. CASE j <= Len(r)
        <5>1. j \in 1 .. Len(r)
          BY <2>1, <4>1
        <5>2. at2[j] = at[j] /\ at[j] \in 1 .. i - 1
          BY <3>4, <4>1, <5>1
        <5>3. t[j] = s[at2[j]]
          BY <2>2, <3>3, <5>1, <5>2
        <5>4. QED
          BY <4>1, <5>2, <5>3
      <4>2. CASE ~(j <= Len(r))
        BY <2>1, <3>3, <3>4, <4>2
      <4>3. QED
        BY <4>1, <4>2
    <3>6. at2 \in [1 .. Len(t) -> 1 .. i]
      BY <3>3, <3>4, <3>5
    <3>7. ASSUME NEW j \in 1 .. Len(r) + 1, NEW k \in 1 .. Len(r) + 1, j < k PROVE at2[j] < at2[k]
      <4>1. CASE k <= Len(r)
        <5>1. j \in 1 .. Len(r) /\ k \in 1 .. Len(r) /\ at2[j] = at[j] /\ at2[k] = at[k]
          BY <2>1, <3>4, <3>7, <4>1
        <5>2. QED
          BY <2>2, <3>7, <5>1
      <4>2. CASE ~(k <= Len(r))
        <5>1. j <= Len(r)
          BY <2>1, <3>7, <4>2
        <5>2. QED
          BY <3>5, <4>2, <5>1
      <4>3. QED
        BY <4>1, <4>2
    <3>8. Len(t) <= i
      BY <2>1, <3>3
    <3>9. Ordered(i, t)
      BY <3>3, <3>5, <3>6, <3>7, <3>8
    <3>10. out[i] = t
      BY <1>2, <2>1, <2>4, <3>2
    <3>11. QED
      BY <3>9, <3>10
  <2>5. QED
    BY <2>3, <2>4
<1> HIDE DEF Ordered
<1>5. PICK T : T = {i \in 0 .. n : Ordered(i, out[i])}
  OBVIOUS
<1>6. 0 \in T /\ \A i \in 1 .. n : i - 1 \in T => i \in T
  BY <1>2, <1>3, <1>4, <1>5
<1>7. \A i \in 0 .. n : i \in T
  BY <1>2, <1>6, UpTo
<1>8. Ordered(n, out[n])
  BY <1>2, <1>5, <1>7
<1>9. QED
  BY <1>1, <1>8 DEF Ordered, Among

\* Leaving out the first element only.
LEMMA SelectionOfTheRest ==
  ASSUME NEW R, NEW s \in Seq(R), NEW S, s # <<>>, s[1] \notin S, \A i \in 2 .. Len(s) : s[i] \in S
  PROVE  Among(s, S) = Tail(s)
<1>1. PICK out, n : out = SelectedSoFar(s, S) /\ n = Len(s)
  OBVIOUS
<1>2. /\ n \in Nat /\ out[0] = <<>>
      /\ \A i \in 1 .. n : out[i] = IF s[i] \in S THEN Append(out[i - 1], s[i]) ELSE out[i - 1]
  BY <1>1, SelectionRounds
<1> DEFINE T == {i \in 0 .. n : i = 0 \/ out[i] = SubSeq(s, 2, i)}
<1>3. 0 \in T
  BY <1>2
<1>4. ASSUME NEW i \in 1 .. n, i - 1 \in T PROVE i \in T
  <2>1. CASE i = 1
    <3>1. out[1] = <<>>
      BY <1>2, <2>1
    <3>2. SubSeq(s, 2, 1) = <<>>
      OBVIOUS
    <3>3. out[i] = SubSeq(s, 2, i) /\ i \in 0 .. n
      BY <2>1, <3>1, <3>2
    <3>4. QED
      BY <3>3
  <2>2. CASE i # 1
    <3>1. out[i - 1] = SubSeq(s, 2, i - 1) /\ i \in 2 .. n
      BY <1>4, <2>2
    <3>2. out[i] = Append(SubSeq(s, 2, i - 1), s[i])
      BY <1>1, <1>2, <3>1
    <3>3. SubSeq(s, 2, i) = Append(SubSeq(s, 2, i - 1), s[i])
      BY <1>1, <3>1, SubSeqRecursiveSecond
    <3>4. QED
      BY <3>2, <3>3
  <2>3. QED
    BY <2>1, <2>2
<1> HIDE DEF T
<1>5. n \in T /\ n # 0
  <2>1. \A i \in 0 .. n : i \in T
    BY <1>2, <1>3, <1>4, UpTo
  <2>2. QED
    BY <1>1, <1>2, <2>1
<1>6. out[n] = SubSeq(s, 2, n)
  BY <1>5 DEF T
<1>7. Tail(s) = SubSeq(s, 2, Len(s))
  BY TailIsSubSeq
<1>8. QED
  BY <1>1, <1>6, <1>7 DEF Among

\* Every element of the list that is in the set is selected.
LEMMA SelectionIsComplete ==
  ASSUME NEW R, NEW s \in Seq(R), NEW S
  PROVE  \A k \in 1 .. Len(s) : s[k] \in S => \E j \in 1 .. Len(Among(s, S)) : Among(s, S)[j] = s[k]
<1> DEFINE Has(r, x) == \E j \in 1 .. Len(r) : r[j] = x
           Complete(i, r) == r \in Seq(R) /\ \A k \in 1 .. i : s[k] \in S => Has(r, s[k])
<1>1. PICK out, n : out = SelectedSoFar(s, S) /\ n = Len(s)
  OBVIOUS
<1>2. /\ n \in Nat /\ out[0] = <<>>
      /\ \A i \in 1 .. n : out[i] = IF s[i] \in S THEN Append(out[i - 1], s[i]) ELSE out[i - 1]
  BY <1>1, SelectionRounds
<1>3. Complete(0, out[0])
  <2>1. <<>> \in Seq(R) /\ 1 .. 0 = {}
    OBVIOUS
  <2>2. QED
    BY <1>2, <2>1
<1>4. ASSUME NEW i \in 1 .. n, Complete(i - 1, out[i - 1])
      PROVE  Complete(i, out[i])
  <2>1. PICK r : r = out[i - 1] /\ r \in Seq(R) /\ \A k \in 1 .. i - 1 : s[k] \in S => Has(r, s[k])
    BY <1>4
  <2>2. ASSUME NEW k \in 1 .. i PROVE k \in 1 .. i - 1 \/ k = i
    BY <1>2
  <2>3. CASE s[i] \notin S
    <3>1. out[i] = r
      BY <1>2, <2>1, <2>3
    <3>2. \A k \in 1 .. i : s[k] \in S => Has(r, s[k])
      BY <2>1, <2>2, <2>3
    <3>3. QED
      BY <2>1, <3>1, <3>2
  <2>4. CASE s[i] \in S
    <3>1. PICK t : t = Append(r, s[i])
      OBVIOUS
    <3>2. s[i] \in R
      BY <1>1, <1>2
    <3>3. /\ t \in Seq(R) /\ Len(t) = Len(r) + 1 /\ t[Len(r) + 1] = s[i] /\ Len(r) \in Nat
          /\ \A j \in 1 .. Len(r) : t[j] = r[j]
      BY <2>1, <3>1, <3>2, AppendProperties
    <3>4. \A x : Has(r, x) => Has(t, x)
      <4>1. \A j \in 1 .. Len(r) : j \in 1 .. Len(t)
        BY <3>3
      <4>2. QED
        BY <3>3, <4>1
    <3>5. Has(t, s[i])
      <4>1. Len(r) + 1 \in 1 .. Len(t)
        BY <3>3
      <4>2. QED
        BY <3>3, <4>1
    <3> HIDE DEF Has
    <3>6. \A k \in 1 .. i : s[k] \in S => Has(t, s[k])
      BY <2>1, <2>2, <3>4, <3>5
    <3>7. out[i] = t
      BY <1>2, <2>1, <2>4, <3>1
    <3>8. QED
      BY <3>3, <3>6, <3>7
  <2>5. QED
    BY <2>3, <2>4
<1> HIDE DEF Complete
<1>5. PICK T : T = {i \in 0 .. n : Complete(i, out[i])}
  OBVIOUS
<1>6. 0 \in T /\ \A i \in 1 .. n : i - 1 \in T => i \in T
  BY <1>2, <1>3, <1>4, <1>5
<1>7. \A i \in 0 .. n : i \in T
  BY <1>2, <1>6, UpTo
<1>8. Complete(n, out[n])
  BY <1>2, <1>5, <1>7
<1>9. QED
  BY <1>1, <1>8 DEF Complete, Among

\* A selection of one element, and the selection of one element.
LEMMA SelectedAlone ==
  ASSUME NEW R, NEW s \in Seq(R), NEW S, Len(Among(s, S)) = 1
  PROVE  /\ Among(s, S)[1] \in R \cap S
         /\ \A k \in 1 .. Len(s) : s[k] \in S => s[k] = Among(s, S)[1]
<1>1. PICK r : r = Among(s, S)
  OBVIOUS
<1>2. r \in Seq(R \cap S) /\ Len(r) = 1
  BY <1>1, SelectionIsOrdered
<1>3. \A k \in 1 .. Len(s) : s[k] \in S => \E j \in 1 .. Len(r) : r[j] = s[k]
  BY <1>1, SelectionIsComplete
<1>4. r[1] \in R \cap S /\ 1 .. Len(r) = {1}
  BY <1>2
<1>5. QED
  BY <1>1, <1>3, <1>4

LEMMA SelectionOfOne ==
  ASSUME NEW R, NEW s \in Seq(R), NEW S, NEW k \in 1 .. Len(s), s[k] \in S,
         \A i \in 1 .. Len(s) : s[i] \in S => i = k
  PROVE  Len(Among(s, S)) = 1 /\ Among(s, S)[1] = s[k] /\ Among(s, S) # <<>>
<1>1. PICK r : r = Among(s, S)
  OBVIOUS
<1>2. /\ r \in Seq(R \cap S) /\ Len(r) \in Nat
      /\ \E at \in [1 .. Len(r) -> 1 .. Len(s)] :
           /\ \A j \in 1 .. Len(r) : r[j] = s[at[j]]
           /\ \A j, i \in 1 .. Len(r) : j < i => at[j] < at[i]
  BY <1>1, SelectionIsOrdered
<1>3. PICK at \in [1 .. Len(r) -> 1 .. Len(s)] :
        /\ \A j \in 1 .. Len(r) : r[j] = s[at[j]]
        /\ \A j, i \in 1 .. Len(r) : j < i => at[j] < at[i]
  BY <1>2
<1>4. PICK j \in 1 .. Len(r) : r[j] = s[k]
  BY <1>1, SelectionIsComplete
<1>5. \A i \in 1 .. Len(r) : at[i] = k
  <2>1. \A i \in 1 .. Len(r) : r[i] \in S
    BY <1>2
  <2>2. QED
    BY <1>3, <2>1
<1>6. Len(r) = 1
  <2>1. SUFFICES ASSUME Len(r) # 1 PROVE FALSE
    OBVIOUS
  <2>2. 1 \in 1 .. Len(r) /\ 2 \in 1 .. Len(r) /\ 1 < 2
    <3>1. Len(r) \in Nat
      BY <1>2
    <3>5. \A n \in Nat : j \in 1 .. n => 1 <= n
      OBVIOUS
    <3>2. PICK n \in Nat : n = Len(r) /\ n # 1 /\ 1 <= n
      BY <2>1, <3>1, <3>5
    <3>3. 1 \in 1 .. n /\ 2 \in 1 .. n /\ 1 < 2
      BY <3>2
    <3>4. QED
      BY <3>2, <3>3
  <2>3. at[1] < at[2]
    BY <1>3, <2>2
  <2>4. at[1] = k /\ at[2] = k
    BY <1>5, <2>2
  <2>6. k \in Nat
    OBVIOUS
  <2>5. QED
    BY <2>3, <2>4, <2>6
<1>7. r[1] = s[k]
  BY <1>4, <1>6
<1>8. r # <<>>
  BY <1>6
<1>9. QED
  BY <1>1, <1>6, <1>7, <1>8

(***************************************************************************)
(* Sorting: each member has a rank of its own.                             *)
(***************************************************************************)
StrictOrder(S, R) ==
  /\ \A x \in S : <<x, x>> \notin R
  /\ \A x, y, z \in S : <<x, y>> \in R /\ <<y, z>> \in R => <<x, z>> \in R
  /\ \A x, y \in S : x = y \/ <<x, y>> \in R \/ <<y, x>> \in R

LEMMA RanksAreOrdered ==
  ASSUME NEW S, IsFiniteSet(S), NEW R, StrictOrder(S, R)
  PROVE  /\ \A x \in S : Rank(S, R, x) \in 1 .. Cardinality(S)
         /\ \A x, y \in S : <<x, y>> \in R => Rank(S, R, x) < Rank(S, R, y)
<1> DEFINE Upto(x) == {y \in S : y = x \/ <<y, x>> \in R}
<1>1. \A x \in S : Upto(x) \in SUBSET S /\ Rank(S, R, x) = Cardinality(Upto(x)) /\ x \in Upto(x)
  BY DEF Rank
<1>2. ASSUME NEW x \in S, NEW y \in S, <<x, y>> \in R
      PROVE  Upto(x) \in SUBSET Upto(y) /\ y \notin Upto(x)
  BY <1>2 DEF StrictOrder
<1> HIDE DEF Upto
<1>3. ASSUME NEW x \in S PROVE IsFiniteSet(Upto(x)) /\ Rank(S, R, x) \in 1 .. Cardinality(S)
  <2>1. IsFiniteSet(Upto(x)) /\ Cardinality(Upto(x)) <= Cardinality(S) /\ Upto(x) # {}
    BY <1>1, FS_Subset
  <2>2. Cardinality(Upto(x)) \in Nat /\ Cardinality(Upto(x)) # 0 /\ Cardinality(S) \in Nat
    BY <2>1, FS_CardinalityType, FS_EmptySet
  <2>3. QED
    BY <1>1, <2>1, <2>2
<1>4. ASSUME NEW x \in S, NEW y \in S, <<x, y>> \in R PROVE Rank(S, R, x) < Rank(S, R, y)
  <2>1. /\ Cardinality(Upto(x)) <= Cardinality(Upto(y))
        /\ Cardinality(Upto(y)) = Cardinality(Upto(x)) => Upto(y) = Upto(x)
    BY <1>2, <1>3, <1>4, FS_Subset
  <2>2. Upto(y) # Upto(x)
    BY <1>1, <1>2, <1>4
  <2>3. Cardinality(Upto(x)) \in Nat /\ Cardinality(Upto(y)) \in Nat
    BY <1>3, FS_CardinalityType
  <2>4. QED
    BY <1>1, <2>1, <2>2, <2>3
<1>5. QED
  BY <1>3, <1>4

\* What is put in order is every member once.
LEMMA PutInOrder ==
  ASSUME NEW S, IsFiniteSet(S), NEW R, StrictOrder(S, R), NEW n, n = Cardinality(S)
  PROVE  /\ n \in Nat /\ InOrder(S, R) \in [1 .. n -> S]
         /\ \A x \in S : \E i \in 1 .. n : InOrder(S, R)[i] = x
         /\ \A i, j \in 1 .. n : i < j => <<InOrder(S, R)[i], InOrder(S, R)[j]>> \in R
         /\ \A i, j \in 1 .. n : InOrder(S, R)[i] = InOrder(S, R)[j] => i = j
<1> DEFINE f == [x \in S |-> Rank(S, R, x)]
<1>1. /\ \A x \in S : Rank(S, R, x) \in 1 .. n
      /\ \A x, y \in S : <<x, y>> \in R => Rank(S, R, x) < Rank(S, R, y)
  BY RanksAreOrdered
<1>2. n \in Nat
  BY FS_CardinalityType
<1>3. \A x, y \in S : Rank(S, R, x) = Rank(S, R, y) => x = y
  <2>1. SUFFICES ASSUME NEW x \in S, NEW y \in S, Rank(S, R, x) = Rank(S, R, y), x # y PROVE FALSE
    OBVIOUS
  <2>2. <<x, y>> \in R \/ <<y, x>> \in R
    BY <2>1 DEF StrictOrder
  <2>3. PICK i \in Nat, j \in Nat : i = Rank(S, R, x) /\ j = Rank(S, R, y)
    BY <1>1, <1>2
  <2>4. i < j \/ j < i
    BY <1>1, <2>2, <2>3
  <2>5. QED
    BY <2>1, <2>3, <2>4
<1>4. f \in Injection(S, 1 .. n)
  BY <1>1, <1>3 DEF Injection, IsInjective
<1>5. IsFiniteSet(1 .. n) /\ Cardinality(1 .. n) = n
  BY <1>2, FS_Interval
<1>6. f \in Surjection(S, 1 .. n)
  <2> HIDE DEF f
  <2>1. QED
    BY <1>4, <1>5, FS_Injection
<1>7. \A i \in 1 .. n : \E x \in S : Rank(S, R, x) = i
  BY <1>6 DEF Surjection
<1>8. PICK list : list = InOrder(S, R)
  OBVIOUS
<1>9. DOMAIN list = 1 .. n /\ \A i \in 1 .. n : list[i] \in S /\ Rank(S, R, list[i]) = i
  BY <1>7, <1>8 DEF InOrder
<1>10. list \in [1 .. n -> S]
  BY <1>8, <1>9 DEF InOrder
<1>11. \A x \in S : \E i \in 1 .. n : list[i] = x
  BY <1>1, <1>3, <1>9
<1>12. \A i, j \in 1 .. n : list[i] = list[j] => i = j
  BY <1>9
<1>13. ASSUME NEW i \in 1 .. n, NEW j \in 1 .. n, i < j PROVE <<list[i], list[j]>> \in R
  <2>1. PICK x, y : x = list[i] /\ y = list[j]
    OBVIOUS
  <2>2. x \in S /\ y \in S /\ Rank(S, R, x) = i /\ Rank(S, R, y) = j
    BY <1>9, <2>1
  <2>3. x # y /\ <<y, x>> \notin R
    BY <1>1, <1>2, <1>13, <2>2
  <2>4. QED
    BY <2>1, <2>2, <2>3 DEF StrictOrder
<1>14. QED
  BY <1>2, <1>8, <1>10, <1>11, <1>12, <1>13
=============================================================================
