----------------------------- MODULE ServeProofs -----------------------------
(***************************************************************************)
(* What resolvers of serve try, use and remember, for any cache, profile,  *)
(* discovery result and number of resolvers.                               *)
(***************************************************************************)
EXTENDS ServeResolution, SelectionsProofs, SequenceTheorems, TLAPS

(***************************************************************************)
(* serveCandidates: a short list of different URIs, the profile's endpoint *)
(* among them.                                                             *)
(***************************************************************************)
OtherURIs(cs) == \A i, j \in 1 .. Len(cs) : i # j => cs[i].uri # cs[j].uri

LEMMA OneMoreURI ==
  ASSUME NEW R, NEW cs \in Seq(R), NEW c \in R
  PROVE  /\ Append(cs, c) \in Seq(R) /\ Len(Append(cs, c)) = Len(cs) + 1
         /\ \A uri : HasURI(Append(cs, c), uri) <=> HasURI(cs, uri) \/ uri = c.uri
         /\ OtherURIs(cs) /\ ~HasURI(cs, c.uri) => OtherURIs(Append(cs, c))
<1>1. PICK t, n : t = Append(cs, c) /\ n = Len(cs)
  OBVIOUS
<1>2. /\ t \in Seq(R) /\ n \in Nat /\ Len(t) = n + 1 /\ t[n + 1] = c
      /\ \A i \in 1 .. n : t[i] = cs[i]
      /\ DOMAIN t = 1 .. n + 1 /\ DOMAIN cs = 1 .. n
  BY <1>1, AppendProperties
<1>3. ASSUME NEW uri PROVE HasURI(t, uri) <=> HasURI(cs, uri) \/ uri = c.uri
  <2>1. ASSUME HasURI(t, uri), uri # c.uri PROVE HasURI(cs, uri)
    <3>1. PICK i \in 1 .. n + 1 : t[i].uri = uri
      BY <1>2, <2>1 DEF HasURI
    <3>2. i # n + 1
      BY <1>2, <2>1, <3>1
    <3>3. i \in 1 .. n
      BY <1>2, <3>2
    <3>4. QED
      BY <1>2, <3>1, <3>3 DEF HasURI
  <2>2. HasURI(cs, uri) => HasURI(t, uri)
    <3>1. SUFFICES ASSUME HasURI(cs, uri) PROVE HasURI(t, uri)
      OBVIOUS
    <3>2. PICK i \in 1 .. n : cs[i].uri = uri
      BY <1>2, <3>1 DEF HasURI
    <3>3. i \in 1 .. n + 1 /\ t[i].uri = uri
      BY <1>2, <3>2
    <3>4. QED
      BY <1>2, <3>3 DEF HasURI
  <2>3. uri = c.uri => HasURI(t, uri)
    <3>1. n + 1 \in 1 .. n + 1
      BY <1>2
    <3>2. QED
      BY <1>2, <3>1 DEF HasURI
  <2>4. QED
    BY <2>1, <2>2, <2>3
<1>4. ASSUME OtherURIs(cs), ~HasURI(cs, c.uri), NEW i \in 1 .. n + 1, NEW j \in 1 .. n + 1, i # j
      PROVE  t[i].uri # t[j].uri
  <2>1. \A k \in 1 .. n : cs[k].uri # c.uri
    BY <1>2, <1>4 DEF HasURI
  <2>2. CASE i = n + 1
    <3>1. j \in 1 .. n
      BY <1>2, <1>4, <2>2
    <3>2. QED
      BY <1>2, <2>1, <2>2, <3>1
  <2>3. CASE j = n + 1
    <3>1. i \in 1 .. n
      BY <1>2, <1>4, <2>3
    <3>2. QED
      BY <1>2, <2>1, <2>3, <3>1
  <2>4. CASE i # n + 1 /\ j # n + 1
    <3>1. i \in 1 .. n /\ j \in 1 .. n
      BY <1>2, <2>4
    <3>2. cs[i].uri # cs[j].uri
      BY <1>1, <1>4, <3>1 DEF OtherURIs
    <3>3. QED
      BY <1>2, <3>1, <3>2
  <2>5. QED
    BY <2>2, <2>3, <2>4
<1>5. OtherURIs(cs) /\ ~HasURI(cs, c.uri) => OtherURIs(t)
  <2>1. SUFFICES ASSUME OtherURIs(cs), ~HasURI(cs, c.uri) PROVE OtherURIs(t)
    OBVIOUS
  <2>2. QED
    BY <1>2, <1>4, <2>1 DEF OtherURIs
<1>6. QED
  BY <1>1, <1>2, <1>3, <1>5

Acc == [list : Seq(Connections), pending : BOOLEAN]

\* What holds of the selection after each of the cached connections.
Selecting(acc, prof) ==
  /\ acc \in Acc
  /\ Len(acc.list) <= MaxServeCandidates
  /\ OtherURIs(acc.list)
  /\ acc.pending => /\ prof.url # NoURI
                    /\ ~HasURI(acc.list, prof.url)
                    /\ Len(acc.list) < MaxServeCandidates
  /\ ~acc.pending /\ prof.url # NoURI => HasURI(acc.list, prof.url)

LEMMA ConsiderTypes ==
  ASSUME NEW acc \in Acc, NEW c \in Connections, NEW prof
  PROVE  Consider(acc, c, prof) \in Acc
<1>1. acc.list \in Seq(Connections) /\ Append(acc.list, c) \in Seq(Connections)
  BY DEF Acc
<1>2. PICK l : l = Append(acc.list, c) /\ l \in Seq(Connections)
  BY <1>1
<1>3. [list |-> l, pending |-> FALSE] \in Acc
  BY <1>2 DEF Acc
<1>4. [acc EXCEPT !.list = l] \in Acc
  BY <1>2 DEF Acc
<1>5. Consider(acc, c, prof) \in {acc, [list |-> l, pending |-> FALSE], [acc EXCEPT !.list = l]}
  BY <1>2 DEF Consider
<1>6. QED
  BY <1>3, <1>4, <1>5

LEMMA ConsiderKeepsSelecting ==
  ASSUME NEW acc, NEW c \in Connections, NEW prof, Selecting(acc, prof)
  PROVE  Selecting(Consider(acc, c, prof), prof)
<1>1. acc \in Acc /\ acc.list \in Seq(Connections) /\ acc.pending \in BOOLEAN
  BY DEF Selecting, Acc
<1>2. PICK l : l = Append(acc.list, c)
  OBVIOUS
<1>3. /\ l \in Seq(Connections) /\ Len(l) = Len(acc.list) + 1
      /\ \A uri : HasURI(l, uri) <=> HasURI(acc.list, uri) \/ uri = c.uri
      /\ OtherURIs(acc.list) /\ ~HasURI(acc.list, c.uri) => OtherURIs(l)
  BY <1>1, <1>2, OneMoreURI
<1>4. Len(acc.list) \in Nat /\ MaxServeCandidates \in Nat \ {0}
  BY <1>1, ServeResolutionAssumption
<1>5. CASE HasURI(acc.list, c.uri)
  <2>1. ~IsProfile(acc, c, prof)
    BY <1>5 DEF Selecting, IsProfile
  <2>2. Consider(acc, c, prof) = acc
    BY <1>5, <2>1 DEF Consider
  <2>3. QED
    BY <2>2
<1>6. CASE ~HasURI(acc.list, c.uri) /\ IsProfile(acc, c, prof)
  <2>1. acc.pending /\ c.uri = prof.url
    BY <1>6 DEF IsProfile
  <2>2. PICK next : next = [list |-> l, pending |-> FALSE]
    OBVIOUS
  <2>3. Consider(acc, c, prof) = next
    BY <1>2, <1>6, <2>2 DEF Consider
  <2>4. next \in Acc /\ next.list = l /\ next.pending = FALSE
    BY <1>3, <2>2 DEF Acc
  <2>5. Len(l) <= MaxServeCandidates
    BY <1>3, <1>4, <2>1 DEF Selecting
  <2>6. OtherURIs(l) /\ HasURI(l, prof.url)
    BY <1>3, <1>6, <2>1 DEF Selecting
  <2>7. Selecting(next, prof)
    BY <2>4, <2>5, <2>6 DEF Selecting
  <2>8. QED
    BY <2>3, <2>7
<1>7. CASE ~HasURI(acc.list, c.uri) /\ ~IsProfile(acc, c, prof) /\ NoRoom(acc)
  BY <1>7 DEF Consider
<1>8. CASE ~HasURI(acc.list, c.uri) /\ ~IsProfile(acc, c, prof) /\ ~NoRoom(acc)
  <2>1. PICK next : next = [acc EXCEPT !.list = l]
    OBVIOUS
  <2>2. Consider(acc, c, prof) = next
    BY <1>2, <1>8, <2>1 DEF Consider
  <2>3. next \in Acc /\ next.list = l /\ next.pending = acc.pending
    BY <1>1, <1>3, <2>1 DEF Acc
  <2>4. OtherURIs(l)
    BY <1>3, <1>8 DEF Selecting
  <2>5. CASE acc.pending
    <3>1. c.uri # prof.url /\ prof.url # NoURI /\ ~HasURI(acc.list, prof.url)
      BY <1>8, <2>5 DEF IsProfile, Selecting
    <3>2. Len(acc.list) # MaxServeCandidates - 1 /\ Len(acc.list) < MaxServeCandidates
      BY <1>8, <2>5 DEF NoRoom, Selecting
    <3>3. Len(l) < MaxServeCandidates
      BY <1>3, <1>4, <3>2
    <3>4. ~HasURI(l, prof.url)
      BY <1>3, <3>1
    <3>5. Len(l) <= MaxServeCandidates
      BY <1>3, <1>4, <3>3
    <3>6. Selecting(next, prof)
      BY <2>3, <2>4, <2>5, <3>1, <3>3, <3>4, <3>5 DEF Selecting
    <3>7. QED
      BY <2>2, <3>6
  <2>6. CASE ~acc.pending
    <3>1. Len(acc.list) # MaxServeCandidates - 0 /\ Len(acc.list) <= MaxServeCandidates
      BY <1>8, <2>6 DEF NoRoom, Selecting
    <3>2. Len(l) <= MaxServeCandidates
      BY <1>3, <1>4, <3>1
    <3>3. prof.url # NoURI => HasURI(l, prof.url)
      BY <1>3, <2>6 DEF Selecting
    <3>4. Selecting(next, prof)
      BY <2>3, <2>4, <2>6, <3>2, <3>3 DEF Selecting
    <3>5. QED
      BY <2>2, <3>4
  <2>7. QED
    BY <2>5, <2>6
<1>9. QED
  BY <1>5, <1>6, <1>7, <1>8

LEMMA ConsideredRounds ==
  ASSUME NEW cached \in Seq(Connections), NEW prof
  PROVE  /\ Len(cached) \in Nat
         /\ Considered(cached, prof)[0] = [list |-> <<>>, pending |-> prof.url # NoURI]
         /\ \A i \in 1 .. Len(cached) :
              Considered(cached, prof)[i] = Consider(Considered(cached, prof)[i - 1], cached[i], prof)
<1> DEFINE n == Len(cached)
           start == [list |-> <<>>, pending |-> prof.url # NoURI]
           Rounds(g) == g = [i \in 0 .. n |-> IF i = 0 THEN start ELSE Consider(g[i - 1], cached[i], prof)]
           step == [q \in Acc \X (1 .. n) |-> Consider(q[1], cached[q[2]], prof)]
<1>1. n \in Nat
  OBVIOUS
<1>2. \A a \in Acc, i \in 1 .. n :
        step[<<a, i>>] \in Acc /\ step[<<a, i>>] = Consider(a, cached[i], prof)
  <2> SUFFICES ASSUME NEW a \in Acc, NEW i \in 1 .. n
               PROVE  step[<<a, i>>] \in Acc /\ step[<<a, i>>] = Consider(a, cached[i], prof)
    OBVIOUS
  <2>1. step[<<a, i>>] = Consider(a, cached[i], prof)
    OBVIOUS
  <2>2. cached[i] \in Connections
    OBVIOUS
  <2>3. Consider(a, cached[i], prof) \in Acc
    BY <2>2, ConsiderTypes
  <2> HIDE DEF step
  <2>4. QED
    BY <2>1, <2>3
<1>3. start \in Acc
  <2>1. <<>> \in Seq(Connections) /\ (prof.url # NoURI) \in BOOLEAN
    OBVIOUS
  <2>2. QED
    BY <2>1 DEF Acc
<1>4. PICK g \in [0 .. n -> Acc] : g[0] = start /\ \A i \in 1 .. n : g[i] = step[<<g[i - 1], i>>]
  <2> HIDE DEF step, n, start
  <2>1. \A a \in Acc, i \in 1 .. n : step[<<a, i>>] \in Acc
    BY <1>2
  <2>2. HasLoop(Acc, start, n, step)
    BY <1>1, <1>3, <2>1, LoopsExist
  <2>3. QED
    BY <2>2 DEF HasLoop
<1>5. \E f : Rounds(f)
  <2>1. ASSUME NEW i \in 0 .. n
        PROVE  g[i] = IF i = 0 THEN start ELSE Consider(g[i - 1], cached[i], prof)
    <3> HIDE DEF step, n, start
    <3>1. CASE i = 0
      BY <1>4, <3>1
    <3>2. CASE i # 0
      <4>1. i \in 1 .. n /\ i - 1 \in 0 .. n
        BY <1>1, <3>2
      <4>2. g[i] = step[<<g[i - 1], i>>] /\ g[i - 1] \in Acc
        BY <1>4, <4>1
      <4>3. QED
        BY <1>2, <3>2, <4>1, <4>2
    <3>3. QED
      BY <3>1, <3>2
  <2>2. Rounds(g)
    <3>1. g = [i \in 0 .. n |-> g[i]]
      OBVIOUS
    <3> HIDE DEF start
    <3>2. QED
      BY <2>1, <3>1
  <2> HIDE DEF Rounds
  <2>3. QED
    BY <2>2
<1>6. Rounds(Considered(cached, prof))
  BY <1>5 DEF Considered
<1>7. PICK out : out = Considered(cached, prof)
  OBVIOUS
<1> HIDE DEF step
<1>8. out[0] = start /\ \A i \in 1 .. n : out[i] = Consider(out[i - 1], cached[i], prof)
  <2>1. Rounds(out)
    BY <1>6, <1>7
  <2>2. 0 \in 0 .. n /\ \A i \in 1 .. n : i \in 0 .. n /\ i # 0
    BY <1>1
  <2> HIDE DEF n, start
  <2>3. QED
    BY <2>1, <2>2
<1>9. QED
  BY <1>1, <1>7, <1>8

\* What is probed before discovery.
Fine(cs, prof) ==
  /\ cs \in Seq(Connections)
  /\ Len(cs) <= MaxServeCandidates
  /\ OtherURIs(cs)
  /\ prof.url # NoURI => HasURI(cs, prof.url)

LEMMA CandidatesAreFine ==
  ASSUME NEW cached \in Seq(Connections), NEW prof \in Profiles
  PROVE  Fine(ServeCandidates(cached, prof), prof)
<1>1. PICK out, n : out = Considered(cached, prof) /\ n = Len(cached)
  OBVIOUS
<1>2. /\ n \in Nat /\ out[0] = [list |-> <<>>, pending |-> prof.url # NoURI]
      /\ \A i \in 1 .. n : out[i] = Consider(out[i - 1], cached[i], prof)
  BY <1>1, ConsideredRounds
<1>3. Selecting(out[0], prof)
  <2>1. PICK start : start = out[0] /\ start.list = <<>> /\ start.pending = (prof.url # NoURI) /\ start \in Acc
    <3>1. <<>> \in Seq(Connections) /\ (prof.url # NoURI) \in BOOLEAN
      OBVIOUS
    <3>2. out[0] \in Acc
      BY <1>2, <3>1 DEF Acc
    <3>3. QED
      BY <1>2, <3>2
  <2>2. Len(<<>>) = 0 /\ DOMAIN <<>> = {} /\ 1 .. 0 = {}
    OBVIOUS
  <2>3. OtherURIs(<<>>) /\ ~HasURI(<<>>, prof.url)
    BY <2>2 DEF OtherURIs, HasURI
  <2>4. Len(<<>>) < MaxServeCandidates /\ Len(<<>>) <= MaxServeCandidates
    BY <2>2, ServeResolutionAssumption
  <2>5. Selecting(start, prof)
    BY <2>1, <2>3, <2>4 DEF Selecting
  <2>6. QED
    BY <2>1, <2>5
<1>4. ASSUME NEW i \in 1 .. n, Selecting(out[i - 1], prof) PROVE Selecting(out[i], prof)
  <2>1. cached[i] \in Connections
    BY <1>1
  <2>2. QED
    BY <1>2, <1>4, <2>1, ConsiderKeepsSelecting
<1>5. PICK T : T = {i \in 0 .. n : Selecting(out[i], prof)}
  OBVIOUS
<1>6. \A i \in 0 .. n : i \in T
  <2>1. 0 \in T /\ \A i \in 1 .. n : i - 1 \in T => i \in T
    BY <1>2, <1>3, <1>4, <1>5
  <2>2. QED
    BY <1>2, <2>1, UpTo
<1>7. PICK seen : seen = out[n] /\ Selecting(seen, prof)
  BY <1>2, <1>5, <1>6
<1>8. seen.list \in Seq(Connections) /\ seen.pending \in BOOLEAN
  BY <1>7 DEF Selecting, Acc
<1>9. CASE seen.pending
  <2>1. prof.url # NoURI /\ ~HasURI(seen.list, prof.url) /\ Len(seen.list) < MaxServeCandidates /\ OtherURIs(seen.list)
    BY <1>7, <1>9 DEF Selecting
  <2>2. PICK c \in Connections : c = ProfileConnection(prof) /\ c.uri = prof.url
    BY <2>1, ServeResolutionAssumption DEF ProfileConnection
  <2>3. PICK l : l = Append(seen.list, c)
    OBVIOUS
  <2>4. l \in Seq(Connections) /\ Len(l) = Len(seen.list) + 1 /\ HasURI(l, prof.url) /\ OtherURIs(l)
    BY <1>8, <2>1, <2>2, <2>3, OneMoreURI
  <2>5. Len(l) <= MaxServeCandidates
    <3>1. Len(seen.list) \in Nat /\ MaxServeCandidates \in Nat
      BY <1>8, ServeResolutionAssumption
    <3>2. QED
      BY <2>1, <2>4, <3>1
  <2>6. ServeCandidates(cached, prof) = l
    BY <1>1, <1>7, <1>9, <2>1, <2>2, <2>3 DEF ServeCandidates
  <2>7. QED
    BY <2>4, <2>5, <2>6 DEF Fine
<1>10. CASE ~seen.pending
  <2>1. ServeCandidates(cached, prof) = seen.list
    BY <1>1, <1>7, <1>10 DEF ServeCandidates
  <2>2. QED
    BY <1>7, <1>8, <1>10, <2>1 DEF Selecting, Fine
<1>11. QED
  BY <1>8, <1>9, <1>10

(***************************************************************************)
(* The file of the durable cache.                                          *)
(***************************************************************************)
FileOK(f) ==
  /\ f.current \in Connections \cup {NoConnection}
  /\ f.history \in Seq(Connections) /\ Len(f.history) <= MaxCandidates
  /\ OtherURIs(f.history)
  /\ f.history # <<>> => f.current = f.history[1]

Remembered(f) ==
  IF f.history # <<>> THEN f.history
  ELSE IF f.current = NoConnection THEN <<>> ELSE <<f.current>>

LEMMA NothingIsSelected ==
  ASSUME NEW S
  PROVE  Among(<<>>, S) = <<>>
<1>1. <<>> \in Seq({}) /\ Len(<<>>) = 0
  OBVIOUS
<1>2. PICK t : t = Among(<<>>, S) /\ t \in Seq({} \cap S) /\ Len(t) <= 0
  BY <1>1, SelectionIsOrdered
<1>3. t = <<>>
  BY <1>2
<1>4. QED
  BY <1>2, <1>3

LEMMA FileIsWhatIsRemembered ==
  ASSUME NEW f, FileOK(f)
  PROVE  /\ WithCurrent(f) = Remembered(f)
         /\ CandidatesOf(f) = Remembered(f)
         /\ Remembered(f) \in Seq(Connections)
         /\ Len(Remembered(f)) <= MaxCandidates
         /\ OtherURIs(Remembered(f))
<1>1. PICK h : h = f.history /\ h \in Seq(Connections) /\ Len(h) <= MaxCandidates /\ OtherURIs(h)
  BY DEF FileOK
<1>2. MaxCandidates \in Nat \ {0} /\ Len(h) \in Nat /\ NoConnection \notin Connections
  BY <1>1, ConnectionCacheAssumption
<1>3. PICK w : w = Remembered(f)
  OBVIOUS
<1>4. w \in Seq(Connections) /\ Len(w) <= MaxCandidates /\ OtherURIs(w) /\ WithCurrent(f) = w
  <2>1. CASE h # <<>>
    <3>1. w = h /\ f.current = h[1] /\ h[1] \in Connections
      BY <1>1, <1>3, <2>1 DEF Remembered, FileOK
    <3>2. PICK c \in Connections : c = h[1]
      BY <3>1
    <3>3. PICK S : S = AtOtherURIs[c] /\ S = {d \in Connections : d.uri # c.uri}
      BY DEF AtOtherURIs
    <3>4. h[1] \notin S
      BY <3>2, <3>3
    <3>5. \A i \in 2 .. Len(h) : h[i] \in S
      <4>1. SUFFICES ASSUME NEW i \in 2 .. Len(h) PROVE h[i] \in S
        OBVIOUS
      <4>2. i \in 1 .. Len(h) /\ 1 \in 1 .. Len(h) /\ i # 1
        BY <1>2
      <4>3. h[i].uri # h[1].uri /\ h[i] \in Connections
        BY <1>1, <4>2 DEF OtherURIs
      <4>4. QED
        BY <3>2, <3>3, <4>3
    <3>6. Among(h, S) = Tail(h)
      BY <1>1, <2>1, <3>4, <3>5, SelectionOfTheRest
    <3>7. WithCurrent(f) = <<c>> \o Tail(h)
      BY <1>1, <1>2, <3>1, <3>2, <3>3, <3>6 DEF WithCurrent, PrependUnique
    <3>8. <<c>> \o Tail(h) = h
      BY <1>1, <2>1, <3>2
    <3>9. QED
      BY <1>1, <3>1, <3>7, <3>8
  <2>2. CASE h = <<>> /\ f.current = NoConnection
    BY <1>1, <1>2, <1>3, <2>2 DEF Remembered, WithCurrent
  <2>3. CASE h = <<>> /\ f.current # NoConnection
    <3>1. PICK c \in Connections : c = f.current
      BY <2>3 DEF FileOK
    <3>2. w = <<c>> /\ WithCurrent(f) = <<c>> \o <<>>
      BY <1>1, <1>3, <2>3, <3>1, NothingIsSelected DEF Remembered, WithCurrent, PrependUnique
    <3>3. <<c>> \o <<>> = <<c>> /\ <<c>> \in Seq(Connections) /\ Len(<<c>>) = 1
      OBVIOUS
    <3>4. Len(w) <= MaxCandidates
      BY <1>2, <3>2, <3>3
    <3>5. OtherURIs(w)
      BY <3>2, <3>3 DEF OtherURIs
    <3>6. QED
      BY <3>2, <3>3, <3>4, <3>5
  <2>4. QED
    BY <2>1, <2>2, <2>3
<1>5. CandidatesOf(f) = w
  <2>1. Len(w) \in Nat
    BY <1>4
  <2>2. SubSeq(w, 1, Len(w)) = w
    BY <1>4
  <2>3. (IF Len(w) < MaxCandidates THEN Len(w) ELSE MaxCandidates) = Len(w)
    BY <1>2, <1>4, <2>1
  <2>4. QED
    BY <1>4, <2>2, <2>3 DEF CandidatesOf, Newest
<1>6. QED
  BY <1>3, <1>4, <1>5

\* What fits of a list with c in front of it.
LEMMA NewestWithFront ==
  ASSUME NEW c \in Connections, NEW others \in Seq(Connections)
  PROVE  LET room == MaxCandidates - 1
         IN  Newest(<<c>> \o others)
               = <<c>> \o SubSeq(others, 1, IF Len(others) < room THEN Len(others) ELSE room)
<1>1. PICK n, k : n = Len(others) /\ k = IF n < MaxCandidates - 1 THEN n ELSE MaxCandidates - 1
  OBVIOUS
<1>2. n \in Nat /\ k \in 0 .. n /\ MaxCandidates \in Nat \ {0}
  BY <1>1, ConnectionCacheAssumption
<1>3. PICK all : all = <<c>> \o others
  OBVIOUS
<1>4. all \in Seq(Connections) /\ Len(all) = n + 1 /\ all[1] = c /\ \A i \in 1 .. n : all[i + 1] = others[i]
  BY <1>1, <1>3
<1>5. Newest(all) = SubSeq(all, 1, k + 1)
  <2>1. (IF n + 1 < MaxCandidates THEN n + 1 ELSE MaxCandidates) = k + 1
    BY <1>1, <1>2
  <2>2. QED
    BY <1>4, <2>1 DEF Newest
<1>6. PICK l, r, s : l = SubSeq(all, 1, k + 1) /\ s = SubSeq(others, 1, k) /\ r = <<c>> \o s
  OBVIOUS
<1>7. l \in Seq(Connections) /\ Len(l) = k + 1 /\ \A i \in 1 .. k + 1 : l[i] = all[i]
  BY <1>2, <1>4, <1>6, SubSeqProperties
<1>8. s \in Seq(Connections) /\ Len(s) = k /\ \A i \in 1 .. k : s[i] = others[i]
  BY <1>1, <1>2, <1>6, SubSeqProperties
<1>9. r \in Seq(Connections) /\ Len(r) = k + 1 /\ r[1] = c /\ \A i \in 1 .. k : r[i + 1] = s[i]
  BY <1>2, <1>6, <1>8
<1>10. ASSUME NEW i \in 1 .. k + 1 PROVE l[i] = r[i]
  <2>1. CASE i = 1
    BY <1>4, <1>7, <1>9, <2>1
  <2>2. CASE i # 1
    <3>1. PICK j \in 1 .. k : i = j + 1
      <4>1. i - 1 \in 1 .. k /\ i = (i - 1) + 1
        BY <1>2, <2>2
      <4>2. QED
        BY <4>1
    <3>2. j \in 1 .. n
      BY <1>2
    <3>3. l[j + 1] = all[j + 1] /\ all[j + 1] = others[j] /\ r[j + 1] = others[j]
      BY <1>4, <1>7, <1>8, <1>9, <3>1, <3>2
    <3>4. QED
      BY <3>1, <3>3
  <2>3. QED
    BY <2>1, <2>2
<1>11. l = r
  BY <1>7, <1>9, <1>10, SeqEqual
<1>12. QED
  BY <1>1, <1>3, <1>5, <1>6, <1>11

LEMMA PutRemembers ==
  ASSUME NEW f, FileOK(f), NEW c \in Connections
  PROVE  LET others == Among(Remembered(f), AtOtherURIs[c])
             room == MaxCandidates - 1
         IN  /\ FileOK(AfterPut(f, c))
             /\ Remembered(AfterPut(f, c))
                  = <<c>> \o SubSeq(others, 1, IF Len(others) < room THEN Len(others) ELSE room)
             /\ \A i \in DOMAIN Remembered(AfterPut(f, c)) :
                  \/ Remembered(AfterPut(f, c))[i] = c
                  \/ \E j \in DOMAIN Remembered(f) :
                       Remembered(AfterPut(f, c))[i] = Remembered(f)[j]
<1>1. PICK w : w = Remembered(f) /\ w = WithCurrent(f) /\ w \in Seq(Connections) /\ OtherURIs(w)
  BY FileIsWhatIsRemembered
<1>2. PICK S : S = AtOtherURIs[c] /\ S = {d \in Connections : d.uri # c.uri}
  BY DEF AtOtherURIs
<1>3. PICK others : /\ others = Among(w, S) /\ others \in Seq(Connections \cap S)
                    /\ Len(others) <= Len(w)
                    /\ \E at \in [1 .. Len(others) -> 1 .. Len(w)] :
                         /\ \A j \in 1 .. Len(others) : others[j] = w[at[j]]
                         /\ \A j, k \in 1 .. Len(others) : j < k => at[j] < at[k]
  BY <1>1, SelectionIsOrdered
<1>4. PICK at \in [1 .. Len(others) -> 1 .. Len(w)] :
        /\ \A j \in 1 .. Len(others) : others[j] = w[at[j]]
        /\ \A j, k \in 1 .. Len(others) : j < k => at[j] < at[k]
  BY <1>3
<1>5. PICK n, k : /\ n = Len(others) /\ k = IF n < MaxCandidates - 1 THEN n ELSE MaxCandidates - 1
                  /\ n \in Nat /\ k \in 0 .. n /\ k + 1 <= MaxCandidates
  <2>1. Len(others) \in Nat /\ MaxCandidates \in Nat \ {0}
    BY <1>3, ConnectionCacheAssumption
  <2>2. QED
    BY <2>1
<1>6. PICK s, r : s = SubSeq(others, 1, k) /\ r = <<c>> \o s
  OBVIOUS
<1>7. others \in Seq(Connections)
  <2>1. Connections \cap S \subseteq Connections
    OBVIOUS
  <2>2. QED
    BY <1>3, <2>1
<1>8. s \in Seq(Connections) /\ Len(s) = k /\ \A i \in 1 .. k : s[i] = others[i]
  <2>1. n = Len(others) /\ n \in Nat /\ k \in 0 .. n
    BY <1>5
  <2>2. QED
    BY <1>6, <1>7, <2>1, SubSeqProperties
<1>9. r \in Seq(Connections) /\ Len(r) = k + 1 /\ r[1] = c /\ \A i \in 1 .. k : r[i + 1] = s[i]
  BY <1>5, <1>6, <1>8
<1>10. r = Newest(<<c>> \o others)
  BY <1>5, <1>6, <1>7, NewestWithFront
<1>11. PICK g : g = AfterPut(f, c) /\ g.current = c /\ g.history = r
  <2>1. PrependUnique(c, WithCurrent(f)) = <<c>> \o others
    BY <1>1, <1>2, <1>3 DEF PrependUnique
  <2>2. AfterPut(f, c) = [current |-> c, history |-> r]
    BY <1>10, <2>1 DEF AfterPut
  <2>3. QED
    BY <2>2
<1>12. ASSUME NEW i \in 1 .. k + 1, i # 1
       PROVE  \E j \in 1 .. k : i = j + 1 /\ j \in 1 .. n /\ r[i] = others[j] /\ others[j] \in S /\ at[j] \in 1 .. Len(w)
  <2>1. PICK j \in 1 .. k : i = j + 1
    <3>1. i - 1 \in 1 .. k /\ i = (i - 1) + 1
      BY <1>5, <1>12
    <3>2. QED
      BY <3>1
  <2>2. j \in 1 .. n
    BY <1>5
  <2>3. r[i] = others[j] /\ others[j] \in S
    BY <1>3, <1>5, <1>8, <1>9, <2>1, <2>2
  <2>4. at[j] \in 1 .. Len(w)
    BY <1>5, <2>2
  <2>5. QED
    BY <2>1, <2>2, <2>3, <2>4
<1>13. ASSUME NEW i \in 1 .. k + 1, NEW j \in 1 .. k + 1, i < j PROVE r[i].uri # r[j].uri
  <2>1. j # 1
    BY <1>5, <1>13
  <2>2. PICK b \in 1 .. k : j = b + 1 /\ b \in 1 .. n /\ r[j] = others[b] /\ others[b] \in S /\ at[b] \in 1 .. Len(w)
    BY <1>12, <2>1
  <2>3. CASE i = 1
    BY <1>2, <1>9, <2>2, <2>3
  <2>4. CASE i # 1
    <3>1. PICK a \in 1 .. k : i = a + 1 /\ a \in 1 .. n /\ r[i] = others[a] /\ at[a] \in 1 .. Len(w)
      BY <1>12, <2>4
    <3>2. a < b
      BY <1>13, <2>2, <3>1
    <3>3. at[a] < at[b] /\ others[a] = w[at[a]] /\ others[b] = w[at[b]]
      BY <1>4, <1>5, <2>2, <3>1, <3>2
    <3>4. at[a] # at[b]
      BY <2>2, <3>1, <3>3
    <3>5. w[at[a]].uri # w[at[b]].uri
      BY <1>1, <2>2, <3>1, <3>4 DEF OtherURIs
    <3>6. QED
      BY <2>2, <3>1, <3>3, <3>5
  <2>5. QED
    BY <2>3, <2>4
<1>14. OtherURIs(r)
  <2>1. SUFFICES ASSUME NEW i \in 1 .. k + 1, NEW j \in 1 .. k + 1, i # j PROVE r[i].uri # r[j].uri
    BY <1>9 DEF OtherURIs
  <2>2. i < j \/ j < i
    BY <1>5, <2>1
  <2>3. QED
    BY <1>13, <2>2
<1>15. FileOK(g)
  BY <1>5, <1>9, <1>11, <1>14 DEF FileOK
<1>16. r # <<>>
  BY <1>5, <1>9
<1>17. Remembered(g) = r
  BY <1>11, <1>16 DEF Remembered
<1>18. ASSUME NEW i \in DOMAIN r
       PROVE  r[i] = c \/ \E j \in DOMAIN w : r[i] = w[j]
  <2>1. i \in 1 .. k + 1
    BY <1>9
  <2>2. CASE i = 1
    BY <1>9, <2>2
  <2>3. CASE i # 1
    <3>1. PICK a \in 1 .. n : r[i] = others[a] /\ at[a] \in 1 .. Len(w)
      BY <1>12, <2>1, <2>3
    <3>2. others[a] = w[at[a]] /\ at[a] \in DOMAIN w
      BY <1>1, <1>4, <1>5, <3>1
    <3>3. QED
      BY <3>1, <3>2
  <2>4. QED
    BY <2>2, <2>3
<1>19. r = <<c>> \o SubSeq(others, 1, IF Len(others) < MaxCandidates - 1 THEN Len(others) ELSE MaxCandidates - 1)
  BY <1>5, <1>6
<1>20. w = Remembered(f) /\ others = Among(w, AtOtherURIs[c]) /\ g = AfterPut(f, c)
  BY <1>1, <1>2, <1>3, <1>11
<1>21. QED
  BY <1>15, <1>17, <1>18, <1>19, <1>20

(***************************************************************************)
(* The invariant.  A resolver that still probes candidates has what is     *)
(* tried and what is left of one list of serveCandidates; one that goes on *)
(* to remember has an endpoint that answered; and the mutex keeps what a   *)
(* Put has read the same as the file.                                      *)
(***************************************************************************)
TypesInv ==
  /\ profile \in Profiles
  /\ pc \in [Resolvers -> {"idle", "cached", "discovering", "advertised", "putting",
                           "saving", "done"}]
  /\ ctx \in [Resolvers -> {"live", "deadline", "canceled"}]
  /\ todo \in [Resolvers -> Seq(Connections)]
  /\ expected \in [Resolvers -> Machines \cup {NoMachine}]
  /\ tried \in [Resolvers -> Seq(Connections)]
  /\ chosen \in [Resolvers -> Connections \cup {NoConnection}]
  /\ err \in [Resolvers -> Errors]
  /\ validated \subseteq URIs

StoreInv ==
  /\ FileOK(file)
  /\ mutex \in Users \cup {Nobody}
  /\ DOMAIN loaded = Users
  /\ \A p \in Resolvers : pc[p] = "saving" <=> mutex = p
  /\ \A p \in Resolvers : mutex = p => loaded[p] = file
  /\ \A i \in DOMAIN Remembered(file) : Endpoint(Remembered(file)[i]) \in validated

ResolverOK(p) ==
  /\ pc[p] \notin {"cached", "discovering"} => tried[p] = <<>>
  /\ pc[p] = "cached" => /\ profile.machine # NoMachine
                         /\ expected[p] = profile.machine
                         /\ Fine(tried[p] \o todo[p], profile)
  /\ pc[p] = "discovering" => IF profile.machine = NoMachine THEN tried[p] = <<>>
                                                            ELSE Fine(tried[p], profile)
  /\ pc[p] = "advertised" /\ profile.machine # NoMachine => expected[p] = profile.machine
  /\ IF pc[p] \in {"putting", "saving"}
     THEN chosen[p] \in Connections /\ Endpoint(chosen[p]) \in validated
     ELSE chosen[p] = NoConnection

ServeInv == TypesInv /\ StoreInv /\ \A p \in Resolvers : ResolverOK(p)

LEMMA EndpointTypes ==
  ASSUME NEW c \in Connections
  PROVE  Endpoint(c) \in URIs
BY ServeResolutionAssumption DEF Endpoint

LEMMA ServeInit ==
  Init => ServeInv
<1> SUFFICES ASSUME Init PROVE ServeInv
  OBVIOUS
<1>1. <<>> \in Seq(Connections) /\ Len(<<>>) = 0
  OBVIOUS
<1>2. file.current \in Connections \cup {NoConnection} /\ file.history = <<>>
  BY DEF Init, StoreInit, NoEntry
<1>3. validated \subseteq URIs
  <2>1. ASSUME NEW c \in {file.current} \ {NoConnection} PROVE Endpoint(c) \in URIs
    BY <1>2, EndpointTypes
  <2>2. validated = {Endpoint(c) : c \in {file.current} \ {NoConnection}}
    BY DEF Init
  <2>3. QED
    BY <2>1, <2>2
<1>4. TypesInv
  BY <1>1, <1>3 DEF Init, TypesInv, Errors
<1>5. FileOK(file)
  <2>1. OtherURIs(<<>>)
    BY <1>1 DEF OtherURIs
  <2>2. 0 <= MaxCandidates
    BY ConnectionCacheAssumption
  <2>3. QED
    BY <1>1, <1>2, <2>1, <2>2 DEF FileOK
<1>6. ASSUME NEW i \in DOMAIN Remembered(file) PROVE Endpoint(Remembered(file)[i]) \in validated
  <2>1. file.current # NoConnection /\ Remembered(file) = <<file.current>>
    BY <1>2, <1>6 DEF Remembered
  <2>2. Remembered(file)[i] = file.current
    BY <2>1
  <2>3. file.current \in {file.current} \ {NoConnection}
    BY <2>1
  <2>4. QED
    BY <2>2, <2>3 DEF Init
<1>7. StoreInv
  <2>1. mutex = Nobody /\ loaded = [u \in Users |-> NoEntry] /\ pc = [p \in Resolvers |-> "idle"]
    BY DEF Init, StoreInit
  <2>2. \A p \in Resolvers : pc[p] # "saving" /\ mutex # p
    BY <2>1, ConnectionCacheAssumption DEF Resolvers
  <2>3. QED
    BY <1>5, <1>6, <2>1, <2>2 DEF StoreInv
<1>8. ASSUME NEW p \in Resolvers PROVE ResolverOK(p)
  BY DEF Init, ResolverOK
<1>9. QED
  BY <1>4, <1>7, <1>8 DEF ServeInv

\* What a resolver has stays as good while the other ones move.
LEMMA OthersStay ==
  ASSUME NEW q \in Resolvers, ResolverOK(q), profile' = profile, validated \subseteq validated',
         pc'[q] = pc[q], expected'[q] = expected[q], todo'[q] = todo[q], tried'[q] = tried[q],
         chosen'[q] = chosen[q]
  PROVE  ResolverOK(q)'
BY DEF ResolverOK, Endpoint

\* The file, while nobody writes it.
LEMMA StoreStays ==
  ASSUME StoreInv, UNCHANGED storeVars, validated \subseteq validated',
         \A p \in Resolvers : pc'[p] = "saving" <=> pc[p] = "saving"
  PROVE  StoreInv'
<1>1. PICK w : w = Remembered(file) /\ w = Remembered(file')
  BY DEF storeVars
<1>2. \A i \in DOMAIN w : Endpoint(w[i]) \in validated'
  BY <1>1 DEF StoreInv
<1>3. FileOK(file') /\ file' = file /\ mutex' = mutex /\ loaded' = loaded
  BY DEF storeVars, StoreInv
<1>4. QED
  BY <1>1, <1>2, <1>3 DEF StoreInv, Endpoint, FileOK, Remembered

\* The other resolvers are where they were.
OnlyMoves(p) ==
  \A q \in Resolvers \ {p} :
    /\ pc'[q] = pc[q] /\ expected'[q] = expected[q] /\ todo'[q] = todo[q]
    /\ tried'[q] = tried[q] /\ chosen'[q] = chosen[q]

LEMMA OneMoves ==
  ASSUME ServeInv, NEW p \in Resolvers, OnlyMoves(p), profile' = profile, validated \subseteq validated',
         TypesInv', StoreInv', ResolverOK(p)'
  PROVE  ServeInv'
<1>1. ASSUME NEW q \in Resolvers PROVE ResolverOK(q)'
  <2>1. CASE q = p
    BY <2>1
  <2>2. CASE q # p
    <3>1. ResolverOK(q)
      BY DEF ServeInv
    <3>2. /\ pc'[q] = pc[q] /\ expected'[q] = expected[q] /\ todo'[q] = todo[q]
          /\ tried'[q] = tried[q] /\ chosen'[q] = chosen[q]
      BY <2>2 DEF OnlyMoves
    <3>3. QED
      BY <3>1, <3>2, OthersStay
  <2>3. QED
    BY <2>1, <2>2
<1>2. QED
  BY <1>1 DEF ServeInv

LEMMA Returns ==
  ASSUME ServeInv, NEW p \in Resolvers, NEW e \in Errors, Return(p, e), profile' = profile,
         validated' \subseteq URIs
  PROVE  TypesInv' /\ ResolverOK(p)' /\ OnlyMoves(p) /\ pc'[p] = "done"
<1>1. <<>> \in Seq(Connections)
  OBVIOUS
<1>2. TypesInv
  BY DEF ServeInv
<1>3. TypesInv'
  BY <1>1, <1>2 DEF TypesInv, Return, Goto
<1>4. pc'[p] = "done" /\ tried'[p] = <<>> /\ chosen'[p] = NoConnection
  BY <1>2 DEF TypesInv, Return, Goto
<1>5. OnlyMoves(p)
  BY <1>2 DEF TypesInv, Return, Goto, OnlyMoves
<1>6. ResolverOK(p)'
  BY <1>4 DEF ResolverOK
<1>7. QED
  BY <1>3, <1>4, <1>5, <1>6

\* A return while nobody writes the file.
LEMMA ReturnsBeforeSaving ==
  ASSUME ServeInv, NEW p \in Resolvers, NEW e \in Errors, Return(p, e), profile' = profile,
         validated \subseteq validated', validated' \subseteq URIs, UNCHANGED storeVars, pc[p] # "saving"
  PROVE  ServeInv'
<1>1. TypesInv' /\ ResolverOK(p)' /\ OnlyMoves(p) /\ pc'[p] = "done"
  BY Returns
<1>2. \A q \in Resolvers : pc'[q] = "saving" <=> pc[q] = "saving"
  BY <1>1 DEF OnlyMoves
<1>3. StoreInv'
  BY <1>2, StoreStays DEF ServeInv
<1>4. QED
  BY <1>1, <1>3, OneMoves

LEMMA ReadCandidatesStep ==
  ASSUME ServeInv, NEW p \in Resolvers, ReadCandidates(p)
  PROVE  ServeInv'
<1>1. TypesInv /\ StoreInv /\ FileOK(file) /\ profile \in Profiles /\ ResolverOK(p) /\ pc[p] = "idle"
  BY DEF ServeInv, StoreInv, TypesInv, ReadCandidates
<1>2. PICK cs \in {CandidatesOf(file), <<>>} :
        Candidates(cs) /\ todo' = [todo EXCEPT ![p] = ServeCandidates(cs, profile)]
  BY DEF ReadCandidates
<1>3. cs \in Seq(Connections)
  <2>1. CandidatesOf(file) \in Seq(Connections) /\ <<>> \in Seq(Connections)
    BY <1>1, FileIsWhatIsRemembered
  <2>2. QED
    BY <2>1
<1>4. PICK l : l = ServeCandidates(cs, profile) /\ Fine(l, profile)
  BY <1>1, <1>3, CandidatesAreFine
<1>5. l \in Seq(Connections)
  BY <1>4 DEF Fine
<1>6. profile.machine \in Machines \cup {NoMachine}
  BY <1>1, ServeResolutionAssumption
<1>7. TypesInv'
  BY <1>1, <1>2, <1>4, <1>5, <1>6 DEF TypesInv, ReadCandidates, Goto
<1>8. /\ pc'[p] = "cached" /\ todo'[p] = l /\ expected'[p] = profile.machine /\ profile.machine # NoMachine
      /\ tried'[p] = <<>> /\ chosen'[p] = NoConnection /\ profile' = profile /\ validated' = validated
  BY <1>1, <1>2, <1>4 DEF TypesInv, ReadCandidates, Goto, ResolverOK
<1>9. OnlyMoves(p)
  BY <1>1, <1>2 DEF TypesInv, ReadCandidates, Goto, OnlyMoves
<1>10. UNCHANGED storeVars
  BY <1>2 DEF Candidates
<1>11. \A q \in Resolvers : pc'[q] = "saving" <=> pc[q] = "saving"
  BY <1>1, <1>8, <1>9 DEF OnlyMoves
<1>12. StoreInv'
  BY <1>1, <1>8, <1>10, <1>11, StoreStays
<1>13. <<>> \o l = l
  BY <1>5
<1>14. ResolverOK(p)'
  BY <1>4, <1>8, <1>13 DEF ResolverOK
<1>15. QED
  BY <1>7, <1>8, <1>9, <1>12, <1>14, OneMoves

LEMMA SkipCandidatesStep ==
  ASSUME ServeInv, NEW p \in Resolvers, SkipCandidates(p)
  PROVE  ServeInv'
<1>1. TypesInv /\ StoreInv /\ ResolverOK(p) /\ pc[p] = "idle" /\ profile.machine = NoMachine
  BY DEF ServeInv, SkipCandidates
<1>2. TypesInv'
  BY <1>1 DEF TypesInv, SkipCandidates, Goto
<1>3. /\ pc'[p] = "discovering" /\ tried'[p] = <<>> /\ chosen'[p] = NoConnection
      /\ profile' = profile /\ validated' = validated
  BY <1>1 DEF TypesInv, SkipCandidates, Goto, ResolverOK
<1>4. OnlyMoves(p)
  BY <1>1 DEF TypesInv, SkipCandidates, Goto, OnlyMoves
<1>5. \A q \in Resolvers : pc'[q] = "saving" <=> pc[q] = "saving"
  BY <1>1, <1>3, <1>4 DEF OnlyMoves
<1>6. StoreInv'
  BY <1>1, <1>3, <1>5, StoreStays DEF SkipCandidates
<1>7. ResolverOK(p)'
  BY <1>1, <1>3 DEF ResolverOK
<1>8. QED
  BY <1>2, <1>3, <1>4, <1>6, <1>7, OneMoves

\* Probes do not touch the file, and what answers is an endpoint.
LEMMA ProbeFacts ==
  ASSUME ServeInv, NEW p \in Resolvers, NEW m, Probe(p, m)
  PROVE  /\ todo[p] \in Seq(Connections) /\ todo[p] # <<>>
         /\ Head(todo[p]) \in Connections /\ Tail(todo[p]) \in Seq(Connections)
         /\ validated \subseteq validated' /\ validated' \subseteq URIs
         /\ m \in {profile.machine} \ {NoMachine} => Endpoint(Head(todo[p])) \in validated'
         /\ m \in Machines \cup {NoMachine}
<1>1. todo[p] \in Seq(Connections) /\ todo[p] # <<>> /\ validated \subseteq URIs
  BY DEF ServeInv, TypesInv, Probe
<1>2. Head(todo[p]) \in Connections /\ Tail(todo[p]) \in Seq(Connections)
  BY <1>1
<1>3. Endpoint(Head(todo[p])) \in URIs
  BY <1>2, EndpointTypes
<1>4. QED
  BY <1>1, <1>2, <1>3 DEF Probe, Answerers

LEMMA ProbeValidatesStep ==
  ASSUME ServeInv, NEW p \in Resolvers, NEW m, Probe(p, m), ProbeValidates(p, m),
         pc[p] \in {"cached", "advertised"}, profile.machine # NoMachine
  PROVE  ServeInv'
<1>1. TypesInv /\ StoreInv /\ ResolverOK(p)
  BY DEF ServeInv
<1>2. expected[p] = profile.machine /\ m \in {profile.machine} \ {NoMachine}
  BY <1>1 DEF ResolverOK, ProbeValidates, Validates
<1>3. PICK c \in Connections : c = Head(todo[p]) /\ Endpoint(c) \in validated'
  BY <1>2, ProbeFacts
<1>4. validated \subseteq validated' /\ validated' \subseteq URIs /\ <<>> \in Seq(Connections)
  BY ProbeFacts
<1>5. TypesInv'
  BY <1>1, <1>3, <1>4 DEF TypesInv, ProbeValidates, Goto
<1>6. pc'[p] = "putting" /\ tried'[p] = <<>> /\ chosen'[p] = c /\ profile' = profile
  BY <1>1, <1>3 DEF TypesInv, ProbeValidates, Goto
<1>7. OnlyMoves(p)
  BY <1>1 DEF TypesInv, ProbeValidates, Goto, OnlyMoves
<1>8. \A q \in Resolvers : pc'[q] = "saving" <=> pc[q] = "saving"
  BY <1>6, <1>7 DEF OnlyMoves
<1>9. StoreInv'
  BY <1>1, <1>4, <1>8, StoreStays DEF ProbeValidates
<1>10. ResolverOK(p)'
  BY <1>3, <1>6 DEF ResolverOK, Endpoint
<1>11. QED
  BY <1>4, <1>5, <1>6, <1>7, <1>9, <1>10, OneMoves

LEMMA ProbeCandidateStep ==
  ASSUME ServeInv, NEW p \in Resolvers, ProbeCandidate(p)
  PROVE  ServeInv'
<1>1. TypesInv /\ StoreInv /\ ResolverOK(p) /\ pc[p] = "cached" /\ profile.machine # NoMachine
  BY DEF ServeInv, ProbeCandidate, ResolverOK
<1>2. PICK m : /\ Probe(p, m)
               /\ \/ ProbeValidates(p, m)
                  \/ ProbeFails(p, m) /\ tried' = [tried EXCEPT ![p] = Append(@, Head(todo[p]))]
  BY DEF ProbeCandidate
<1>3. CASE ProbeValidates(p, m)
  BY <1>1, <1>2, <1>3, ProbeValidatesStep
<1>4. CASE ProbeFails(p, m) /\ tried' = [tried EXCEPT ![p] = Append(@, Head(todo[p]))]
  <2>1. /\ todo[p] \in Seq(Connections) /\ todo[p] # <<>> /\ Head(todo[p]) \in Connections
        /\ Tail(todo[p]) \in Seq(Connections) /\ validated \subseteq validated' /\ validated' \subseteq URIs
    BY <1>2, ProbeFacts
  <2>2. PICK t, d : /\ t = tried[p] /\ d = todo[p] /\ t \in Seq(Connections) /\ d \in Seq(Connections)
                    /\ d # <<>> /\ Head(d) \in Connections /\ Tail(d) \in Seq(Connections)
    BY <1>1, <2>1 DEF TypesInv
  <2>3. Append(t, Head(d)) \in Seq(Connections)
    BY <2>2
  <2>4. Append(t, Head(d)) \o Tail(d) = t \o d
    <3>1. Append(t, Head(d)) = t \o <<Head(d)>> /\ <<Head(d)>> \in Seq(Connections)
      BY <2>2
    <3>2. (t \o <<Head(d)>>) \o Tail(d) = t \o (<<Head(d)>> \o Tail(d))
      <4>1. PICK h, r : h = <<Head(d)>> /\ r = Tail(d) /\ h \in Seq(Connections) /\ r \in Seq(Connections)
        BY <2>2, <3>1
      <4>2. (t \o h) \o r = t \o (h \o r)
        <5>1. t \in Seq(Connections) /\ h \in Seq(Connections) /\ r \in Seq(Connections)
          BY <2>2, <4>1
        <5>2. QED
          BY <5>1
      <4>3. QED
        BY <4>1, <4>2
    <3>3. <<Head(d)>> \o Tail(d) = d
      BY <2>2
    <3>4. QED
      BY <3>1, <3>2, <3>3
  <2>5. TypesInv'
    BY <1>1, <1>4, <2>1, <2>2, <2>3 DEF TypesInv, ProbeFails
  <2>6. /\ pc'[p] = "cached" /\ todo'[p] = Tail(d) /\ tried'[p] = Append(t, Head(d))
        /\ expected'[p] = expected[p] /\ chosen'[p] = chosen[p] /\ profile' = profile
    BY <1>1, <1>4, <2>2 DEF TypesInv, ProbeFails
  <2>7. OnlyMoves(p)
    BY <1>1, <1>4 DEF TypesInv, ProbeFails, OnlyMoves
  <2>8. StoreInv'
    BY <1>1, <1>4, <2>1, StoreStays DEF ProbeFails
  <2>9. Fine(t \o d, profile) /\ expected[p] = profile.machine /\ chosen[p] = NoConnection
    BY <1>1, <2>2 DEF ResolverOK
  <2>10. ResolverOK(p)'
    BY <1>1, <2>4, <2>6, <2>9 DEF ResolverOK
  <2>11. QED
    BY <2>1, <2>5, <2>6, <2>7, <2>8, <2>10, OneMoves
<1>5. QED
  BY <1>2, <1>3, <1>4

LEMMA CandidatesFailedStep ==
  ASSUME ServeInv, NEW p \in Resolvers, CandidatesFailed(p)
  PROVE  ServeInv'
<1>1. /\ TypesInv /\ StoreInv /\ ResolverOK(p) /\ pc[p] = "cached" /\ todo[p] = <<>>
      /\ profile.machine # NoMachine
  BY DEF ServeInv, CandidatesFailed, ResolverOK
<1>2. PICK t : t = tried[p] /\ t \in Seq(Connections) /\ Fine(t \o <<>>, profile)
  BY <1>1 DEF TypesInv, ResolverOK
<1>3. t \o <<>> = t
  BY <1>2
<1>4. TypesInv'
  BY <1>1 DEF TypesInv, CandidatesFailed, Goto
<1>5. /\ pc'[p] = "discovering" /\ tried'[p] = t /\ chosen'[p] = NoConnection
      /\ profile' = profile /\ validated' = validated
  BY <1>1, <1>2 DEF TypesInv, CandidatesFailed, Goto, ResolverOK
<1>6. OnlyMoves(p)
  BY <1>1 DEF TypesInv, CandidatesFailed, Goto, OnlyMoves
<1>7. \A q \in Resolvers : pc'[q] = "saving" <=> pc[q] = "saving"
  BY <1>1, <1>5, <1>6 DEF OnlyMoves
<1>8. StoreInv'
  BY <1>1, <1>5, <1>7, StoreStays DEF CandidatesFailed
<1>9. ResolverOK(p)'
  BY <1>1, <1>2, <1>3, <1>5 DEF ResolverOK
<1>10. QED
  BY <1>4, <1>5, <1>6, <1>8, <1>9, OneMoves

LEMMA OrderedTypes ==
  ASSUME NEW cs \in Seq(Connections)
  PROVE  OrderedConnections(cs) \in Seq(Connections)
<1>1. ASSUME NEW S PROVE Among(cs, S) \in Seq(Connections)
  <2>1. Among(cs, S) \in Seq(Connections \cap S)
    BY SelectionIsOrdered
  <2>2. Connections \cap S \subseteq Connections
    OBVIOUS
  <2>3. QED
    BY <2>1, <2>2
<1>2. PICK a, b, c :
        /\ a = Among(cs, {d \in Connections : d.local /\ ~d.relay})
        /\ b = Among(cs, {d \in Connections : ~d.local /\ ~d.relay})
        /\ c = Among(cs, {d \in Connections : d.relay})
        /\ a \in Seq(Connections) /\ b \in Seq(Connections) /\ c \in Seq(Connections)
  BY <1>1
<1>3. OrderedConnections(cs) = a \o b \o c
  BY <1>2 DEF OrderedConnections
<1>4. QED
  BY <1>2, <1>3

LEMMA MatchesFacts ==
  ASSUME NEW snapshot \in Snapshots \cup {<<>>}, NEW matches,
         matches = MatchingServeResources(snapshot), Len(matches) = 1
  PROVE  /\ matches[1].machine \in Machines
         /\ matches[1].connections \in Seq(Connections)
         /\ profile.machine # NoMachine => matches[1].machine = profile.machine
<1>1. PICK S : S = {r \in ToSet(snapshot) : Matches(r)}
  OBVIOUS
<1>2. matches = Among(snapshot, S)
  BY <1>1 DEF MatchingServeResources
<1>3. snapshot # <<>>
  <2>1. Len(<<>>) = 0
    OBVIOUS
  <2>2. QED
    BY <1>2, <2>1, NothingIsSelected
<1>4. PICK R : R = ToSet(snapshot) /\ snapshot \in Seq(R) /\ snapshot \in Snapshots
  BY <1>3, ServeResolutionAssumption
<1>5. matches \in Seq(R \cap S)
  BY <1>2, <1>4, SelectionIsOrdered
<1>6. PICK r : r = matches[1] /\ r \in R /\ r \in S
  <2>1. matches[1] \in R \cap S
    BY <1>5
  <2>2. QED
    BY <2>1
<1>7. r.machine \in Machines /\ r.connections \in Seq(Connections)
  BY <1>4, <1>6, ServeResolutionAssumption
<1>8. profile.machine # NoMachine => r.machine = profile.machine
  BY <1>1, <1>6 DEF Matches
<1>9. QED
  BY <1>6, <1>7, <1>8

LEMMA DiscoverStep ==
  ASSUME ServeInv, NEW p \in Resolvers, Discover(p)
  PROVE  ServeInv'
<1>1. TypesInv /\ StoreInv /\ ResolverOK(p) /\ pc[p] = "discovering"
  BY DEF ServeInv, Discover
<1>2. /\ profile' = profile /\ validated' = validated /\ UNCHANGED storeVars
      /\ validated \subseteq validated' /\ validated' \subseteq URIs
  BY <1>1 DEF Discover, TypesInv
<1>3. CASE DiscoveryFails(p)
  <2>1. PICK e \in {"discovery", "deadline"} \cup ({ctx[p]} \ {"live"}) : Return(p, e)
    BY <1>3 DEF DiscoveryFails
  <2>2. e \in Errors
    BY <1>1 DEF Errors, TypesInv
  <2>3. QED
    BY <1>1, <1>2, <2>1, <2>2, ReturnsBeforeSaving
<1>4. CASE DiscoverySucceeds(p)
  <2> DEFINE found(now) == MatchingServeResources(now)
             matches(now, before) == IF found(now) # <<>> THEN found(now) ELSE found(before)
  <2>1. PICK now \in Snapshots, before \in Snapshots \cup {<<>>} :
          IF Len(matches(now, before)) # 1
          THEN Return(p, "discovery")
          ELSE /\ todo' = [todo EXCEPT ![p] = OrderedConnections(matches(now, before)[1].connections)]
               /\ expected' = [expected EXCEPT ![p] = matches(now, before)[1].machine]
               /\ tried' = [tried EXCEPT ![p] = <<>>]
               /\ Goto(p, "advertised")
               /\ UNCHANGED <<ctx, chosen, err>>
    BY <1>4 DEF DiscoverySucceeds
  <2>2. CASE Len(matches(now, before)) # 1
    <3>1. Return(p, "discovery") /\ "discovery" \in Errors
      BY <2>1, <2>2 DEF Errors
    <3>2. QED
      BY <1>1, <1>2, <3>1, ReturnsBeforeSaving
  <2>3. CASE Len(matches(now, before)) = 1
    <3>1. PICK snapshot \in Snapshots \cup {<<>>} :
            matches(now, before) = MatchingServeResources(snapshot)
      OBVIOUS
    <3>2. PICK r : /\ r = matches(now, before)[1]
                   /\ r.machine \in Machines /\ r.connections \in Seq(Connections)
                   /\ profile.machine # NoMachine => r.machine = profile.machine
      <4> HIDE DEF matches
      <4>1. QED
        BY <2>3, <3>1, MatchesFacts
    <3>3. PICK l : l = OrderedConnections(r.connections) /\ l \in Seq(Connections)
      BY <3>2, OrderedTypes
    <3>4. /\ todo' = [todo EXCEPT ![p] = l] /\ expected' = [expected EXCEPT ![p] = r.machine]
          /\ tried' = [tried EXCEPT ![p] = <<>>] /\ pc' = [pc EXCEPT ![p] = "advertised"]
          /\ UNCHANGED <<ctx, chosen, err>>
      <4> HIDE DEF matches
      <4>1. QED
        BY <2>1, <2>3, <3>2, <3>3 DEF Goto
    <3>5. <<>> \in Seq(Connections)
      OBVIOUS
    <3>6. TypesInv'
      BY <1>1, <1>2, <3>2, <3>3, <3>4, <3>5 DEF TypesInv
    <3>7. /\ pc'[p] = "advertised" /\ expected'[p] = r.machine /\ tried'[p] = <<>>
          /\ chosen'[p] = NoConnection
      BY <1>1, <3>4 DEF TypesInv, ResolverOK
    <3>8. OnlyMoves(p)
      BY <1>1, <3>4 DEF TypesInv, OnlyMoves
    <3>9. \A q \in Resolvers : pc'[q] = "saving" <=> pc[q] = "saving"
      BY <1>1, <3>7, <3>8 DEF OnlyMoves
    <3>10. StoreInv'
      BY <1>1, <1>2, <3>9, StoreStays
    <3>11. ResolverOK(p)'
      BY <1>2, <3>2, <3>7 DEF ResolverOK
    <3>12. QED
      BY <1>2, <3>6, <3>8, <3>10, <3>11, OneMoves
  <2>4. QED
    BY <2>2, <2>3
<1>5. QED
  BY <1>3, <1>4 DEF Discover

LEMMA ProbeAdvertisedStep ==
  ASSUME ServeInv, NEW p \in Resolvers, ProbeAdvertised(p)
  PROVE  ServeInv'
<1>1. TypesInv /\ StoreInv /\ ResolverOK(p) /\ pc[p] = "advertised"
  BY DEF ServeInv, ProbeAdvertised
<1>2. PICK m : /\ Probe(p, m)
               /\ \/ ProbeFails(p, m) /\ UNCHANGED tried
                  \/ profile.machine # NoMachine /\ ProbeValidates(p, m)
                  \/ Return(p, "none") /\ UNCHANGED <<storeVars, profile>>
  BY DEF ProbeAdvertised
<1>3. /\ Tail(todo[p]) \in Seq(Connections) /\ validated \subseteq validated' /\ validated' \subseteq URIs
  BY <1>2, ProbeFacts
<1>4. CASE ProbeFails(p, m) /\ UNCHANGED tried
  <2>1. TypesInv'
    BY <1>1, <1>3, <1>4 DEF TypesInv, ProbeFails
  <2>2. /\ pc'[p] = "advertised" /\ tried'[p] = tried[p] /\ expected'[p] = expected[p]
        /\ chosen'[p] = chosen[p] /\ profile' = profile
    BY <1>1, <1>4 DEF ProbeFails
  <2>3. OnlyMoves(p)
    BY <1>1, <1>4 DEF TypesInv, ProbeFails, OnlyMoves
  <2>4. StoreInv'
    BY <1>1, <1>3, <1>4, StoreStays DEF ProbeFails
  <2>5. ResolverOK(p)'
    BY <1>1, <2>2 DEF ResolverOK
  <2>6. QED
    BY <1>3, <2>1, <2>2, <2>3, <2>4, <2>5, OneMoves
<1>5. CASE profile.machine # NoMachine /\ ProbeValidates(p, m)
  BY <1>1, <1>2, <1>5, ProbeValidatesStep
<1>6. CASE Return(p, "none") /\ UNCHANGED <<storeVars, profile>>
  <2>1. "none" \in Errors
    BY DEF Errors
  <2>2. QED
    BY <1>1, <1>3, <1>6, <2>1, ReturnsBeforeSaving
<1>7. QED
  BY <1>2, <1>4, <1>5, <1>6

LEMMA EarlyReturnStep ==
  ASSUME ServeInv, NEW p \in Resolvers, ConfigFails(p) \/ AdvertisedFailed(p)
  PROVE  ServeInv'
<1>1. PICK e \in Errors : Return(p, e) /\ pc[p] # "saving" /\ UNCHANGED <<storeVars, profile, validated>>
  BY DEF ConfigFails, AdvertisedFailed, Errors
<1>2. validated \subseteq validated' /\ validated' \subseteq URIs
  BY <1>1 DEF ServeInv, TypesInv
<1>3. QED
  BY <1>1, <1>2, ReturnsBeforeSaving

\* Under the mutex, what was read is still the file when it is replaced.
LEMMA PutLoadStep ==
  ASSUME ServeInv, NEW p \in Resolvers, pc[p] = "putting", PutLoad(p), Goto(p, "saving"),
         UNCHANGED <<profile, ctx, todo, expected, tried, chosen, err, validated>>
  PROVE  ServeInv'
<1>1. TypesInv /\ StoreInv /\ ResolverOK(p)
  BY DEF ServeInv
<1>2. TypesInv'
  BY <1>1 DEF TypesInv, Goto
<1>3. pc'[p] = "saving" /\ tried'[p] = tried[p] /\ chosen'[p] = chosen[p] /\ profile' = profile
  BY <1>1 DEF TypesInv, Goto
<1>4. OnlyMoves(p)
  BY <1>1 DEF TypesInv, Goto, OnlyMoves
<1>5. /\ file' = file /\ mutex = Nobody /\ mutex' = p /\ loaded' = [loaded EXCEPT ![p] = file]
      /\ DOMAIN loaded = Resolvers
  BY <1>1 DEF PutLoad, Free, StoreInv, Resolvers
<1>6. \A q \in Resolvers : pc[q] # "saving"
  BY <1>1, <1>5, ConnectionCacheAssumption DEF StoreInv, Resolvers
<1>7. \A q \in Resolvers : pc'[q] = "saving" <=> mutex' = q
  BY <1>3, <1>4, <1>5, <1>6 DEF OnlyMoves
<1>8. \A q \in Resolvers : mutex' = q => loaded'[q] = file'
  BY <1>5
<1>9. mutex' \in Users \cup {Nobody} /\ DOMAIN loaded' = Users
  BY <1>5 DEF Resolvers
<1>10. PICK w : w = Remembered(file) /\ w = Remembered(file') /\ \A i \in DOMAIN w : Endpoint(w[i]) \in validated
  BY <1>1, <1>5 DEF StoreInv
<1>11. FileOK(file')
  BY <1>1, <1>5 DEF StoreInv
<1>12. StoreInv'
  BY <1>7, <1>8, <1>9, <1>10, <1>11 DEF StoreInv, Endpoint, FileOK, Remembered
<1>13. ResolverOK(p)'
  BY <1>1, <1>3 DEF ResolverOK, Endpoint
<1>14. QED
  BY <1>2, <1>3, <1>4, <1>12, <1>13, OneMoves

LEMMA PutEndsStep ==
  ASSUME ServeInv, NEW p \in Resolvers, pc[p] = "saving", PutSave(p, chosen[p]) \/ PutFails(p),
         Return(p, "none"), UNCHANGED <<profile, validated>>
  PROVE  ServeInv'
<1>1. TypesInv /\ StoreInv /\ ResolverOK(p) /\ FileOK(file)
  BY DEF ServeInv, StoreInv
<1>2. TypesInv' /\ ResolverOK(p)' /\ OnlyMoves(p) /\ pc'[p] = "done"
  BY <1>1, Returns DEF TypesInv, Errors
<1>3. /\ mutex = p /\ loaded[p] = file /\ mutex' = Nobody /\ DOMAIN loaded' = Users
      /\ chosen[p] \in Connections /\ Endpoint(chosen[p]) \in validated
  BY <1>1 DEF StoreInv, ResolverOK, PutSave, PutFails
<1>4. \A q \in Resolvers : pc'[q] # "saving" /\ mutex' # q
  <2>1. \A q \in Resolvers : q # p => pc[q] # "saving"
    BY <1>1, <1>3 DEF StoreInv
  <2>2. QED
    BY <1>2, <1>3, <2>1, ConnectionCacheAssumption DEF OnlyMoves, Resolvers
<1>5. PICK w : w = Remembered(file) /\ \A i \in DOMAIN w : Endpoint(w[i]) \in validated
  BY <1>1 DEF StoreInv
<1>6. PICK g, v : /\ g = file' /\ v = Remembered(g) /\ FileOK(g)
                  /\ \A i \in DOMAIN v : v[i] = chosen[p] \/ \E j \in DOMAIN w : v[i] = w[j]
  <2>1. CASE PutSave(p, chosen[p])
    <3>1. PICK c \in Connections : c = chosen[p] /\ file' = AfterPut(file, c)
      BY <1>3, <2>1 DEF PutSave
    <3>2. PICK g : g = AfterPut(file, c)
      OBVIOUS
    <3>3. /\ FileOK(g)
          /\ \A i \in DOMAIN Remembered(g) :
               Remembered(g)[i] = c \/ \E j \in DOMAIN w : Remembered(g)[i] = w[j]
      BY <1>1, <1>5, <3>2, PutRemembers
    <3>4. QED
      BY <3>1, <3>2, <3>3
  <2>2. CASE PutFails(p)
    BY <1>1, <1>5, <2>2 DEF PutFails
  <2>3. QED
    BY <2>1, <2>2
<1>7. \A i \in DOMAIN v : Endpoint(v[i]) \in validated
  BY <1>3, <1>5, <1>6
<1>8. StoreInv'
  <2>1. validated' = validated /\ profile' = profile
    OBVIOUS
  <2>2. QED
    BY <1>3, <1>4, <1>6, <1>7, <2>1 DEF StoreInv, Endpoint, FileOK, Remembered
<1>9. validated \subseteq validated' /\ profile' = profile
  OBVIOUS
<1>10. QED
  BY <1>2, <1>8, <1>9, OneMoves

LEMMA EnvironmentStep ==
  ASSUME ServeInv, NEW p \in Resolvers, ContextEnds(p) \/ Again(p)
  PROVE  ServeInv'
<1>1. TypesInv /\ StoreInv /\ ResolverOK(p)
  BY DEF ServeInv
<1>2. TypesInv'
  BY <1>1 DEF TypesInv, ContextEnds, Again, Goto, Errors
<1>3. /\ UNCHANGED storeVars /\ profile' = profile /\ validated' = validated
      /\ todo' = todo /\ expected' = expected /\ tried' = tried /\ chosen' = chosen
      /\ pc' = pc \/ (pc[p] = "done" /\ pc' = [pc EXCEPT ![p] = "idle"])
  BY DEF ContextEnds, Again, Goto
<1>4. OnlyMoves(p)
  BY <1>1, <1>3 DEF OnlyMoves, TypesInv
<1>5. pc'[p] = pc[p] \/ (pc[p] = "done" /\ pc'[p] = "idle")
  BY <1>1, <1>3 DEF TypesInv
<1>6. \A q \in Resolvers : pc'[q] = "saving" <=> pc[q] = "saving"
  BY <1>4, <1>5 DEF OnlyMoves
<1>7. StoreInv'
  BY <1>1, <1>3, <1>6, StoreStays
<1>8. ResolverOK(p)'
  BY <1>1, <1>3, <1>5 DEF ResolverOK, Endpoint
<1>9. QED
  BY <1>2, <1>3, <1>4, <1>7, <1>8, OneMoves

LEMMA CrashStep ==
  ASSUME ServeInv, Crash
  PROVE  ServeInv'
<1>1. TypesInv /\ StoreInv
  BY DEF ServeInv
<1>2. <<>> \in Seq(Connections)
  OBVIOUS
<1>3. TypesInv'
  BY <1>1, <1>2 DEF TypesInv, Crash, Errors
<1>4. /\ file' = file /\ mutex' = Nobody /\ DOMAIN loaded' = Users /\ validated' = validated
      /\ pc' = [p \in Resolvers |-> "idle"]
  BY DEF Crash, StoreCrash
<1>5. \A q \in Resolvers : pc'[q] # "saving" /\ mutex' # q
  BY <1>4, ConnectionCacheAssumption DEF Resolvers
<1>6. PICK w : w = Remembered(file) /\ w = Remembered(file') /\ \A i \in DOMAIN w : Endpoint(w[i]) \in validated
  BY <1>1, <1>4 DEF StoreInv
<1>7. FileOK(file')
  BY <1>1, <1>4 DEF StoreInv
<1>8. StoreInv'
  BY <1>4, <1>5, <1>6, <1>7 DEF StoreInv, Endpoint, FileOK, Remembered
<1>9. ASSUME NEW p \in Resolvers PROVE ResolverOK(p)'
  BY DEF Crash, ResolverOK
<1>10. QED
  BY <1>3, <1>8, <1>9 DEF ServeInv

LEMMA ServeStep ==
  ServeInv /\ [Next]_vars => ServeInv'
<1> SUFFICES ASSUME ServeInv, [Next]_vars PROVE ServeInv'
  OBVIOUS
<1>1. CASE UNCHANGED vars
  <2>1. PICK w : w = Remembered(file) /\ w = Remembered(file')
    BY <1>1 DEF vars, storeVars
  <2>2. StoreInv'
    BY <1>1, StoreStays DEF vars, resolverVars, ServeInv
  <2>3. TypesInv'
    BY <1>1 DEF vars, resolverVars, ServeInv, TypesInv
  <2>4. ASSUME NEW q \in Resolvers PROVE ResolverOK(q)'
    BY <1>1, OthersStay DEF vars, resolverVars, ServeInv
  <2>5. QED
    BY <2>2, <2>3, <2>4 DEF ServeInv
<1>2. ASSUME NEW p \in Resolvers, Resolve(p) PROVE ServeInv'
  <2>1. CASE ConfigFails(p) \/ AdvertisedFailed(p)
    BY <2>1, EarlyReturnStep
  <2>2. CASE ReadCandidates(p)
    BY <2>2, ReadCandidatesStep
  <2>3. CASE SkipCandidates(p)
    BY <2>3, SkipCandidatesStep
  <2>4. CASE ProbeCandidate(p)
    BY <2>4, ProbeCandidateStep
  <2>5. CASE CandidatesFailed(p)
    BY <2>5, CandidatesFailedStep
  <2>6. CASE Discover(p)
    BY <2>6, DiscoverStep
  <2>7. CASE ProbeAdvertised(p)
    BY <2>7, ProbeAdvertisedStep
  <2>8. CASE Remember(p)
    BY <2>8, PutLoadStep, PutEndsStep DEF Remember
  <2>9. QED
    BY <1>2, <2>1, <2>2, <2>3, <2>4, <2>5, <2>6, <2>7, <2>8 DEF Resolve
<1>3. ASSUME NEW p \in Resolvers, ContextEnds(p) \/ Again(p) PROVE ServeInv'
  BY <1>3, EnvironmentStep
<1>4. CASE Crash
  BY <1>4, CrashStep
<1>5. QED
  BY <1>1, <1>2, <1>3, <1>4 DEF Next

LEMMA ServeInvariant ==
  Spec => []ServeInv
BY ServeInit, ServeStep, PTL DEF Spec

(***************************************************************************)
(* The properties.                                                         *)
(***************************************************************************)

\* Type correctness: in particular the history never grows over its limit,
\* whatever is put, and only endpoints of advertised connections are used.
THEOREM ServeTypes ==
  Spec => []ServeTypeOK
<1>1. ServeInv => ServeTypeOK
  <2> SUFFICES ASSUME ServeInv PROVE ServeTypeOK
    OBVIOUS
  <2>1. \A i \in DOMAIN file.history : file.history[i] \in Connections
    BY DEF ServeInv, StoreInv, FileOK
  <2>2. StoreTypeOK
    BY <2>1 DEF ServeInv, StoreInv, FileOK, StoreTypeOK
  <2>3. QED
    BY <2>2 DEF ServeInv, TypesInv, ServeTypeOK
<1>2. QED
  BY <1>1, ServeInvariant, PTL

\* Before discovery a resolver probes at most MaxServeCandidates connections,
\* no URI twice, however the durable cache is filled.
THEOREM ProbesBounded ==
  Spec => []ProbesAreBounded
<1>1. ASSUME ServeInv, NEW p \in Resolvers
      PROVE  /\ Len(tried[p]) + (IF pc[p] = "cached" THEN Len(todo[p]) ELSE 0) <= MaxServeCandidates
             /\ \A i, j \in DOMAIN tried[p] : i # j => tried[p][i].uri # tried[p][j].uri
  <2>1. PICK t, d : t = tried[p] /\ d = todo[p] /\ t \in Seq(Connections) /\ d \in Seq(Connections)
    BY <1>1 DEF ServeInv, TypesInv
  <2>2. ResolverOK(p) /\ MaxServeCandidates \in Nat \ {0}
    BY <1>1, ServeResolutionAssumption DEF ServeInv
  <2>3. CASE pc[p] = "cached"
    <3>1. Fine(t \o d, profile)
      BY <2>1, <2>2, <2>3 DEF ResolverOK
    <3>2. PICK a : /\ a = t \o d /\ Len(a) = Len(t) + Len(d) /\ Len(t) \in Nat /\ Len(d) \in Nat
                   /\ \A i \in 1 .. Len(t) : a[i] = t[i]
      <4>1. PICK a : a = t \o d
        OBVIOUS
      <4>2. Len(a) = Len(t) + Len(d) /\ Len(t) \in Nat /\ Len(d) \in Nat
        BY <2>1, <4>1
      <4>3. \A i \in 1 .. Len(t) : a[i] = t[i]
        <5>1. SUFFICES ASSUME NEW i \in 1 .. Len(t) PROVE (t \o d)[i] = t[i]
          BY <4>1
        <5>2. i \in 1 .. Len(t) + Len(d) /\ i <= Len(t)
          BY <4>2
        <5>3. (t \o d)[i] = IF i <= Len(t) THEN t[i] ELSE d[i - Len(t)]
          BY <2>1, <5>2, ConcatProperties
        <5>4. QED
          BY <5>2, <5>3
      <4>4. QED
        BY <4>1, <4>2, <4>3
    <3>3. Len(a) <= MaxServeCandidates /\ OtherURIs(a)
      BY <3>1, <3>2 DEF Fine
    <3>4. ASSUME NEW i \in DOMAIN t, NEW j \in DOMAIN t, i # j PROVE t[i].uri # t[j].uri
      <4>1. i \in 1 .. Len(t) /\ j \in 1 .. Len(t) /\ i \in 1 .. Len(a) /\ j \in 1 .. Len(a)
        <5>1. DOMAIN t = 1 .. Len(t)
          BY <2>1
        <5>2. QED
          BY <3>2, <3>4, <5>1
      <4>2. a[i].uri # a[j].uri
        BY <3>3, <3>4, <4>1 DEF OtherURIs
      <4>3. QED
        BY <3>2, <4>1, <4>2
    <3>5. QED
      BY <2>1, <2>3, <3>2, <3>3, <3>4
  <2>4. CASE pc[p] = "discovering" /\ profile.machine # NoMachine
    <3>1. Len(t) <= MaxServeCandidates /\ OtherURIs(t) /\ Len(t) \in Nat
      BY <2>1, <2>2, <2>4 DEF ResolverOK, Fine
    <3>2. QED
      BY <2>1, <2>4, <3>1 DEF OtherURIs
  <2>5. CASE pc[p] # "cached" /\ ~(pc[p] = "discovering" /\ profile.machine # NoMachine)
    <3>1. t = <<>>
      BY <2>1, <2>2, <2>5 DEF ResolverOK
    <3>2. Len(t) = 0 /\ DOMAIN t = {}
      BY <3>1
    <3>3. QED
      BY <2>1, <2>2, <2>5, <3>2
  <2>6. QED
    BY <2>3, <2>4, <2>5
<1>2. ServeInv => ProbesAreBounded
  BY <1>1 DEF ProbesAreBounded
<1>3. QED
  BY <1>2, ServeInvariant, PTL

\* A resolver that asks Plex.tv has tried the profile's own endpoint.
THEOREM ProfileAlwaysTried ==
  Spec => []ProfileIsTried
<1>1. ServeInv => ProfileIsTried
  BY DEF ServeInv, ResolverOK, Fine, ProfileIsTried
<1>2. QED
  BY <1>1, ServeInvariant, PTL

\* What serve uses, and every connection that its cache still holds, is at an
\* endpoint where the profile's machine has answered.
THEOREM UsesOnlyValidated ==
  Spec => []OnlyValidatedIsUsed
<1>1. ASSUME ServeInv PROVE OnlyValidatedIsUsed
  <2>1. PICK w : w = Remembered(file) /\ w = WithCurrent(file) /\ \A i \in DOMAIN w : Endpoint(w[i]) \in validated
    BY <1>1, FileIsWhatIsRemembered DEF ServeInv, StoreInv
  <2>2. \A c \in ToSet(w) : Endpoint(c) \in validated
    BY <2>1 DEF ToSet
  <2>3. \A p \in Resolvers : chosen[p] # NoConnection => Endpoint(chosen[p]) \in validated
    BY <1>1 DEF ServeInv, ResolverOK
  <2>4. QED
    BY <2>1, <2>2, <2>3 DEF OnlyValidatedIsUsed
<1>2. QED
  BY <1>1, ServeInvariant, PTL

\* A resolver has a connection from the probe that validates it until it returns
\* without error, whatever becomes of its context and of the durable cache, and
\* it returns without error only then.
THEOREM ValidatedReturns ==
  Spec => ValidationSettles
<1> DEFINE Settles(p) ==
             /\ (chosen[p] # NoConnection) =>
                  \/ chosen'[p] = chosen[p]
                  \/ pc'[p] = "done" /\ err'[p] = "none"
                  \/ pc'[p] = "idle"
             /\ (pc[p] # "done" /\ pc'[p] = "done" /\ err'[p] = "none") =>
                  (chosen[p] # NoConnection \/ profile.machine = NoMachine)
<1>1. ASSUME ServeInv, NEW p \in Resolvers, NEW q \in Resolvers, Resolve(q) \/ ContextEnds(q) \/ Again(q)
      PROVE  Settles(p)
  <2>1. TypesInv /\ ResolverOK(p) /\ ResolverOK(q)
    BY <1>1 DEF ServeInv
  <2>2. chosen[q] # NoConnection <=> pc[q] \in {"putting", "saving"}
    BY <2>1, ConnectionCacheAssumption DEF ResolverOK
  <2>3. ASSUME NEW e, Return(q, e)
        PROVE  /\ p # q => pc'[p] = pc[p] /\ chosen'[p] = chosen[p]
               /\ p = q => pc'[p] = "done" /\ err'[p] = e
    BY <2>1, <2>3 DEF TypesInv, Return, Goto
  <2>4. ASSUME NEW l, Goto(q, l) PROVE (p # q => pc'[p] = pc[p]) /\ (p = q => pc'[p] = l)
    BY <2>1, <2>4 DEF TypesInv, Goto
  <2>5. CASE ConfigFails(q) \/ AdvertisedFailed(q)
    BY <2>2, <2>3, <2>5 DEF ConfigFails, AdvertisedFailed
  <2>6. CASE ReadCandidates(q) \/ SkipCandidates(q) \/ CandidatesFailed(q)
    <3>1. chosen' = chosen /\ (pc'[p] = pc[p] \/ pc'[p] \in {"cached", "discovering"})
      BY <2>4, <2>6 DEF ReadCandidates, SkipCandidates, CandidatesFailed
    <3>2. QED
      BY <3>1
  <2>7. CASE ProbeCandidate(q)
    <3>1. pc[q] = "cached" /\ \E m : ProbeValidates(q, m) \/ ProbeFails(q, m)
      BY <2>7 DEF ProbeCandidate
    <3>2. (p # q => chosen'[p] = chosen[p]) /\ (pc'[p] = pc[p] \/ pc'[p] = "putting")
      BY <2>1, <2>4, <3>1 DEF ProbeValidates, ProbeFails, TypesInv
    <3>3. QED
      BY <2>2, <3>1, <3>2
  <2>8. CASE Discover(q)
    <3>1. CASE \E e \in {"discovery", "deadline"} \cup ({ctx[q]} \ {"live"}) : Return(q, e)
      <4>1. PICK e \in {"discovery", "deadline"} \cup ({ctx[q]} \ {"live"}) : Return(q, e)
        BY <3>1
      <4>2. e # "none"
        BY <2>1, <4>1 DEF TypesInv
      <4>3. QED
        BY <2>2, <2>3, <2>8, <4>1, <4>2 DEF Discover
    <3>2. CASE DiscoverySucceeds(q)
      <4>1. Return(q, "discovery") \/ (Goto(q, "advertised") /\ chosen' = chosen)
        BY <3>2 DEF DiscoverySucceeds
      <4>2. QED
        BY <2>2, <2>3, <2>4, <2>8, <4>1 DEF Discover
    <3>3. QED
      BY <2>8, <3>1, <3>2 DEF Discover, DiscoveryFails
  <2>9. CASE ProbeAdvertised(q)
    <3>1. pc[q] = "advertised" /\ \/ \E m : ProbeValidates(q, m) \/ ProbeFails(q, m)
                                  \/ profile.machine = NoMachine /\ Return(q, "none")
      BY <2>9 DEF ProbeAdvertised
    <3>2. CASE \E m : ProbeValidates(q, m) \/ ProbeFails(q, m)
      <4>1. (p # q => chosen'[p] = chosen[p]) /\ (pc'[p] = pc[p] \/ pc'[p] = "putting")
        BY <2>1, <2>4, <3>2 DEF ProbeValidates, ProbeFails, TypesInv
      <4>2. QED
        BY <2>2, <3>1, <4>1
    <3>3. CASE profile.machine = NoMachine /\ Return(q, "none")
      BY <2>2, <2>3, <3>1, <3>3
    <3>4. QED
      BY <3>1, <3>2, <3>3
  <2>10. CASE Remember(q)
    <3>1. CASE Goto(q, "saving") /\ chosen' = chosen
      BY <2>4, <3>1
    <3>2. CASE pc[q] = "saving" /\ Return(q, "none")
      BY <2>2, <2>3, <3>2
    <3>3. QED
      BY <2>10, <3>1, <3>2 DEF Remember
  <2>11. CASE ContextEnds(q)
    BY <2>11 DEF ContextEnds
  <2>12. CASE Again(q)
    <3>1. chosen' = chosen /\ (pc'[p] = pc[p] \/ pc'[p] = "idle")
      BY <2>4, <2>12 DEF Again
    <3>2. QED
      BY <3>1
  <2>13. QED
    BY <1>1, <2>5, <2>6, <2>7, <2>8, <2>9, <2>10, <2>11, <2>12 DEF Resolve
<1>2. ASSUME NEW p \in Resolvers, Crash PROVE Settles(p)
  BY <1>2 DEF Crash
<1>3. ServeInv /\ [Next]_vars => [\A p \in Resolvers : Settles(p)]_vars
  BY <1>1, <1>2 DEF Next
<1>4. QED
  BY <1>3, ServeInvariant, PTL DEF Spec, ValidationSettles

(***************************************************************************)
(* The durable cache implements the list of recent connections.            *)
(***************************************************************************)
LEMMA OnlyPutsChangeTheFile ==
  ASSUME ServeInv, [Next]_vars
  PROVE  file' = file \/ \E c \in Connections : file' = AfterPut(file, c)
<1>1. CASE UNCHANGED vars
  BY <1>1 DEF vars, storeVars
<1>2. ASSUME NEW p \in Resolvers, pc[p] = "saving", PutSave(p, chosen[p])
      PROVE  \E c \in Connections : file' = AfterPut(file, c)
  <2>1. loaded[p] = file /\ chosen[p] \in Connections
    BY <1>2 DEF ServeInv, StoreInv, ResolverOK
  <2>2. QED
    BY <1>2, <2>1 DEF PutSave
<1>3. ASSUME NEW p \in Resolvers, Resolve(p) \/ ContextEnds(p) \/ Again(p)
      PROVE  file' = file \/ (pc[p] = "saving" /\ PutSave(p, chosen[p]))
  <2>1. CASE ConfigFails(p) \/ ReadCandidates(p) \/ SkipCandidates(p) \/ CandidatesFailed(p)
    BY <2>1 DEF ConfigFails, ReadCandidates, Candidates, SkipCandidates, CandidatesFailed, storeVars
  <2>2. CASE ProbeCandidate(p) \/ ProbeAdvertised(p)
    BY <2>2 DEF ProbeCandidate, ProbeAdvertised, ProbeValidates, ProbeFails, storeVars
  <2>3. CASE Discover(p) \/ AdvertisedFailed(p)
    BY <2>3 DEF Discover, AdvertisedFailed, storeVars
  <2>4. CASE Remember(p)
    BY <2>4 DEF Remember, PutLoad, PutFails
  <2>5. CASE ContextEnds(p) \/ Again(p)
    BY <2>5 DEF ContextEnds, Again, storeVars
  <2>6. QED
    BY <1>3, <2>1, <2>2, <2>3, <2>4, <2>5 DEF Resolve
<1>4. CASE Crash
  BY <1>4 DEF Crash, StoreCrash
<1>5. QED
  BY <1>1, <1>2, <1>3, <1>4 DEF Next

LEMMA SameSelection ==
  ASSUME NEW s, NEW S
  PROVE  Recent!Among(s, S) = Among(s, S)
BY DEF Recent!Among, Recent!SelectedSoFar, Among, SelectedSoFar

\* With any number of resolvers, failing writes and crashes between the read
\* and the rename, what Candidates returns is the list of the connections put
\* last.
THEOREM CacheImplementsRecent ==
  Spec => CacheIsRecent
<1>1. ASSUME Init PROVE Recent!RecentInit
  <2>1. PICK w : /\ w = Remembered(file) /\ w = CandidatesOf(file) /\ w \in Seq(Connections)
                 /\ Len(w) <= MaxCandidates /\ OtherURIs(w)
    BY <1>1, ServeInit, FileIsWhatIsRemembered DEF ServeInv, StoreInv
  <2>2. Len(w) \in 0 .. MaxCandidates /\ DOMAIN w = 1 .. Len(w)
    <3>1. Len(w) \in Nat /\ MaxCandidates \in Nat
      BY <2>1, ConnectionCacheAssumption
    <3>2. QED
      BY <2>1, <3>1
  <2>3. w \in [1 .. Len(w) -> Connections]
    BY <2>1
  <2>4. Recent!HaveOtherURIs(w)
    BY <2>1, <2>2 DEF OtherURIs, Recent!HaveOtherURIs
  <2>5. QED
    BY <2>1, <2>2, <2>3, <2>4 DEF Recent!RecentInit
<1>2. ASSUME ServeInv, [Next]_vars PROVE [\E c \in Connections : Recent!Learn(c)]_(CandidatesOf(file))
  <2>1. CASE file' = file
    <3>1. CandidatesOf(file)' = CandidatesOf(file)
      BY <2>1 DEF CandidatesOf, WithCurrent, PrependUnique, Newest, AtOtherURIs
    <3>2. QED
      BY <3>1
  <2>2. CASE \E c \in Connections : file' = AfterPut(file, c)
    <3>1. PICK c \in Connections : file' = AfterPut(file, c)
      BY <2>2
    <3>2. PICK g, w, S : g = AfterPut(file, c) /\ w = CandidatesOf(file) /\ S = AtOtherURIs[c]
      OBVIOUS
    <3>3. FileOK(file) /\ w = Remembered(file)
      BY <1>2, <3>2, FileIsWhatIsRemembered DEF ServeInv, StoreInv
    <3>4. PICK others : others = Among(w, S)
      OBVIOUS
    <3>5. /\ FileOK(g)
          /\ Remembered(g) = <<c>> \o SubSeq(others, 1, IF Len(others) < MaxCandidates - 1 THEN Len(others)
                                                         ELSE MaxCandidates - 1)
      BY <3>2, <3>3, <3>4, PutRemembers
    <3>6. CandidatesOf(g) = Remembered(g)
      BY <3>5, FileIsWhatIsRemembered
    <3>7. CandidatesOf(file)' = CandidatesOf(g)
      BY <3>1, <3>2 DEF CandidatesOf, WithCurrent, PrependUnique, Newest, AtOtherURIs
    <3>8. Recent!Among(w, Recent!AtOtherURIs[c]) = others
      BY <3>2, <3>4, SameSelection DEF Recent!AtOtherURIs, AtOtherURIs
    <3>9. Recent!Learn(c)
      BY <3>2, <3>5, <3>6, <3>7, <3>8 DEF Recent!Learn
    <3>10. QED
      BY <3>9
  <2>3. QED
    BY <1>2, <2>1, <2>2, OnlyPutsChangeTheFile
<1>3. QED
  BY <1>1, <1>2, ServeInvariant, PTL DEF Spec, CacheIsRecent, Recent!RecentSpec
=============================================================================
