---------------------------- MODULE ReportsProofs ----------------------------
(***************************************************************************)
(* A listing that completes is exact, and the rows of the reports are of   *)
(* what was there, for any server, page size and order of the history,     *)
(* however the data change between two pages.                              *)
(***************************************************************************)
EXTENDS Reports, SelectionsProofs, SequenceTheorems, TLAPS

(***************************************************************************)
(* Sequences.                                                              *)
(***************************************************************************)
LEMMA Joined ==
  ASSUME NEW R, NEW s \in Seq(R), NEW d \in Seq(R)
  PROVE  /\ s \o d \in Seq(R) /\ Len(s \o d) = Len(s) + Len(d)
         /\ \A j \in 1 .. Len(s) : (s \o d)[j] = s[j]
         /\ \A j \in 1 .. Len(d) : (s \o d)[Len(s) + j] = d[j]
BY ConcatProperties

\* An insertion moves what follows it by one.
LEMMA InsertAtProperties ==
  ASSUME NEW R, NEW s \in Seq(R), NEW i \in 1 .. Len(s) + 1, NEW x \in R
  PROVE  /\ InsertAt(s, i, x) \in Seq(R) /\ Len(InsertAt(s, i, x)) = Len(s) + 1
         /\ \A j \in 1 .. Len(s) : InsertAt(s, i, x)[IF j < i THEN j ELSE j + 1] = s[j]
<1> DEFINE before == SubSeq(s, 1, i - 1)
           after == SubSeq(s, i, Len(s))
<1>1. Len(s) \in Nat
  OBVIOUS
<1>2. before \in Seq(R) /\ Len(before) = i - 1 /\ \A j \in 1 .. i - 1 : before[j] = s[j]
  BY <1>1, SubSeqProperties
<1>3. after \in Seq(R) /\ Len(after) = Len(s) + 1 - i /\ \A j \in 1 .. Len(after) : after[j] = s[i + j - 1]
  BY <1>1
<1>4. <<x>> \in Seq(R) /\ Len(<<x>>) = 1
  OBVIOUS
<1>5. InsertAt(s, i, x) = (before \o <<x>>) \o after
  BY DEF InsertAt
<1> HIDE DEF before, after
<1>6. PICK new \in Seq(R) : new = <<x>>
  BY <1>4
<1>7. PICK head \in Seq(R) : /\ head = before \o new /\ Len(head) = Len(before) + Len(new)
                             /\ \A j \in 1 .. Len(before) : head[j] = before[j]
  <2>1. before \in Seq(R) /\ new \in Seq(R)
    BY <1>2
  <2>2. before \o new \in Seq(R)
    BY <2>1
  <2>3. /\ Len(before \o new) = Len(before) + Len(new)
        /\ \A j \in 1 .. Len(before) : (before \o new)[j] = before[j]
    BY <2>1
  <2>4. QED
    BY <2>2, <2>3
<1>8. Len(head) = i /\ \A j \in 1 .. i - 1 : head[j] = s[j]
  BY <1>2, <1>4, <1>6, <1>7
<1>9. /\ head \o after \in Seq(R) /\ Len(head \o after) = Len(head) + Len(after)
      /\ \A j \in 1 .. Len(head) : (head \o after)[j] = head[j]
      /\ \A j \in 1 .. Len(after) : (head \o after)[Len(head) + j] = after[j]
  <2>1. head \in Seq(R) /\ after \in Seq(R)
    BY <1>3
  <2>2. QED
    BY <2>1
<1>10. ASSUME NEW j \in 1 .. Len(s) PROVE (head \o after)[IF j < i THEN j ELSE j + 1] = s[j]
  <2>1. CASE j < i
    BY <1>1, <1>8, <1>9, <2>1
  <2>2. CASE ~(j < i)
    <3>1. j + 1 - i \in 1 .. Len(after) /\ Len(head) + (j + 1 - i) = j + 1 /\ i + (j + 1 - i) - 1 = j
      BY <1>1, <1>3, <1>8, <2>2
    <3>2. (head \o after)[j + 1] = after[j + 1 - i] /\ after[j + 1 - i] = s[j]
      BY <1>3, <1>9, <3>1
    <3>3. QED
      BY <2>2, <3>2
  <2>3. QED
    BY <2>1, <2>2
<1>11. InsertAt(s, i, x) = head \o after
  BY <1>5, <1>6, <1>7
<1>12. Len(head \o after) = Len(s) + 1
  BY <1>1, <1>3, <1>8, <1>9
<1>13. QED
  BY <1>9, <1>10, <1>11, <1>12

LEMMA RemoveAtProperties ==
  ASSUME NEW R, NEW s \in Seq(R), NEW i \in 1 .. Len(s)
  PROVE  RemoveAt(s, i) \in Seq(R) /\ Len(RemoveAt(s, i)) = Len(s) - 1
<1> DEFINE before == SubSeq(s, 1, i - 1)
           after == SubSeq(s, i + 1, Len(s))
<1>1. before \in Seq(R) /\ Len(before) = i - 1
  OBVIOUS
<1>2. after \in Seq(R) /\ Len(after) = Len(s) - i
  OBVIOUS
<1> HIDE DEF before, after
<1>3. before \o after \in Seq(R) /\ Len(before \o after) = Len(s) - 1
  BY <1>1, <1>2
<1>4. QED
  BY <1>3 DEF before, after, RemoveAt

LEMMA ReverseIsASequence ==
  ASSUME NEW R, NEW s \in Seq(R)
  PROVE  Reverse(s) \in Seq(R)
BY DEF Reverse

\* The elements of s at the positions I are elements of t, each at a position of its own.
Embeds(I, s, t) ==
  \E at \in [I -> 1 .. Len(t)] : /\ \A i \in I : t[at[i]] = s[i]
                                 /\ \A i, j \in I : at[i] = at[j] => i = j

LEMMA EmbedsInItself ==
  ASSUME NEW s, NEW t, NEW I, \A i \in I : i \in 1 .. Len(t) /\ t[i] = s[i]
  PROVE  Embeds(I, s, t)
<1>1. PICK at : at = [i \in I |-> i]
  OBVIOUS
<1>2. at \in [I -> 1 .. Len(t)] /\ \A i \in I : at[i] = i
  BY <1>1
<1>3. QED
  BY <1>2 DEF Embeds

LEMMA EmbedsLess ==
  ASSUME NEW s, NEW t, NEW I, NEW J, Embeds(I, s, t), J \subseteq I
  PROVE  Embeds(J, s, t)
<1>1. PICK at \in [I -> 1 .. Len(t)] : /\ \A i \in I : t[at[i]] = s[i]
                                       /\ \A i, j \in I : at[i] = at[j] => i = j
  BY DEF Embeds
<1>2. PICK less : less = [i \in J |-> at[i]]
  OBVIOUS
<1>3. less \in [J -> 1 .. Len(t)] /\ \A i \in J : i \in I /\ less[i] = at[i]
  BY <1>1, <1>2
<1>4. QED
  BY <1>1, <1>3 DEF Embeds

\* The positions that are at most n once they have moved by d.
Reached(b, d, n) == {i \in 1 .. b : i + d <= n}

\* What a page adds is at positions of its own.
LEMMA EmbedsMore ==
  ASSUME NEW s, NEW t, NEW more, NEW b \in Nat, NEW d \in Nat, NEW n \in Nat, NEW m \in Nat,
         Len(t) = n, Len(more) = n + m,
         \A j \in 1 .. n : more[j] = t[j],
         Embeds(Reached(b, d, n), s, t),
         \A i \in 1 .. b : i + d > n /\ i + d <= n + m => more[i + d] = s[i]
  PROVE  Embeds(Reached(b, d, n + m), s, more)
<1>1. PICK I, J : I = {i \in 1 .. b : i + d <= n} /\ J = {i \in 1 .. b : i + d <= n + m}
                   /\ I = Reached(b, d, n) /\ J = Reached(b, d, n + m)
  BY DEF Reached
<1>2. PICK at \in [I -> 1 .. n] : /\ \A i \in I : t[at[i]] = s[i]
                                  /\ \A i, j \in I : at[i] = at[j] => i = j
  BY <1>1 DEF Embeds
<1>3. PICK new : new = [i \in J |-> IF i + d <= n THEN at[i] ELSE i + d]
  OBVIOUS
<1>4. ASSUME NEW i \in J
      PROVE  /\ i + d <= n => i \in I /\ new[i] = at[i] /\ at[i] \in 1 .. n
             /\ ~(i + d <= n) => i \in 1 .. b /\ new[i] = i + d /\ i + d \in n + 1 .. n + m
  <2>1. i \in 1 .. b /\ i + d <= n + m
    BY <1>1
  <2>2. CASE i + d <= n
    BY <1>1, <1>2, <1>3, <2>1, <2>2
  <2>3. CASE ~(i + d <= n)
    BY <1>3, <2>1, <2>3
  <2>4. QED
    BY <2>2, <2>3
<1>5. ASSUME NEW i \in J
      PROVE  new[i] \in 1 .. n + m /\ more[new[i]] = s[i]
  <2>1. CASE i + d <= n
    <3>1. at[i] \in 1 .. n /\ new[i] = at[i] /\ t[at[i]] = s[i]
      BY <1>2, <1>4, <2>1
    <3>2. at[i] \in 1 .. n + m
      BY <3>1
    <3>3. QED
      BY <3>1, <3>2
  <2>2. CASE ~(i + d <= n)
    BY <1>4, <2>2
  <2>3. QED
    BY <2>1, <2>2
<1>6. ASSUME NEW i \in J, NEW j \in J, new[i] = new[j]
      PROVE  i = j
  <2>1. i \in 1 .. b /\ j \in 1 .. b
    BY <1>1
  <2>2. CASE i + d <= n /\ j + d <= n
    BY <1>2, <1>4, <1>6, <2>2
  <2>3. CASE ~(i + d <= n) /\ ~(j + d <= n)
    <3>1. i + d = j + d
      BY <1>4, <1>6, <2>3
    <3>2. QED
      BY <2>1, <3>1
  <2>4. CASE i + d <= n /\ ~(j + d <= n)
    <3>1. new[i] \in 1 .. n /\ new[j] \in n + 1 .. n + m
      BY <1>4, <2>4
    <3>2. QED
      BY <1>6, <3>1
  <2>5. CASE ~(i + d <= n) /\ j + d <= n
    <3>1. new[j] \in 1 .. n /\ new[i] \in n + 1 .. n + m
      BY <1>4, <2>5
    <3>2. QED
      BY <1>6, <3>1
  <2>6. QED
    BY <2>2, <2>3, <2>4, <2>5
<1>7. new \in [J -> 1 .. Len(more)]
  BY <1>3, <1>5
<1>8. Embeds(J, s, more)
  BY <1>5, <1>6, <1>7 DEF Embeds
<1>9. QED
  BY <1>1, <1>8

(***************************************************************************)
(* The invariant of a listing.                                             *)
(***************************************************************************)
Records ==
  (UNION {UNION {ToSet(s[key]) : key \in DOMAIN s} : s \in InitialStores})
    \cup (UNION {MayArrive[key] : key \in DOMAIN MayArrive})

Seens == [began : Seq(Records), added : BOOLEAN, removed : BOOLEAN]

ServerOK ==
  /\ store \in [DOMAIN MayArrive -> Seq(Records)]
  /\ newestFirst \in BOOLEAN
  /\ seen \in Seens
  /\ listing = [key |-> listing.key, total |-> listing.total, got |-> listing.got]
  /\ FirstPage => listing.got = <<>>

\* How far the views that were there first have moved.
Shift(k, began) == IF newestFirst THEN Len(store[k]) - Len(began) ELSE 0

\* While nothing comes or goes the listing is a prefix of what was there.  If
\* records only went, or only came to anything but the history, the server's
\* count differs from the listing's for good.  The history only drifts: what
\* was at a position the listing has passed is in the listing, as often as it
\* was in the history.
Passed(k, rows, began) == Reached(Len(began), Shift(k, began), Len(rows))

Follows(k, total, rows, s) ==
  /\ k \in DOMAIN store /\ total \in Nat /\ rows \in Seq(Records) /\ s \in Seens
  /\ ~s.added /\ ~s.removed => /\ store[k] = s.began /\ total = Len(s.began)
                               /\ Len(rows) <= total
                               /\ \A i \in 1 .. Len(rows) : rows[i] = s.began[i]
  /\ ~s.added /\ s.removed => Len(store[k]) < total
  /\ s.added /\ ~s.removed /\ k # History => Len(store[k]) > total
  /\ ~s.removed /\ k = History =>
       /\ Len(s.began) <= Len(store[k])
       /\ \A i \in 1 .. Len(s.began) : store[k][i + Shift(k, s.began)] = s.began[i]
       /\ Embeds(Passed(k, rows, s.began), s.began, rows)

ListingInv ==
  /\ ServerOK
  /\ ~FirstPage => Follows(listing.key, listing.total, listing.got, seen)

\* What a listing has seen once its next page is in.
SeenNow == IF FirstPage THEN [NotSeen EXCEPT !.began = store[listing.key]] ELSE seen

----------------------------------------------------------------------------

\* An accepted page is the part of the server's present list that starts where
\* the listing has got to.
LEMMA AcceptedPages ==
  ASSUME ListingInv, NEW page \in Answers, ~Refused(page)
  PROVE  /\ listing.key \in DOMAIN store
         /\ listing.got \in Seq(Records)
         /\ page.items \in Seq(Records) /\ page.size = Len(page.items)
         /\ page.total = Len(store[listing.key])
         /\ Len(listing.got) + Len(page.items) <= page.total
         /\ \A j \in 1 .. Len(page.items) : page.items[j] = store[listing.key][Len(listing.got) + j]
         /\ TotalAllowed(page.total)
<1> DEFINE all == store[listing.key]
           n == Len(listing.got)
<1>1. listing.key \in DOMAIN store
  BY DEF Answers
<1>2. all \in Seq(Records) /\ Len(all) \in Nat
  <2>1. store \in [DOMAIN MayArrive -> Seq(Records)]
    BY DEF ListingInv, ServerOK
  <2>2. store[listing.key] \in Seq(Records)
    BY <1>1, <2>1
  <2>3. QED
    BY <2>2
<1>3. listing.got \in Seq(Records) /\ n \in Nat
  <2>1. CASE FirstPage
    <3>1. listing.got = <<>>
      BY <2>1 DEF ListingInv, ServerOK
    <3>2. QED
      BY <3>1
  <2>2. CASE ~FirstPage
    <3>1. listing.got \in Seq(Records)
      BY <2>2 DEF ListingInv, Follows
    <3>2. QED
      BY <3>1
  <2>3. QED
    BY <2>1, <2>2
<1>4. ~ProvesNothing(page) /\ ~(page.total < n + page.size) /\ TotalAllowed(page.total)
  BY DEF Refused, Start
<1>5. PICK m \in 0 .. PageSize : page = PageOf(n, m)
  <2>1. PICK from \in {n, 0}, m \in 0 .. PageSize :
          \/ page = PageOf(from, m)
          \/ page = [PageOf(from, m) EXCEPT !.offset = Absent]
          \/ page = [PageOf(from, m) EXCEPT !.total = Absent]
          \/ page = [PageOf(from, m) EXCEPT !.size = PageOf(from, m).size + 1]
    BY <1>1, PagedListingAssumption DEF Answers, Start
  <2>2. /\ PageOf(from, m).size = Len(PageOf(from, m).items)
        /\ PageOf(from, m).offset = from
        /\ DOMAIN PageOf(from, m) = {"items", "size", "offset", "total"}
    BY DEF PageOf
  <2>3. page.offset = n /\ page.total # Absent /\ page.size = Len(page.items)
    BY <1>4 DEF ProvesNothing, Start
  <2>4. page = PageOf(from, m)
    BY <1>3, <2>1, <2>2, <2>3, PagedListingAssumption
  <2>5. QED
    BY <2>2, <2>3, <2>4
<1>6. PICK last \in Int : last = IF n + m < Len(all) THEN n + m ELSE Len(all)
  BY <1>2, <1>3, <1>5
<1>7. /\ page.items = SubSeq(all, n + 1, last) /\ page.size = Len(page.items)
      /\ page.total = Len(all)
  BY <1>5, <1>6 DEF PageOf
<1> HIDE DEF all, n
<1>8. SubSeq(all, n + 1, last) \in Seq(Records)
  BY <1>2, <1>3, <1>6
<1>9. Len(page.items) \in Nat /\ n + Len(page.items) <= Len(all)
  BY <1>2, <1>3, <1>4, <1>7, <1>8
<1>10. last \in n .. Len(all)
  BY <1>2, <1>3, <1>5, <1>6, <1>9
<1>11. /\ Len(SubSeq(all, n + 1, last)) = last - n
       /\ \A j \in 1 .. last - n : SubSeq(all, n + 1, last)[j] = all[n + j]
  BY <1>2, <1>3, <1>10
<1>12. \A j \in 1 .. Len(page.items) : page.items[j] = all[n + j]
  BY <1>7, <1>11
<1>13. QED
  BY <1>1, <1>3, <1>4, <1>7, <1>8, <1>9, <1>12 DEF all, n

\* An accepted page continues the listing.
LEMMA PagesContinue ==
  ASSUME ListingInv, NEW page \in Answers, ~Refused(page)
  PROVE  /\ Follows(listing.key, page.total, listing.got \o page.items, SeenNow)
         /\ Len(listing.got \o page.items) = Len(listing.got) + Len(page.items)
<1>1. PICK k, all, g, items, m, n :
        /\ k = listing.key /\ all = store[k] /\ g = listing.got /\ items = page.items
        /\ m = Len(items) /\ n = Len(g)
  OBVIOUS
<1>2. /\ k \in DOMAIN store /\ g \in Seq(Records) /\ items \in Seq(Records)
      /\ page.total = Len(all) /\ n + m <= Len(all) /\ m \in Nat /\ n \in Nat
      /\ \A j \in 1 .. m : items[j] = all[n + j]
      /\ TotalAllowed(page.total)
  <2>1. /\ listing.key \in DOMAIN store /\ listing.got \in Seq(Records) /\ page.items \in Seq(Records)
        /\ page.total = Len(store[listing.key]) /\ TotalAllowed(page.total)
        /\ Len(listing.got) + Len(page.items) <= page.total
        /\ \A j \in 1 .. Len(page.items) : page.items[j] = store[listing.key][Len(listing.got) + j]
    BY AcceptedPages
  <2>2. g \in Seq(Records) /\ items \in Seq(Records)
    BY <1>1, <2>1
  <2>3. m \in Nat /\ n \in Nat
    BY <1>1, <2>2
  <2>4. \A j \in 1 .. m : items[j] = all[n + j]
    BY <1>1, <2>1
  <2>5. QED
    BY <1>1, <2>1, <2>2, <2>3, <2>4
<1>3. all \in Seq(Records) /\ Len(all) \in Nat
  <2>1. store \in [DOMAIN MayArrive -> Seq(Records)]
    BY DEF ListingInv, ServerOK
  <2>2. store[k] \in Seq(Records)
    BY <1>2, <2>1
  <2>3. QED
    BY <1>1, <2>2
<1>4. PICK rows \in Seq(Records) :
        /\ rows = g \o items /\ Len(rows) = Len(g) + Len(items)
        /\ \A j \in 1 .. Len(g) : rows[j] = g[j]
        /\ \A j \in 1 .. Len(items) : rows[Len(g) + j] = items[j]
  <2>1. g \in Seq(Records) /\ items \in Seq(Records)
    BY <1>2
  <2>2. /\ g \o items \in Seq(Records) /\ Len(g \o items) = Len(g) + Len(items)
        /\ \A j \in 1 .. Len(g) : (g \o items)[j] = g[j]
        /\ \A j \in 1 .. Len(items) : (g \o items)[Len(g) + j] = items[j]
    BY <2>1, Joined
  <2>3. QED
    BY <2>2
<1>5. /\ Len(rows) = n + m
      /\ \A j \in 1 .. n : rows[j] = g[j]
      /\ \A j \in n + 1 .. n + m : rows[j] = all[j]
  <2>1. Len(rows) = n + m /\ \A j \in 1 .. n : rows[j] = g[j]
    BY <1>1, <1>2, <1>4
  <2>2. \A j \in 1 .. m : rows[n + j] = items[j]
    BY <1>1, <1>2, <1>4
  <2>3. ASSUME NEW j \in n + 1 .. n + m PROVE rows[j] = all[j]
    <3>1. j - n \in 1 .. m /\ n + (j - n) = j
      BY <1>2, <2>3
    <3>2. QED
      BY <1>2, <2>2, <3>1
  <2>4. QED
    BY <2>1, <2>3
<1>7. newestFirst \in BOOLEAN
  BY DEF ListingInv, ServerOK
<1>8. Follows(k, Len(all), rows, SeenNow)
  <2>1. CASE FirstPage
    <3>1. g = <<>> /\ n = 0
      BY <1>1, <2>1 DEF ListingInv, ServerOK
    <3>2. SeenNow = [began |-> all, added |-> FALSE, removed |-> FALSE]
      BY <1>1, <2>1 DEF SeenNow, NotSeen
    <3>3. Shift(k, all) = 0
      BY <1>1, <1>3 DEF Shift
    <3>4. SeenNow \in Seens
      BY <1>3, <3>2 DEF Seens
    <3>5. \A j \in 1 .. Len(rows) : rows[j] = all[j]
      BY <1>2, <1>5, <3>1
    <3>6. Embeds(Passed(k, rows, all), all, rows)
      <4>1. \A i \in Passed(k, rows, all) : i \in 1 .. Len(rows) /\ rows[i] = all[i]
        BY <1>2, <1>3, <1>5, <3>3, <3>5 DEF Passed, Reached
      <4>2. QED
        BY <4>1, EmbedsInItself
    <3>7. \A j \in 1 .. Len(all) : j + Shift(k, all) = j
      BY <1>3, <3>3
    <3>8. PICK z : z = SeenNow /\ z.began = all /\ ~z.added /\ ~z.removed
      BY <3>2
    <3>9. Follows(k, Len(all), rows, z)
      <4>1. z \in Seens /\ store[k] = z.began /\ Len(rows) <= Len(all)
        BY <1>1, <1>2, <1>5, <3>4, <3>8
      <4>2. /\ \A i \in 1 .. Len(z.began) : all[i + Shift(k, z.began)] = z.began[i]
            /\ Embeds(Passed(k, rows, z.began), z.began, rows)
        BY <3>6, <3>7, <3>8
      <4>3. \A i \in 1 .. Len(rows) : rows[i] = z.began[i]
        BY <3>5, <3>8
      <4>4. QED
        BY <1>1, <1>2, <1>3, <3>8, <4>1, <4>2, <4>3 DEF Follows
    <3>10. QED
      BY <3>8, <3>9
  <2>2. CASE ~FirstPage
    <3>1. SeenNow = seen /\ Follows(k, listing.total, g, seen) /\ listing.total \in Nat
      BY <1>1, <2>2 DEF SeenNow, ListingInv, Follows
    <3>2. IF k = History THEN Len(all) >= listing.total ELSE Len(all) = listing.total
      BY <1>1, <1>2, <2>2 DEF TotalAllowed
    <3>3. ~(~seen.added /\ seen.removed) /\ ~(seen.added /\ ~seen.removed /\ k # History)
      BY <1>1, <1>3, <3>1, <3>2 DEF Follows
    <3>4. ~seen.added /\ ~seen.removed => \A j \in 1 .. Len(rows) : rows[j] = seen.began[j]
      <4> SUFFICES ASSUME ~seen.added, ~seen.removed, NEW j \in 1 .. Len(rows)
                   PROVE  rows[j] = seen.began[j]
        OBVIOUS
      <4>1. all = seen.began /\ \A i \in 1 .. n : g[i] = seen.began[i]
        BY <1>1, <3>1 DEF Follows
      <4>2. j \in 1 .. n \/ j \in n + 1 .. n + m
        BY <1>2, <1>5
      <4>3. QED
        BY <1>5, <4>1, <4>2
    <3>5. ASSUME ~seen.removed, k = History
          PROVE  /\ Len(seen.began) <= Len(all)
                 /\ \A i \in 1 .. Len(seen.began) : all[i + Shift(k, seen.began)] = seen.began[i]
                 /\ Embeds(Passed(k, rows, seen.began), seen.began, rows)
      <4>1. /\ Len(seen.began) <= Len(all) /\ Len(seen.began) \in Nat
            /\ \A i \in 1 .. Len(seen.began) : all[i + Shift(k, seen.began)] = seen.began[i]
            /\ Embeds(Passed(k, g, seen.began), seen.began, g)
        BY <1>1, <3>1, <3>5 DEF Follows, Seens
      <4>2. Shift(k, seen.began) \in Nat
        BY <1>1, <1>3, <4>1 DEF Shift
      <4>3. PICK d, b, began : d \in Nat /\ b \in Nat /\ d = Shift(k, seen.began) /\ b = Len(seen.began) /\ began = seen.began
        BY <4>1, <4>2
      <4>4. ASSUME NEW i \in 1 .. b, i + d > n, i + d <= n + m PROVE rows[i + d] = began[i]
        <5>1. all[i + d] = began[i]
          BY <4>1, <4>3
        <5>2. i + d \in n + 1 .. n + m
          BY <1>2, <4>3, <4>4
        <5>3. QED
          BY <1>5, <5>1, <5>2
      <4>5. Embeds(Reached(b, d, n), began, g)
        BY <1>1, <4>1, <4>3 DEF Passed
      <4>6. Len(g) = n /\ Len(rows) = n + m /\ \A j \in 1 .. n : rows[j] = g[j]
        BY <1>1, <1>5
      <4>7. Embeds(Reached(b, d, n + m), began, rows)
        BY <1>2, <4>3, <4>4, <4>5, <4>6, EmbedsMore
      <4>8. QED
        BY <1>5, <4>1, <4>3, <4>7 DEF Passed
    <3>6. ~seen.added /\ ~seen.removed => store[k] = seen.began /\ Len(all) = Len(seen.began)
      BY <1>1, <3>1 DEF Follows
    <3>7. seen \in Seens
      BY <3>1 DEF Follows
    <3>8. QED
      BY <1>1, <1>2, <1>3, <1>5, <3>1, <3>3, <3>4, <3>5, <3>6, <3>7 DEF Follows
  <2>3. QED
    BY <2>1, <2>2
<1>9. QED
  BY <1>1, <1>2, <1>4, <1>5, <1>8

\* A listing that has everything the server counts is exact.
LEMMA CompleteIsExact ==
  ASSUME NEW k, NEW s, NEW rows, ServerOK, Follows(k, Len(store[k]), rows, s), Len(rows) = Len(store[k])
  PROVE  /\ (k # History /\ ~(s.added /\ s.removed)) \/ ~s.added => rows = s.began
         /\ ~s.removed => ToSet(s.began) \subseteq ToSet(rows) /\ Embeds(DOMAIN s.began, s.began, rows)
<1>1. /\ rows \in Seq(Records) /\ s.began \in Seq(Records) /\ Len(store[k]) \in Nat
      /\ s.added \in BOOLEAN /\ s.removed \in BOOLEAN
  BY DEF Follows, Seens
<1>2. ~(~s.added /\ s.removed) /\ ~(s.added /\ ~s.removed /\ k # History)
  BY <1>1 DEF Follows
<1>3. ~s.added /\ ~s.removed => rows = s.began
  <2> SUFFICES ASSUME ~s.added, ~s.removed PROVE rows = s.began
    OBVIOUS
  <2>1. Len(rows) = Len(s.began) /\ \A i \in 1 .. Len(rows) : rows[i] = s.began[i]
    BY DEF Follows
  <2>2. QED
    BY <1>1, <2>1, SeqEqual
<1>4. ASSUME ~s.removed, k = History PROVE Embeds(DOMAIN s.began, s.began, rows)
  <2>1. Len(s.began) <= Len(rows) /\ Embeds(Passed(k, rows, s.began), s.began, rows)
    BY <1>4 DEF Follows
  <2>2. \A i \in 1 .. Len(s.began) : i + Shift(k, s.began) <= Len(rows)
    <3>1. newestFirst \in BOOLEAN /\ Len(s.began) \in Nat
      BY <1>1 DEF ServerOK
    <3>2. CASE newestFirst
      BY <1>1, <2>1, <3>1, <3>2 DEF Shift
    <3>3. CASE ~newestFirst
      BY <1>1, <2>1, <3>1, <3>3 DEF Shift
    <3>4. QED
      BY <3>2, <3>3
  <2>3. DOMAIN s.began = 1 .. Len(s.began)
    BY <1>1
  <2>4. Passed(k, rows, s.began) = DOMAIN s.began
    BY <2>2, <2>3 DEF Passed, Reached
  <2>5. QED
    BY <2>1, <2>4
<1>5. ASSUME ~s.removed PROVE Embeds(DOMAIN s.began, s.began, rows)
  <2>1. CASE k = History
    BY <1>4, <1>5, <2>1
  <2>2. CASE k # History
    <3>1. rows = s.began
      BY <1>1, <1>2, <1>3, <1>5, <2>2
    <3>2. DOMAIN s.began = 1 .. Len(rows)
      BY <1>1, <3>1
    <3>3. QED
      BY <3>1, <3>2, EmbedsInItself
  <2>3. QED
    BY <2>1, <2>2
<1>6. ASSUME ~s.removed PROVE ToSet(s.began) \subseteq ToSet(rows)
  <2>1. PICK at \in [DOMAIN s.began -> 1 .. Len(rows)] : \A i \in DOMAIN s.began : rows[at[i]] = s.began[i]
    BY <1>5, <1>6 DEF Embeds
  <2>2. DOMAIN rows = 1 .. Len(rows)
    BY <1>1
  <2>3. QED
    BY <2>1, <2>2 DEF ToSet
<1>7. QED
  BY <1>1, <1>2, <1>3, <1>5, <1>6

\* What the server holds is always a list of records.
LEMMA ArrivalsAreRecords ==
  ASSUME NEW key \in DOMAIN MayArrive
  PROVE  MayArrive[key] \subseteq Records
<1>1. MayArrive[key] \in {MayArrive[k] : k \in DOMAIN MayArrive}
  OBVIOUS
<1>2. MayArrive[key] \subseteq UNION {MayArrive[k] : k \in DOMAIN MayArrive}
  BY <1>1
<1>3. QED
  BY <1>2 DEF Records

LEMMA StoresAreLists ==
  ASSUME ServerOK, NEW k \in DOMAIN store
  PROVE  k \in DOMAIN MayArrive /\ store[k] \in Seq(Records) /\ Len(store[k]) \in Nat
<1>1. store \in [DOMAIN MayArrive -> Seq(Records)]
  BY DEF ServerOK
<1>2. k \in DOMAIN MayArrive /\ store[k] \in Seq(Records)
  BY <1>1
<1>3. QED
  BY <1>2

\* A record comes.
LEMMA ArrivalsAreFollowed ==
  ASSUME ListingInv, NEW key \in DOMAIN store, Arrives(key), UNCHANGED <<newestFirst, listing>>
  PROVE  ListingInv'
<1>1. PICK x \in MayArrive[key], i \in Places(key) :
        /\ store' = [store EXCEPT ![key] = InsertAt(@, i, x)]
        /\ seen' = [seen EXCEPT !.added = @ \/ listing.key = key]
  BY DEF Arrives
<1>2. /\ ServerOK /\ newestFirst \in BOOLEAN /\ seen \in Seens
      /\ store \in [DOMAIN MayArrive -> Seq(Records)]
  BY DEF ListingInv, ServerOK
<1>3. x \in Records /\ store[key] \in Seq(Records) /\ Len(store[key]) \in Nat
  BY <1>2, StoresAreLists, ArrivalsAreRecords
<1>4. i \in 1 .. Len(store[key]) + 1
  BY <1>3 DEF Places
<1>5. PICK more : more = InsertAt(store[key], i, x)
  OBVIOUS
<1>6. /\ more \in Seq(Records) /\ Len(more) = Len(store[key]) + 1
      /\ \A j \in 1 .. Len(store[key]) : more[IF j < i THEN j ELSE j + 1] = store[key][j]
  BY <1>3, <1>4, <1>5, InsertAtProperties
<1>7. store' = [store EXCEPT ![key] = more] /\ DOMAIN store' = DOMAIN store
  BY <1>1, <1>5
<1>8. /\ seen'.began = seen.began /\ seen'.removed = seen.removed /\ seen' \in Seens
      /\ seen'.added <=> (seen.added \/ listing.key = key)
  BY <1>1, <1>2 DEF Seens
<1>9. ServerOK'
  BY <1>2, <1>6, <1>7, <1>8 DEF ServerOK, FirstPage
<1>10. ASSUME ~FirstPage
       PROVE  Follows(listing.key, listing.total, listing.got, seen)'
  <2>1. PICK k, total, rows : k = listing.key /\ total = listing.total /\ rows = listing.got
    OBVIOUS
  <2>2. Follows(k, total, rows, seen)
    BY <1>10, <2>1 DEF ListingInv
  <2>3. /\ k \in DOMAIN store /\ total \in Nat /\ rows \in Seq(Records) /\ seen.began \in Seq(Records)
        /\ Len(rows) \in Nat /\ Len(seen.began) \in Nat
    BY <1>2, <2>2 DEF Follows, Seens
  <2>4. CASE k # key
    <3>1. store'[k] = store[k] /\ newestFirst' = newestFirst
      BY <1>7, <2>3, <2>4
    <3>2. seen' = seen
      BY <1>1, <1>2, <2>1, <2>4 DEF Seens
    <3>3. PICK z : z = seen
      OBVIOUS
    <3>4. Shift(k, z.began)' = Shift(k, z.began)
      BY <3>1 DEF Shift
    <3>5. Follows(k, total, rows, z)'
      BY <1>7, <2>2, <3>1, <3>3, <3>4 DEF Follows, Passed
    <3>6. QED
      BY <2>1, <3>2, <3>3, <3>5
  <2>5. CASE k = key
    <3>1. store'[k] = more /\ seen'.added
      BY <1>2, <1>7, <1>8, <2>1, <2>5
    <3>2. seen'.added /\ ~seen'.removed /\ k # History => Len(more) > total
      BY <1>3, <1>6, <1>8, <2>2, <2>3, <2>5 DEF Follows
    <3>3. ASSUME ~seen.removed, k = History
          PROVE  /\ Len(seen.began) <= Len(more)
                 /\ \A j \in 1 .. Len(seen.began) : more[j + Shift(k, seen.began)'] = seen.began[j]
                 /\ Embeds(Passed(k, rows, seen.began)', seen.began, rows)
      <4>1. PICK b, l, began : b \in Nat /\ l \in Nat /\ b = Len(began) /\ l = Len(store[k]) /\ began = seen.began
        BY <1>3, <2>3, <2>5
      <4>2. /\ b <= l
            /\ \A j \in 1 .. b : store[k][j + Shift(k, began)] = began[j]
            /\ Embeds(Passed(k, rows, began), began, rows)
        BY <2>2, <3>3, <4>1 DEF Follows
      <4>3. Len(more) = l + 1 /\ Len(store'[k]) = l + 1
        BY <1>6, <2>5, <3>1, <4>1
      <4>4. PICK d \in Nat, e \in Nat :
              /\ d = Shift(k, began) /\ e = Shift(k, began)' /\ d <= e
              /\ \A j \in 1 .. b : j + d \in 1 .. l /\ more[j + e] = store[k][j + d]
        <5>1. CASE newestFirst
          <6>1. i = 1
            BY <2>5, <3>3, <5>1 DEF Places
          <6>2. Shift(k, began) = l - b /\ Shift(k, began)' = (l + 1) - b
            BY <1>6, <4>1, <4>3, <5>1 DEF Shift
          <6>3. \A j \in 1 .. l : more[j + 1] = store[k][j]
            BY <1>6, <2>5, <4>1, <6>1
          <6>4. PICK c \in Nat : l = b + c /\ l - b = c /\ (l + 1) - b = c + 1
            <7>1. b \in Nat /\ l \in Nat /\ b <= l
              BY <4>1, <4>2
            <7>2. l - b \in Nat /\ l = b + (l - b) /\ (l + 1) - b = (l - b) + 1
              BY <7>1
            <7>3. QED
              BY <7>2
          <6>5. \A j \in 1 .. b : j + c \in 1 .. l /\ j + (c + 1) = (j + c) + 1
            BY <4>1, <6>4
          <6>6. \A j \in 1 .. b : more[j + (c + 1)] = store[k][j + c]
            BY <6>3, <6>5
          <6>7. c + 1 \in Nat /\ c <= c + 1
            BY <6>4
          <6>8. QED
            BY <6>2, <6>4, <6>5, <6>6, <6>7
        <5>2. CASE ~newestFirst
          <6>1. i = l + 1
            BY <2>5, <3>3, <4>1, <5>2 DEF Places
          <6>2. Shift(k, began) = 0 /\ Shift(k, began)' = 0
            BY <5>2 DEF Shift
          <6>3. \A j \in 1 .. l : more[j] = store[k][j]
            BY <1>6, <2>5, <4>1, <6>1
          <6>4. \A j \in 1 .. b : j + 0 = j /\ j \in 1 .. l
            BY <4>1, <4>2
          <6>5. \A j \in 1 .. b : j + 0 \in 1 .. l /\ more[j + 0] = store[k][j + 0]
            BY <6>3, <6>4
          <6>6. QED
            BY <6>2, <6>5
        <5>3. QED
          BY <1>2, <5>1, <5>2
      <4>5. \A j \in 1 .. b : more[j + e] = began[j]
        BY <4>2, <4>4
      <4>6. PICK I, J : I = {j \in 1 .. b : j + d <= Len(rows)} /\ J = {j \in 1 .. b : j + e <= Len(rows)}
        OBVIOUS
      <4>7. I = Passed(k, rows, began) /\ J = Passed(k, rows, began)'
        BY <4>1, <4>4, <4>6 DEF Passed, Reached
      <4>8. J \subseteq I
        BY <2>3, <4>4, <4>6
      <4>9. Embeds(I, began, rows)
        BY <4>2, <4>7
      <4>10. Embeds(J, began, rows)
        BY <4>8, <4>9, EmbedsLess
      <4>11. Passed(k, rows, seen.began)' = J /\ Shift(k, seen.began)' = e
        BY <1>8, <4>1, <4>4, <4>7
      <4>12. Len(seen.began) <= Len(more)
        BY <4>1, <4>2, <4>3
      <4>13. QED
        BY <4>1, <4>5, <4>10, <4>11, <4>12
    <3>4. Follows(k, total, rows, seen)'
      BY <1>7, <1>8, <2>3, <3>1, <3>2, <3>3 DEF Follows, Passed
    <3>5. QED
      BY <2>1, <3>4
  <2>6. QED
    BY <2>4, <2>5
<1>11. QED
  BY <1>9, <1>10 DEF ListingInv, FirstPage

\* A record goes.
LEMMA RemovalsAreFollowed ==
  ASSUME ListingInv, NEW key \in DOMAIN store, Goes(key), UNCHANGED <<newestFirst, listing>>
  PROVE  ListingInv'
<1>1. PICK i \in DOMAIN store[key] :
        /\ store' = [store EXCEPT ![key] = RemoveAt(@, i)]
        /\ seen' = [seen EXCEPT !.removed = @ \/ listing.key = key]
  BY DEF Goes
<1>2. /\ ServerOK /\ newestFirst \in BOOLEAN /\ seen \in Seens
      /\ store \in [DOMAIN MayArrive -> Seq(Records)]
  BY DEF ListingInv, ServerOK
<1>3. store[key] \in Seq(Records) /\ Len(store[key]) \in Nat
  BY <1>2, StoresAreLists
<1>4. i \in 1 .. Len(store[key])
  BY <1>3
<1>5. PICK fewer : fewer = RemoveAt(store[key], i)
  OBVIOUS
<1>6. fewer \in Seq(Records) /\ Len(fewer) = Len(store[key]) - 1
  BY <1>3, <1>4, <1>5, RemoveAtProperties
<1>7. store' = [store EXCEPT ![key] = fewer] /\ DOMAIN store' = DOMAIN store
  BY <1>1, <1>5
<1>8. /\ seen'.began = seen.began /\ seen'.added = seen.added /\ seen' \in Seens
      /\ seen'.removed <=> (seen.removed \/ listing.key = key)
  BY <1>1, <1>2 DEF Seens
<1>9. ServerOK'
  BY <1>2, <1>6, <1>7, <1>8 DEF ServerOK, FirstPage
<1>10. ASSUME ~FirstPage
       PROVE  Follows(listing.key, listing.total, listing.got, seen)'
  <2>1. PICK k, total, rows : k = listing.key /\ total = listing.total /\ rows = listing.got
    OBVIOUS
  <2>2. Follows(k, total, rows, seen)
    BY <1>10, <2>1 DEF ListingInv
  <2>3. k \in DOMAIN store /\ total \in Nat /\ rows \in Seq(Records)
    BY <2>2 DEF Follows
  <2>4. CASE k # key
    <3>1. store'[k] = store[k] /\ newestFirst' = newestFirst
      BY <1>7, <2>3, <2>4
    <3>2. seen' = seen
      BY <1>1, <1>2, <2>1, <2>4 DEF Seens
    <3>3. PICK z : z = seen
      OBVIOUS
    <3>4. Shift(k, z.began)' = Shift(k, z.began)
      BY <3>1 DEF Shift
    <3>5. Follows(k, total, rows, z)'
      BY <1>7, <2>2, <3>1, <3>3, <3>4 DEF Follows, Passed
    <3>6. QED
      BY <2>1, <3>2, <3>3, <3>5
  <2>5. CASE k = key
    <3>1. store'[k] = fewer /\ seen'.removed
      BY <1>2, <1>7, <1>8, <2>1, <2>5
    <3>2. ~seen'.added => Len(fewer) < total
      BY <1>3, <1>6, <1>8, <2>2, <2>3, <2>5 DEF Follows
    <3>3. Follows(k, total, rows, seen)'
      BY <1>7, <1>8, <2>3, <3>1, <3>2 DEF Follows
    <3>4. QED
      BY <2>1, <3>3
  <2>6. QED
    BY <2>4, <2>5
<1>11. QED
  BY <1>9, <1>10 DEF ListingInv, FirstPage

----------------------------------------------------------------------------

\* Before its first page a listing has nothing.
LEMMA FreshListings ==
  ASSUME ListingInv, NEW k, listing' = [NoListing EXCEPT !.key = k],
         seen' \in Seens, UNCHANGED serverVars
  PROVE  ListingInv'
<1>1. /\ listing' = [key |-> k, total |-> Absent, got |-> <<>>]
      /\ listing'.total = Absent /\ listing'.got = <<>> /\ listing'.key = k
  BY DEF NoListing
<1>2. ServerOK'
  BY <1>1 DEF ListingInv, ServerOK, FirstPage, serverVars
<1>3. FirstPage'
  BY <1>1 DEF FirstPage
<1>4. QED
  BY <1>2, <1>3 DEF ListingInv

LEMMA NotSeenIsNothing == NotSeen \in Seens
<1>1. <<>> \in Seq(Records)
  OBVIOUS
<1>2. QED
  BY <1>1 DEF NotSeen, Seens

LEMMA ListingInitOK == ListingInit => ListingInv
<1> SUFFICES ASSUME ListingInit PROVE ListingInv
  OBVIOUS
<1>1. newestFirst \in BOOLEAN
  BY PagedListingAssumption DEF ListingInit
<1>2. PICK s \in InitialStores :
        store = [s EXCEPT ![History] = IF newestFirst THEN Reverse(@) ELSE @]
  BY DEF ListingInit
<1>3. DOMAIN s = DOMAIN MayArrive /\ \A key \in DOMAIN s : s[key] \in Seq(ToSet(s[key]))
  BY PagedListingAssumption
<1>4. ASSUME NEW key \in DOMAIN s PROVE s[key] \in Seq(Records) /\ Reverse(s[key]) \in Seq(Records)
  <2>1. ToSet(s[key]) \in {ToSet(s[k]) : k \in DOMAIN s}
    OBVIOUS
  <2>2. ToSet(s[key]) \subseteq UNION {ToSet(s[k]) : k \in DOMAIN s}
    BY <2>1
  <2>3. (UNION {ToSet(s[k]) : k \in DOMAIN s}) \in {UNION {ToSet(t[k]) : k \in DOMAIN t} : t \in InitialStores}
    OBVIOUS
  <2>4. ToSet(s[key]) \subseteq Records
    BY <2>2, <2>3 DEF Records
  <2>5. s[key] \in Seq(Records)
    BY <1>3, <2>4
  <2>6. QED
    BY <2>5, ReverseIsASequence
<1>5. store \in [DOMAIN MayArrive -> Seq(Records)]
  BY <1>2, <1>3, <1>4
<1>6. listing = NoListing /\ seen \in Seens
  BY NotSeenIsNothing DEF ListingInit
<1>7. ServerOK /\ FirstPage
  BY <1>1, <1>5, <1>6 DEF ServerOK, FirstPage, NoListing
<1>8. QED
  BY <1>7 DEF ListingInv

----------------------------------------------------------------------------
(***************************************************************************)
(* The reports.                                                            *)
(***************************************************************************)
ReadsInv == ListingInv /\ ListingsAreExact

LEMMA MorePagesKeepsTheListing ==
  ASSUME ReadsInv, MorePages
  PROVE  ReadsInv'
<1>1. PICK page \in Answers :
        /\ ~Refused(page)
        /\ listing' = [listing EXCEPT !.total = page.total, !.got = @ \o page.items]
        /\ seen' = SeenNow
  BY DEF MorePages, SeenNow
<1>2. /\ ListingInv /\ UNCHANGED <<serverVars, reads>>
      /\ listing = [key |-> listing.key, total |-> listing.total, got |-> listing.got]
  BY DEF ReadsInv, ListingInv, ServerOK, MorePages
<1>3. PICK k, total, rows, s :
        /\ k = listing.key /\ total = page.total /\ rows = listing.got \o page.items /\ s = SeenNow
        /\ Follows(k, total, rows, s)
  BY <1>1, <1>2, PagesContinue
<1>4. listing' = [key |-> k, total |-> total, got |-> rows] /\ seen' = s
  BY <1>1, <1>2, <1>3
<1>5. store' = store /\ newestFirst' = newestFirst /\ reads' = reads
  BY <1>2 DEF serverVars
<1>6. Shift(k, s.began)' = Shift(k, s.began)
  BY <1>5 DEF Shift
<1>7. Follows(k, total, rows, s)' /\ total \in Nat /\ s \in Seens
  BY <1>3, <1>5, <1>6 DEF Follows, Passed
<1>8. Follows(listing.key, listing.total, listing.got, seen)'
  BY <1>4, <1>7
<1>9. ~FirstPage'
  BY <1>4, <1>7, PagedListingAssumption DEF FirstPage
<1>10. ServerOK'
  BY <1>2, <1>4, <1>5, <1>7, <1>9 DEF ListingInv, ServerOK
<1>11. QED
  BY <1>5, <1>8, <1>10 DEF ReadsInv, ListingInv, ListingsAreExact, Exact

LEMMA LastPageIsExact ==
  ASSUME ReadsInv, LastPage
  PROVE  ReadsInv'
<1>1. PICK page \in Answers :
        /\ ~Refused(page) /\ Complete(page)
        /\ reads' = [key \in DOMAIN reads \cup {listing.key} |->
               IF key # listing.key THEN reads[key]
               ELSE [began |-> SeenNow.began, added |-> SeenNow.added, removed |-> SeenNow.removed,
                     rows |-> listing.got \o page.items, total |-> page.total]]
  BY DEF LastPage, SeenNow
<1>2. ListingInv /\ ServerOK /\ ListingsAreExact
  BY DEF ReadsInv, ListingInv
<1>3. PICK k, rows, s :
        /\ k = listing.key /\ rows = listing.got \o page.items /\ s = SeenNow
        /\ Follows(k, page.total, rows, s) /\ Len(rows) = Len(listing.got) + Len(page.items)
  BY <1>1, <1>2, PagesContinue
<1>4. page.total = Len(store[k]) /\ Len(rows) = Len(store[k])
  BY <1>1, <1>2, <1>3, AcceptedPages DEF Complete, Start
<1>5. /\ (k # History /\ ~(s.added /\ s.removed)) \/ ~s.added => rows = s.began
      /\ ~s.removed => ToSet(s.began) \subseteq ToSet(rows)
  BY <1>2, <1>3, <1>4, CompleteIsExact
<1>6. /\ DOMAIN reads' = DOMAIN reads \cup {k}
      /\ reads'[k] = [began |-> s.began, added |-> s.added, removed |-> s.removed,
                      rows |-> rows, total |-> page.total]
      /\ \A key \in DOMAIN reads \ {k} : reads'[key] = reads[key]
  BY <1>1, <1>3
<1>7. PICK r : r = reads'[k] /\ r.began = s.began /\ r.added = s.added /\ r.removed = s.removed /\ r.rows = rows
  BY <1>6
<1>8. ListingsAreExact'
  <2> SUFFICES ASSUME NEW key \in DOMAIN reads'
               PROVE  /\ (key # History /\ ~(reads'[key].added /\ reads'[key].removed)) \/ ~reads'[key].added
                           => reads'[key].rows = reads'[key].began
                      /\ ~reads'[key].removed => ToSet(reads'[key].began) \subseteq ToSet(reads'[key].rows)
    BY DEF ListingsAreExact, Exact
  <2>1. CASE key = k
    BY <1>5, <1>7, <2>1
  <2>2. CASE key # k
    <3>1. reads'[key] = reads[key] /\ key \in DOMAIN reads
      BY <1>6, <2>2
    <3>2. QED
      BY <1>2, <3>1 DEF ListingsAreExact, Exact
  <2>3. QED
    BY <2>1, <2>2
<1>9. listing' = [NoListing EXCEPT !.key = Absent] /\ seen' \in Seens /\ UNCHANGED serverVars
  BY NotSeenIsNothing DEF LastPage, NoListing
<1>10. ListingInv'
  BY <1>2, <1>9, FreshListings
<1>11. QED
  BY <1>8, <1>10 DEF ReadsInv

LEMMA ServerStepsAreFollowed ==
  ASSUME ReadsInv, ServerStep
  PROVE  ReadsInv'
<1>1. PICK key \in DOMAIN store : Arrives(key) \/ Goes(key)
  BY DEF ServerStep, ServerChanges
<1>2. UNCHANGED <<newestFirst, listing>> /\ reads' = reads /\ ListingInv
  BY DEF ServerStep, ServerChanges, ReadsInv
<1>3. ListingInv'
  BY <1>1, <1>2, ArrivalsAreFollowed, RemovalsAreFollowed
<1>4. QED
  BY <1>2, <1>3 DEF ReadsInv, ListingsAreExact, Exact

LEMMA OtherStepsKeepReads ==
  ASSUME ReadsInv, UNCHANGED <<serverVars, seen, reads>>,
         listing' = listing \/ \E k : listing' = [NoListing EXCEPT !.key = k]
  PROVE  ReadsInv'
<1>1. ListingInv /\ seen' \in Seens /\ reads' = reads /\ UNCHANGED serverVars
  BY DEF ReadsInv, ListingInv, ServerOK
<1>2. CASE listing' = listing
  <2>1. store' = store /\ newestFirst' = newestFirst /\ seen' = seen
    BY <1>1 DEF serverVars
  <2>2. ServerOK' /\ FirstPage' = FirstPage
    BY <1>1, <1>2, <2>1 DEF ListingInv, ServerOK, FirstPage
  <2>3. PICK k, total, rows, s :
          k = listing.key /\ total = listing.total /\ rows = listing.got /\ s = seen
    OBVIOUS
  <2>4. Shift(k, s.began)' = Shift(k, s.began)
    BY <2>1 DEF Shift
  <2>5. Follows(k, total, rows, s) => Follows(k, total, rows, s)'
    BY <2>1, <2>4 DEF Follows, Passed
  <2>6. ListingInv'
    BY <1>1, <1>2, <2>1, <2>2, <2>3, <2>5 DEF ListingInv
  <2>7. QED
    BY <1>1, <2>6 DEF ReadsInv, ListingsAreExact, Exact
<1>3. CASE \E k : listing' = [NoListing EXCEPT !.key = k]
  <2>1. ListingInv'
    BY <1>1, <1>3, FreshListings
  <2>2. QED
    BY <1>1, <2>1 DEF ReadsInv, ListingsAreExact, Exact
<1>4. QED
  BY <1>2, <1>3

LEMMA ReadsStart == ReportInit => ReadsInv
<1> SUFFICES ASSUME ReportInit PROVE ReadsInv
  OBVIOUS
<1>1. ListingInv
  BY ListingInitOK DEF ReportInit
<1>2. DOMAIN reads = {}
  BY DEF ReportInit
<1>3. QED
  BY <1>1, <1>2 DEF ReadsInv, ListingsAreExact

LEMMA ReadsStep == ReadsInv /\ [ReportNext]_vars => ReadsInv'
<1> SUFFICES ASSUME ReadsInv, [ReportNext]_vars PROVE ReadsInv'
  OBVIOUS
<1>1. CASE Begin
  BY <1>1, OtherStepsKeepReads DEF Begin, listingVars
<1>2. CASE NextListing
  BY <1>2, OtherStepsKeepReads DEF NextListing
<1>3. CASE MorePages
  BY <1>3, MorePagesKeepsTheListing
<1>4. CASE LastPage
  BY <1>4, LastPageIsExact
<1>5. CASE Fails
  <2>1. NoListing = [NoListing EXCEPT !.key = Absent]
    BY DEF NoListing
  <2>2. QED
    BY <1>5, <2>1, OtherStepsKeepReads DEF Fails, Abandons
<1>6. CASE ProbeThumbs
  BY <1>6, OtherStepsKeepReads DEF ProbeThumbs, listingVars
<1>7. CASE ProbeParts
  BY <1>7, OtherStepsKeepReads DEF ProbeParts, listingVars
<1>8. CASE Analyse
  BY <1>8, OtherStepsKeepReads DEF Analyse, listingVars
<1>9. CASE ServerStep
  BY <1>9, ServerStepsAreFollowed
<1>10. CASE UNCHANGED vars
  BY <1>10, OtherStepsKeepReads DEF vars, listingVars
<1>11. QED
  BY <1>1, <1>2, <1>3, <1>4, <1>5, <1>6, <1>7, <1>8, <1>9, <1>10 DEF ReportNext

\* A listing that completes is what the server held when it began, unless
\* records came and went between its pages, and nothing is lost of a history
\* from which no view was deleted: for any server, page size and order, however
\* often the data change between two pages (client.go:153, :534).
THEOREM ListingsExact == Spec => []ListingsAreExact
<1>1. ReadsInv => ListingsAreExact
  BY DEF ReadsInv
<1>2. QED
  BY <1>1, ReadsStart, ReadsStep, PTL DEF Spec

----------------------------------------------------------------------------
(***************************************************************************)
(* What a report knows of the listings it has finished.                    *)
(***************************************************************************)
\* r is what a listing of the key k has left.
ReadOK(k, r) ==
  /\ k \in DOMAIN MayArrive
  /\ r.rows \in Seq(Held(k)) /\ r.began \in Seq(Held(k))
  /\ Len(r.rows) = r.total
  /\ r.rows = <<>> => r.began = <<>>
  /\ ~r.removed => Embeds(DOMAIN r.began, r.began, r.rows)
  /\ k \in Lists => ToSet(Keys(r.rows)) \subseteq LibraryKeys

\* The listing at work, of which a page that is accepted brings something.
PagesInv ==
  /\ \A k \in DOMAIN MayArrive : store[k] \in Seq(Held(k))
  /\ ~FirstPage => /\ listing.got \in Seq(Held(listing.key)) /\ seen.began \in Seq(Held(listing.key))
                   /\ listing.got # <<>> /\ Len(listing.got) <= listing.total
  /\ listing.key \in DOMAIN MayArrive \cup {Absent}

StagesInv ==
  /\ report = [mode |-> report.mode, selected |-> report.selected, phase |-> report.phase,
               todo |-> report.todo, failed |-> report.failed]
  /\ report.mode \in Modes
  /\ report.phase \in {"idle", "listing", "done", "failed"}
  /\ report.todo \in Seq(DOMAIN MayArrive)
  /\ Listing => report.phase = "listing"
  /\ Done("storage") => Fits(Items)

ReportInv ==
  /\ ReadsInv /\ PagesInv /\ StagesInv
  /\ \A k \in DOMAIN reads : ReadOK(k, reads[k])

\* An accepted page, and the listing with it, is of what the server may hold.
LEMMA PagesAreHeld ==
  ASSUME ListingInv, PagesInv, NEW page \in Answers, ~Refused(page)
  PROVE  /\ listing.key \in DOMAIN MayArrive
         /\ listing.got \o page.items \in Seq(Held(listing.key))
         /\ Len(listing.got \o page.items) <= page.total
         /\ page.total \in Nat
         /\ SeenNow.began \in Seq(Held(listing.key))
         /\ listing.got \o page.items = <<>> => FirstPage
         /\ ~Complete(page) => listing.got \o page.items # <<>>
<1>1. PICK k, g, items : k = listing.key /\ g = listing.got /\ items = page.items
  OBVIOUS
<1>2. PICK R : R = Held(k)
  OBVIOUS
<1>3. /\ k \in DOMAIN store /\ items \in Seq(Records) /\ page.size = Len(items)
      /\ g \in Seq(Records)
      /\ page.total = Len(store[k])
      /\ Len(g) + Len(items) <= page.total
      /\ \A j \in 1 .. Len(items) : items[j] = store[k][Len(g) + j]
  BY <1>1, AcceptedPages
<1>4. k \in DOMAIN MayArrive /\ Len(store[k]) \in Nat /\ store[k] \in Seq(R)
  <2>1. ServerOK
    BY DEF ListingInv
  <2>2. k \in DOMAIN MayArrive /\ Len(store[k]) \in Nat
    BY <1>3, <2>1, StoresAreLists
  <2>3. QED
    BY <1>2, <2>2 DEF PagesInv
<1>5. g \in Seq(R)
  <2>1. CASE FirstPage
    <3>1. g = <<>>
      BY <1>1, <2>1 DEF ListingInv, ServerOK
    <3>2. QED
      BY <3>1
  <2>2. CASE ~FirstPage
    BY <1>1, <1>2, <2>2 DEF PagesInv
  <2>3. QED
    BY <2>1, <2>2
<1>6. items \in Seq(R)
  <2>1. \A j \in 1 .. Len(items) : items[j] \in R
    <3>1. Len(g) \in Nat /\ Len(items) \in Nat
      BY <1>3
    <3>2. \A j \in 1 .. Len(items) : Len(g) + j \in 1 .. Len(store[k])
      BY <1>3, <1>4, <3>1
    <3>3. QED
      BY <1>3, <1>4, <3>2
  <2>2. QED
    BY <1>3, <2>1
<1>7. g \o items \in Seq(R) /\ Len(g \o items) = Len(g) + Len(items) /\ Len(g) \in Nat /\ Len(items) \in Nat
  BY <1>5, <1>6, Joined
<1>8. SeenNow.began \in Seq(R)
  <2>1. CASE FirstPage
    <3>1. SeenNow.began = store[k]
      BY <1>1, <2>1 DEF SeenNow, NotSeen
    <3>2. QED
      BY <1>4, <3>1
  <2>2. CASE ~FirstPage
    BY <1>1, <1>2, <2>2 DEF PagesInv, SeenNow
  <2>3. QED
    BY <2>1, <2>2
<1>9. g \o items = <<>> => FirstPage
  <2>1. ASSUME g \o items = <<>>, ~FirstPage PROVE FALSE
    <3>1. g # <<>>
      BY <1>1, <2>1 DEF PagesInv
    <3>2. Len(g) # 0
      BY <1>5, <3>1
    <3>3. Len(g \o items) = 0
      BY <2>1
    <3>4. QED
      BY <1>7, <3>2, <3>3
  <2>2. QED
    BY <2>1
<1>10. ASSUME ~Complete(page), g \o items = <<>> PROVE FALSE
  <2>1. Len(g \o items) = 0
    BY <1>10
  <2>2. Len(g) = 0 /\ Len(items) = 0
    BY <1>7, <2>1
  <2>3. page.size = 0 /\ Len(listing.got) = 0 /\ page.total \in Nat
    BY <1>1, <1>3, <1>4, <2>2
  <2>4. page.total # 0
    BY <1>10, <2>3 DEF Complete, Start
  <2>5. Refused(page)
    BY <2>3, <2>4 DEF Refused, Start
  <2>6. QED
    BY <2>5
<1>11. Len(g \o items) <= page.total /\ page.total \in Nat
  BY <1>3, <1>4, <1>7
<1>12. QED
  BY <1>1, <1>2, <1>4, <1>7, <1>8, <1>9, <1>10, <1>11

\* The server changes.
LEMMA WhatComesIsHeld ==
  ASSUME ListingInv, PagesInv, NEW key \in DOMAIN store, Arrives(key) \/ Goes(key), listing' = listing
  PROVE  PagesInv'
<1>1. ServerOK
  BY DEF ListingInv
<1>2. store \in [DOMAIN MayArrive -> Seq(Records)] /\ seen \in Seens /\ key \in DOMAIN MayArrive
  BY <1>1, StoresAreLists DEF ServerOK
<1>3. PICK all, R : all = store[key] /\ R = Held(key)
  OBVIOUS
<1>4. all \in Seq(R) /\ Len(all) \in Nat
  BY <1>2, <1>3 DEF PagesInv
<1>5. PICK new \in Seq(R) : store' = [store EXCEPT ![key] = new]
  <2>1. CASE Arrives(key)
    <3>1. PICK x \in MayArrive[key], i \in Places(key) : store' = [store EXCEPT ![key] = InsertAt(@, i, x)]
      BY <2>1 DEF Arrives
    <3>2. x \in R
      BY <1>3 DEF Held
    <3>3. i \in 1 .. Len(all) + 1
      BY <1>3, <1>4 DEF Places
    <3>4. InsertAt(all, i, x) \in Seq(R)
      BY <1>4, <3>2, <3>3, InsertAtProperties
    <3>5. QED
      BY <1>3, <3>1, <3>4
  <2>2. CASE Goes(key)
    <3>1. PICK i \in DOMAIN store[key] : store' = [store EXCEPT ![key] = RemoveAt(@, i)]
      BY <2>2 DEF Goes
    <3>2. i \in 1 .. Len(all)
      BY <1>3, <1>4
    <3>3. RemoveAt(all, i) \in Seq(R)
      BY <1>4, <3>2, RemoveAtProperties
    <3>4. QED
      BY <1>3, <3>1, <3>3
  <2>3. QED
    BY <2>1, <2>2
<1>6. \A k \in DOMAIN MayArrive : store'[k] \in Seq(Held(k))
  BY <1>2, <1>3, <1>5 DEF PagesInv
<1>7. seen'.began = seen.began
  BY <1>2 DEF Arrives, Goes, Seens
<1>8. QED
  BY <1>6, <1>7 DEF PagesInv, FirstPage

LEMMA WhatIsThereIsHeld == ListingInit => PagesInv
<1> SUFFICES ASSUME ListingInit PROVE PagesInv
  OBVIOUS
<1>1. PICK s \in InitialStores :
        store = [s EXCEPT ![History] = IF newestFirst THEN Reverse(@) ELSE @]
  BY DEF ListingInit
<1>2. DOMAIN s = DOMAIN MayArrive /\ \A key \in DOMAIN s : s[key] \in Seq(ToSet(s[key]))
  BY PagedListingAssumption
<1>3. ASSUME NEW key \in DOMAIN MayArrive PROVE s[key] \in Seq(Held(key)) /\ Reverse(s[key]) \in Seq(Held(key))
  <2>1. ToSet(s[key]) \in {ToSet(t[key]) : t \in InitialStores}
    OBVIOUS
  <2>2. ToSet(s[key]) \subseteq Held(key)
    BY <2>1 DEF Held
  <2>3. s[key] \in Seq(Held(key))
    BY <1>2, <2>2
  <2>4. QED
    BY <2>3, ReverseIsASequence
<1>4. \A key \in DOMAIN MayArrive : store[key] \in Seq(Held(key))
  BY <1>1, <1>2, <1>3
<1>5. FirstPage /\ listing.key = Absent
  BY DEF ListingInit, FirstPage, NoListing
<1>6. QED
  BY <1>4, <1>5 DEF PagesInv

\* What a report lists are keys the server answers for.
LEMMA ListsAreAnswered == ToList \in Seq(DOMAIN MayArrive)
<1>1. LibraryKeys \subseteq DOMAIN MayArrive /\ History \in DOMAIN MayArrive
  BY ReportsAssumption DEF LibraryKeys
<1>2. PICK sections : sections = LibraryMaintenanceSections /\ sections \in Seq(LibraryKeys \cap ToSet(Sections))
  <2>1. PICK S : LibraryMaintenanceSections = Among(Sections, S) /\ S \subseteq ToSet(Sections)
    <3>1. PICK S : S = {s \in ToSet(Sections) :
            /\ report.selected \in {EverySection, s}
            /\ \/ s \in MediaSections \/ report.mode \in HistoryModes
               \/ (report.selected = s /\ report.mode \notin IntegrityModes)}
      OBVIOUS
    <3>2. LibraryMaintenanceSections = Among(Sections, S)
      BY <3>1 DEF LibraryMaintenanceSections
    <3>3. QED
      BY <3>1, <3>2
  <2>2. Sections \in Seq(LibraryKeys)
    BY ReportsAssumption
  <2>3. Among(Sections, S) \in Seq(LibraryKeys \cap S)
    BY <2>2, SelectionIsOrdered
  <2>4. QED
    BY <2>1, <2>3
<1>3. PICK R : R = DOMAIN MayArrive
  OBVIOUS
<1>4. sections \in Seq(R) /\ \A i \in DOMAIN sections : sections[i] \in ToSet(Sections)
  BY <1>1, <1>2, <1>3
<1>5. PICK collections : collections = [i \in DOMAIN sections |-> CollectionsOf[sections[i]]]
  OBVIOUS
<1>6. collections \in Seq(R)
  <2>1. DOMAIN sections = 1 .. Len(sections) /\ Len(sections) \in Nat
    BY <1>4
  <2>2. \A i \in DOMAIN sections : CollectionsOf[sections[i]] \in Lists
    BY <1>4 DEF Lists
  <2>3. \A i \in DOMAIN sections : CollectionsOf[sections[i]] \in R
    BY <1>1, <1>3, <2>2, ReportsAssumption
  <2>4. QED
    BY <1>5, <2>1, <2>3
<1>7. <<History>> \in Seq(R) /\ <<Playlists>> \in Seq(R)
  <2>1. Playlists \in Lists
    BY DEF Lists
  <2>2. History \in R /\ Playlists \in R
    BY <1>1, <1>3, <2>1, ReportsAssumption
  <2>3. QED
    BY <2>2
<1>8. <<History>> \o sections \in Seq(R)
  BY <1>4, <1>7, Joined
<1>9. ToList \in {<<History>>, <<History>> \o sections, collections, <<Playlists>>, sections}
  BY <1>2, <1>5 DEF ToList
<1>10. QED
  BY <1>3, <1>4, <1>6, <1>7, <1>8, <1>9

LEMMA KeysOfRows ==
  ASSUME NEW R, NEW rows \in Seq(R)
  PROVE  /\ Keys(rows) \in Seq(ToSet(Keys(rows)))
         /\ \A k \in ToSet(Keys(rows)) : \E x \in R : k = x.key
<1>1. DOMAIN rows = 1 .. Len(rows) /\ Len(rows) \in Nat /\ \A i \in DOMAIN rows : rows[i] \in R
  OBVIOUS
<1>2. PICK keys : keys = Keys(rows)
  OBVIOUS
<1>3. keys = [i \in DOMAIN rows |-> rows[i].key]
  BY <1>2 DEF Keys
<1>4. \A i \in 1 .. Len(rows) : keys[i] \in ToSet(keys)
  BY <1>1, <1>3 DEF ToSet
<1>5. keys \in Seq(ToSet(keys))
  BY <1>1, <1>3, <1>4
<1>6. \A k \in ToSet(keys) : \E x \in R : k = x.key
  BY <1>1, <1>3 DEF ToSet
<1>7. QED
  BY <1>2, <1>5, <1>6

\* A listing that is finished leaves what the report relies on.
LEMMA FinishedListings ==
  ASSUME ReportInv, LastPage
  PROVE  /\ \A k \in DOMAIN reads' : ReadOK(k, reads'[k])
         /\ report'.todo \in Seq(DOMAIN MayArrive)
<1>1. PICK page \in Answers :
        /\ ~Refused(page) /\ Complete(page) /\ ~BadIdentifiers(listing.key, listing.got \o page.items)
        /\ reads' = [key \in DOMAIN reads \cup {listing.key} |->
               IF key # listing.key THEN reads[key]
               ELSE [began |-> SeenNow.began, added |-> SeenNow.added, removed |-> SeenNow.removed,
                     rows |-> listing.got \o page.items, total |-> page.total]]
        /\ report' = [report EXCEPT !.todo = (IF listing.key \in Lists THEN Keys(listing.got \o page.items)
                                                                    ELSE <<>>) \o @]
  BY DEF LastPage, SeenNow
<1>2. ListingInv /\ PagesInv /\ ServerOK /\ StagesInv /\ \A k \in DOMAIN reads : ReadOK(k, reads[k])
  BY DEF ReportInv, ReadsInv, ListingInv
<1>3. PICK k, rows, s, total :
        /\ k = listing.key /\ rows = listing.got \o page.items /\ s = SeenNow /\ total = page.total
        /\ Follows(k, total, rows, s) /\ Len(rows) = Len(listing.got) + Len(page.items)
  BY <1>1, <1>2, PagesContinue
<1>4. total = Len(store[k]) /\ Len(rows) = total
  BY <1>1, <1>2, <1>3, AcceptedPages DEF Complete, Start
<1>5. /\ k \in DOMAIN MayArrive /\ rows \in Seq(Held(k)) /\ s.began \in Seq(Held(k))
      /\ rows = <<>> => FirstPage
  BY <1>1, <1>2, <1>3, PagesAreHeld
<1>6. ~s.removed => Embeds(DOMAIN s.began, s.began, rows)
  BY <1>2, <1>3, <1>4, CompleteIsExact
<1>7. rows = <<>> => s.began = <<>>
  <2> SUFFICES ASSUME rows = <<>> PROVE s.began = <<>>
    OBVIOUS
  <2>1. s.began = store[k]
    BY <1>3, <1>5 DEF SeenNow, NotSeen
  <2>2. Len(s.began) = 0
    BY <1>4, <2>1
  <2>3. QED
    BY <1>5, <2>2
<1>8. k \in Lists => ToSet(Keys(rows)) \subseteq LibraryKeys
  <2> SUFFICES ASSUME k \in Lists, NEW x \in ToSet(Keys(rows)) PROVE x \in LibraryKeys
    OBVIOUS
  <2>1. x # NoKey
    BY <1>1, <1>3 DEF BadIdentifiers
  <2>2. PICK held \in Held(k) : x = held.key
    <3>1. \E held \in Held(k) : x = held.key
      BY <1>5, KeysOfRows
    <3>2. QED
      BY <3>1
  <2>3. held.key \in LibraryKeys \cup {NoKey}
    BY ReportsAssumption
  <2>4. QED
    BY <2>1, <2>2, <2>3
<1>9. PICK r : /\ r = reads'[k] /\ r.rows = rows /\ r.began = s.began /\ r.removed = s.removed /\ r.total = total
  <2>1. reads'[k] = [began |-> s.began, added |-> s.added, removed |-> s.removed, rows |-> rows, total |-> total]
    BY <1>1, <1>3
  <2>2. QED
    BY <2>1
<1>10. ReadOK(k, r)
  BY <1>4, <1>5, <1>6, <1>7, <1>8, <1>9 DEF ReadOK
<1>11. DOMAIN reads' = DOMAIN reads \cup {k} /\ \A key \in DOMAIN reads \ {k} : reads'[key] = reads[key]
  BY <1>1, <1>3
<1>12. ASSUME NEW key \in DOMAIN reads' PROVE ReadOK(key, reads'[key])
  <2>1. CASE key = k
    BY <1>9, <1>10, <2>1
  <2>2. CASE key # k
    <3>1. reads'[key] = reads[key] /\ key \in DOMAIN reads
      BY <1>11, <2>2
    <3>2. PICK old : old = reads[key] /\ ReadOK(key, old)
      BY <1>2, <3>1
    <3>3. QED
      BY <3>1, <3>2
  <2>3. QED
    BY <2>1, <2>2
<1>13. PICK first : first = IF k \in Lists THEN Keys(rows) ELSE <<>>
  OBVIOUS
<1>14. first \in Seq(DOMAIN MayArrive)
  <2>1. CASE k \in Lists
    <3>1. Keys(rows) \in Seq(ToSet(Keys(rows)))
      BY <1>5, KeysOfRows
    <3>2. ToSet(Keys(rows)) \subseteq DOMAIN MayArrive
      BY <1>8, <2>1 DEF LibraryKeys
    <3>3. Keys(rows) \in Seq(DOMAIN MayArrive)
      BY <3>1, <3>2
    <3>4. QED
      BY <1>13, <2>1, <3>3
  <2>2. CASE k \notin Lists
    BY <1>13, <2>2
  <2>3. QED
    BY <2>1, <2>2
<1>15. report'.todo = first \o report.todo
  <2>1. report = [mode |-> report.mode, selected |-> report.selected, phase |-> report.phase,
                  todo |-> report.todo, failed |-> report.failed]
    BY <1>2 DEF StagesInv
  <2>2. QED
    BY <1>1, <1>3, <1>13, <2>1
<1>16. report'.todo \in Seq(DOMAIN MayArrive)
  BY <1>2, <1>14, <1>15, Joined DEF StagesInv
<1>17. QED
  BY <1>12, <1>16

\* A step that leaves the server and the finished listings alone.
LEMMA OtherStepsKeepPages ==
  ASSUME PagesInv, UNCHANGED <<serverVars, seen>>,
         \/ listing' = listing
         \/ \E k \in DOMAIN MayArrive \cup {Absent} : listing' = [NoListing EXCEPT !.key = k]
  PROVE  PagesInv'
<1>1. store' = store /\ seen' = seen
  BY DEF serverVars
<1>2. CASE listing' = listing
  BY <1>1, <1>2 DEF PagesInv, FirstPage
<1>3. ASSUME NEW k \in DOMAIN MayArrive \cup {Absent}, listing' = [NoListing EXCEPT !.key = k]
      PROVE  PagesInv'
  <2>1. listing'.total = Absent /\ listing'.key = k
    BY <1>3 DEF NoListing
  <2>2. QED
    BY <1>1, <2>1 DEF PagesInv, FirstPage
<1>4. QED
  BY <1>2, <1>3

LEMMA SameItems ==
  ASSUME reads' = reads
  PROVE  Items' = Items
BY DEF Items, InSections, Rows

LEMMA StagesFollow ==
  ASSUME ReportInv, [ReportNext]_vars
  PROVE  StagesInv'
<1>1. PICK mode, selected, phase, todo, failed :
        /\ report = [mode |-> mode, selected |-> selected, phase |-> phase, todo |-> todo, failed |-> failed]
        /\ mode \in Modes /\ phase \in {"idle", "listing", "done", "failed"} /\ todo \in Seq(DOMAIN MayArrive)
        /\ Listing => phase = "listing"
        /\ phase = "done" /\ mode = "storage" => Fits(Items)
  BY DEF ReportInv, StagesInv, Done
<1> DEFINE Next(p, t, f) == report' = [mode |-> mode, selected |-> selected, phase |-> p, todo |-> t, failed |-> f]
<1>2. ASSUME NEW p, NEW t, NEW f, Next(p, t, f),
             p \in {"idle", "listing", "done", "failed"}, t \in Seq(DOMAIN MayArrive),
             Listing' => p = "listing",
             p = "done" /\ mode = "storage" => Fits(Items)'
      PROVE  StagesInv'
  BY <1>1, <1>2 DEF StagesInv, Done
<1>3. report.phase = phase /\ report.mode = mode /\ report.todo = todo /\ report.failed = failed
  BY <1>1
<1>4. CASE Begin
  <2>1. Next("listing", ToList, failed)
    BY <1>1, <1>4 DEF Begin
  <2>2. QED
    BY <1>2, <2>1, ListsAreAnswered
<1>5. CASE NextListing
  <2>1. phase = "listing" /\ todo # <<>>
    BY <1>3, <1>5 DEF NextListing
  <2>2. Next(phase, Tail(todo), failed)
    BY <1>1, <1>5 DEF NextListing
  <2>3. Tail(todo) \in Seq(DOMAIN MayArrive)
    BY <1>1, <2>1
  <2>4. QED
    BY <1>2, <2>1, <2>2, <2>3
<1>6. CASE MorePages
  <2>1. phase = "listing"
    BY <1>1, <1>6 DEF MorePages
  <2>2. Next(phase, todo, failed)
    BY <1>1, <1>6 DEF MorePages
  <2>3. QED
    BY <1>1, <1>2, <2>1, <2>2
<1>7. CASE LastPage
  <2>1. phase = "listing"
    BY <1>1, <1>7 DEF LastPage
  <2>2. PICK more : Next(phase, more, failed)
    <3>1. \E more : report' = [report EXCEPT !.todo = more]
      BY <1>7 DEF LastPage
    <3>2. PICK more : report' = [report EXCEPT !.todo = more]
      BY <3>1
    <3>3. Next(phase, more, failed)
      BY <1>1, <3>2
    <3>4. QED
      BY <3>3
  <2>3. more \in Seq(DOMAIN MayArrive)
    <3>1. report'.todo = more
      BY <2>2
    <3>2. QED
      BY <1>7, <3>1, FinishedListings
  <2>4. QED
    BY <1>2, <2>1, <2>2, <2>3
<1>8. CASE Fails
  <2>1. Next("failed", todo, failed)
    BY <1>1, <1>8 DEF Fails, Abandons, Phase
  <2>2. ~Listing'
    BY <1>8 DEF Fails, Abandons, Listing
  <2>3. QED
    BY <1>1, <1>2, <2>1, <2>2
<1>9. CASE ProbeThumbs
  <2>1. PICK f : Next("done", todo, f)
    BY <1>1, <1>9 DEF ProbeThumbs
  <2>2. mode # "storage" /\ ~Listing'
    BY <1>3, <1>9 DEF ProbeThumbs, Listed, Listing, listingVars
  <2>3. QED
    BY <1>1, <1>2, <2>1, <2>2
<1>10. CASE ProbeParts
  <2>1. Next("done", todo, failed)
    BY <1>1, <1>10 DEF ProbeParts, Phase
  <2>2. mode # "storage" /\ ~Listing'
    BY <1>3, <1>10 DEF ProbeParts, Listed, Listing, listingVars
  <2>3. QED
    BY <1>1, <1>2, <2>1, <2>2
<1>11. CASE Analyse
  <2>1. Next("done", todo, failed)
    BY <1>1, <1>11 DEF Analyse, Phase
  <2>2. ~Listing'
    BY <1>11 DEF Analyse, Listed, Listing, listingVars
  <2>3. mode = "storage" => Fits(Items)
    BY <1>3, <1>11 DEF Analyse, AnalysisFails, IntegrityModes
  <2>4. Fits(Items)' = Fits(Items)
    <3>1. Items' = Items
      BY <1>11, SameItems DEF Analyse
    <3>2. PICK items : items = Items
      OBVIOUS
    <3>3. Fits(items)' = Fits(items)
      OBVIOUS
    <3>4. QED
      BY <3>1, <3>2, <3>3
  <2>5. QED
    BY <1>1, <1>2, <2>1, <2>2, <2>3, <2>4
<1>12. CASE ServerStep \/ UNCHANGED vars
  <2>1. report' = report /\ listing' = listing /\ reads' = reads
    BY <1>12 DEF ServerStep, ServerChanges, vars, listingVars
  <2>2. Next(phase, todo, failed)
    BY <1>1, <2>1
  <2>3. Listing' = Listing
    BY <2>1 DEF Listing
  <2>4. Fits(Items)' = Fits(Items)
    <3>1. Items' = Items
      BY <2>1, SameItems
    <3>2. PICK items : items = Items
      OBVIOUS
    <3>3. Fits(items)' = Fits(items)
      OBVIOUS
    <3>4. QED
      BY <3>1, <3>2, <3>3
  <2>5. QED
    BY <1>1, <1>2, <2>2, <2>3, <2>4
<1>13. QED
  BY <1>4, <1>5, <1>6, <1>7, <1>8, <1>9, <1>10, <1>11, <1>12 DEF ReportNext

LEMMA MorePagesAreHeld ==
  ASSUME ReportInv, MorePages
  PROVE  PagesInv'
<1>1. PICK page \in Answers :
        /\ ~Refused(page) /\ ~Complete(page)
        /\ listing' = [listing EXCEPT !.total = page.total, !.got = @ \o page.items]
        /\ seen' = SeenNow
  BY DEF MorePages, SeenNow
<1>2. /\ ListingInv /\ PagesInv /\ store' = store
      /\ listing = [key |-> listing.key, total |-> listing.total, got |-> listing.got]
  BY DEF ReportInv, ReadsInv, ListingInv, ServerOK, MorePages, serverVars
<1>3. PICK k, rows, s, total :
        k = listing.key /\ rows = listing.got \o page.items /\ s = SeenNow /\ total = page.total
  OBVIOUS
<1>4. /\ k \in DOMAIN MayArrive /\ rows \in Seq(Held(k)) /\ Len(rows) <= total
      /\ s.began \in Seq(Held(k)) /\ rows # <<>>
  BY <1>1, <1>2, <1>3, PagesAreHeld
<1>5. listing' = [key |-> k, total |-> total, got |-> rows] /\ seen' = s
  BY <1>1, <1>2, <1>3
<1>6. listing'.key = k /\ listing'.total = total /\ listing'.got = rows
  BY <1>5
<1>7. QED
  BY <1>2, <1>4, <1>5, <1>6 DEF PagesInv, FirstPage

LEMMA ReportStart == ReportInit => ReportInv
<1> SUFFICES ASSUME ReportInit PROVE ReportInv
  OBVIOUS
<1>1. ReadsInv /\ PagesInv /\ DOMAIN reads = {} /\ ~Listing
  <2>1. ReadsInv /\ PagesInv
    BY ReadsStart, WhatIsThereIsHeld DEF ReportInit
  <2>2. DOMAIN reads = {}
    BY DEF ReportInit
  <2>3. ~Listing
    BY DEF ReportInit, ListingInit, Listing
  <2>4. QED
    BY <2>1, <2>2, <2>3
<1>2. PICK r \in [mode : Modes, selected : {EverySection} \cup ToSet(Sections),
                  phase : {"idle"}, todo : {<<>>}, failed : {{}}] : report = r
  BY DEF ReportInit
<1>3. r = [mode |-> r.mode, selected |-> r.selected, phase |-> r.phase, todo |-> r.todo, failed |-> r.failed]
  OBVIOUS
<1>4. r.mode \in Modes /\ r.phase = "idle" /\ r.todo = <<>>
  OBVIOUS
<1>5. StagesInv
  BY <1>1, <1>2, <1>3, <1>4 DEF StagesInv, Done
<1>6. QED
  BY <1>1, <1>5 DEF ReportInv

LEMMA ReportStep == ReportInv /\ [ReportNext]_vars => ReportInv'
<1> SUFFICES ASSUME ReportInv, [ReportNext]_vars PROVE ReportInv'
  OBVIOUS
<1>1. ReadsInv' /\ StagesInv'
  BY ReadsStep, StagesFollow DEF ReportInv
<1>2. PagesInv /\ ListingInv /\ StagesInv /\ \A k \in DOMAIN reads : ReadOK(k, reads[k])
  BY DEF ReportInv, ReadsInv
<1>3. reads' = reads => \A k \in DOMAIN reads' : ReadOK(k, reads'[k])
  BY <1>2
<1>4. Absent \in DOMAIN MayArrive \cup {Absent} /\ NoListing = [NoListing EXCEPT !.key = Absent]
  BY DEF NoListing
<1>5. CASE Begin
  BY <1>1, <1>2, <1>3, <1>5, OtherStepsKeepPages DEF Begin, listingVars, ReportInv
<1>6. CASE NextListing
  <2>1. Head(report.todo) \in DOMAIN MayArrive
    BY <1>2, <1>6 DEF NextListing, StagesInv
  <2>2. PagesInv'
    BY <1>2, <1>6, <2>1, OtherStepsKeepPages DEF NextListing
  <2>3. QED
    BY <1>1, <1>3, <1>6, <2>2 DEF NextListing, ReportInv
<1>7. CASE MorePages
  BY <1>1, <1>3, <1>7, MorePagesAreHeld DEF MorePages, ReportInv
<1>8. CASE LastPage
  <2>1. listing'.total = Absent /\ listing'.key = Absent /\ store' = store
    BY <1>8 DEF LastPage, NoListing, serverVars
  <2>2. PagesInv'
    BY <1>2, <2>1 DEF PagesInv, FirstPage
  <2>3. QED
    BY <1>1, <1>8, <2>2, FinishedListings DEF ReportInv
<1>9. CASE Fails
  BY <1>1, <1>2, <1>3, <1>4, <1>9, OtherStepsKeepPages DEF Fails, Abandons, ReportInv
<1>10. CASE ProbeThumbs
  BY <1>1, <1>2, <1>3, <1>10, OtherStepsKeepPages DEF ProbeThumbs, listingVars, ReportInv
<1>11. CASE ProbeParts
  BY <1>1, <1>2, <1>3, <1>11, OtherStepsKeepPages DEF ProbeParts, listingVars, ReportInv
<1>12. CASE Analyse
  BY <1>1, <1>2, <1>3, <1>12, OtherStepsKeepPages DEF Analyse, listingVars, ReportInv
<1>13. CASE ServerStep
  <2>1. PICK key \in DOMAIN store : Arrives(key) \/ Goes(key)
    BY <1>13 DEF ServerStep, ServerChanges
  <2>2. listing' = listing /\ reads' = reads
    BY <1>13 DEF ServerStep, ServerChanges
  <2>3. PagesInv'
    BY <1>2, <2>1, <2>2, WhatComesIsHeld
  <2>4. QED
    BY <1>1, <1>3, <2>2, <2>3 DEF ReportInv
<1>14. CASE UNCHANGED vars
  BY <1>1, <1>2, <1>3, <1>14, OtherStepsKeepPages DEF vars, listingVars, ReportInv
<1>15. QED
  BY <1>5, <1>6, <1>7, <1>8, <1>9, <1>10, <1>11, <1>12, <1>13, <1>14 DEF ReportNext

\* A listing has no more than the server counts, and everything a report lists is
\* of a key the server answers for (client.go:168, root.go:1338).
THEOREM ReportTypes == Spec => []ReportTypeOK
<1>1. ReportInv => ReportTypeOK
  <2> SUFFICES ASSUME ReportInv PROVE ReportTypeOK
    OBVIOUS
  <2>1. DOMAIN store = DOMAIN MayArrive
    BY DEF ReportInv, ReadsInv, ListingInv, ServerOK
  <2>2. ToSet(report.todo) \subseteq DOMAIN MayArrive
    BY DEF ReportInv, StagesInv, ToSet
  <2>3. \A k \in DOMAIN reads : k \in DOMAIN MayArrive /\ Len(reads[k].rows) = reads[k].total
    BY DEF ReportInv, ReadOK
  <2>4. report.mode \in Modes /\ report.phase \in {"idle", "listing", "done", "failed"}
    BY DEF ReportInv, StagesInv
  <2>5. listing.key \in DOMAIN MayArrive \cup {Absent} /\ (listing.total # Absent => Len(listing.got) <= listing.total)
    BY DEF ReportInv, PagesInv, FirstPage
  <2>6. QED
    BY <2>1, <2>2, <2>3, <2>4, <2>5 DEF ReportTypeOK
<1>2. QED
  BY <1>1, ReportStart, ReportStep, PTL DEF Spec

\* What was listed of the library is what was there, if nothing came and went.
LEMMA LibraryRowsAreExact ==
  ASSUME ReportInv, \A key \in DOMAIN reads : Exact(key), NEW k, k # History
  PROVE  Rows(k) = Began(k)
<1>1. CASE k \in DOMAIN reads
  <2>1. reads[k].rows = reads[k].began
    BY <1>1 DEF ReportInv, ReadsInv, ListingsAreExact
  <2>2. QED
    BY <1>1, <2>1 DEF Rows, Began
<1>2. CASE k \notin DOMAIN reads
  BY <1>2 DEF Rows, Began
<1>3. QED
  BY <1>1, <1>2

LEMMA ContainersAreOfTheLibrary ==
  ASSUME ReportInv, NEW c \in Containers
  PROVE  c \in DOMAIN reads /\ c # History
<1>1. PICK l \in Lists \cap DOMAIN reads : c \in ToSet(Keys(Rows(l)))
  BY DEF Containers
<1>2. ReadOK(l, reads[l]) /\ Rows(l) = reads[l].rows
  BY DEF ReportInv, Rows
<1>3. c \in LibraryKeys
  BY <1>1, <1>2 DEF ReadOK
<1>4. QED
  BY <1>3 DEF LibraryKeys, Containers

\* Whatever came and went between the pages, the rows of the audits are of what
\* is there: two different items, containers that were empty, sums that fit; and
\* they are the rows of the library itself if no record came and another went
\* (librarymaintenance/report.go:73, libraryintegrity/report.go:60, :193).
THEOREM AuditRows == Spec => []AuditRowsAreReal
<1>1. ReportInv => AuditRowsAreReal
  <2> SUFFICES ASSUME ReportInv PROVE AuditRowsAreReal
    OBVIOUS
  <2>1. ASSUME NEW items, NEW x \in Duplicates(items)
        PROVE  \E y \in Duplicates(items) : SameGroup(x, y) /\ x.key # y.key
    <3>1. PICK all : all = ToSet(Normal(items))
      OBVIOUS
    <3>2. x \in all /\ \E y \in all : SameGroup(x, y) /\ x.key # y.key
      BY <2>1, <3>1 DEF Duplicates
    <3>3. PICK y \in all : SameGroup(x, y) /\ x.key # y.key
      BY <3>2
    <3>4. SameGroup(y, x) /\ y.key # x.key
      BY <3>3 DEF SameGroup
    <3>5. y \in Duplicates(items)
      BY <3>1, <3>2, <3>4 DEF Duplicates
    <3>6. QED
      BY <3>3, <3>5
  <2>2. ASSUME NEW c \in Containers, Rows(c) = <<>> PROVE Began(c) = <<>>
    <3>1. c \in DOMAIN reads
      BY ContainersAreOfTheLibrary
    <3>2. ReadOK(c, reads[c])
      BY <3>1 DEF ReportInv
    <3>3. QED
      BY <2>2, <3>1, <3>2 DEF ReadOK, Rows, Began
  <2>3. Done("storage") => \A row \in Result(Items) : row.bytes <= MaxBytes
    <3> SUFFICES ASSUME Done("storage"), NEW row \in Result(Items) PROVE row.bytes <= MaxBytes
      OBVIOUS
    <3>1. PICK items : items = Items
      OBVIOUS
    <3>2. Result(items) = StorageRows(items)
      BY DEF Result, Done
    <3>3. Fits(items)
      BY <3>1 DEF ReportInv, StagesInv
    <3>4. QED
      BY <3>1, <3>2, <3>3 DEF Fits
  <2>4. ASSUME \A key \in DOMAIN reads : Exact(key)
        PROVE  /\ Result(Items) = Result(InSections([s \in ToSet(Sections) |-> Began(s)]))
               /\ \A c \in Containers : Audit(Rows(c)) = Audit(Began(c))
    <3>1. \A k : k # History => Rows(k) = Began(k)
      BY <2>4, LibraryRowsAreExact
    <3>2. History \notin ToSet(Sections)
      BY ReportsAssumption DEF LibraryKeys, ToSet
    <3>3. \A s \in ToSet(Sections) : Rows(s) = Began(s)
      BY <3>1, <3>2
    <3>4. [s \in ToSet(Sections) |-> Rows(s)] = [s \in ToSet(Sections) |-> Began(s)]
      BY <3>3
    <3>5. Result(Items) = Result(InSections([s \in ToSet(Sections) |-> Began(s)]))
      BY <3>4 DEF Items
    <3>6. \A c \in Containers : Rows(c) = Began(c)
      BY <3>1, ContainersAreOfTheLibrary
    <3>7. QED
      BY <3>5, <3>6
  <2>5. QED
    BY <2>1, <2>2, <2>3, <2>4 DEF AuditRowsAreReal
<1>2. QED
  BY <1>1, ReportStart, ReportStep, PTL DEF Spec

(***************************************************************************)
(* The analyses of the history.                                            *)
(***************************************************************************)
LessThan(S) == {p \in S \X S : p[1] < p[2]}

LEMMA Extremes ==
  ASSUME NEW S, IsFiniteSet(S), S \subseteq Int, S # {}
  PROVE  /\ Max(S) \in S /\ \A x \in S : Max(S) >= x
         /\ Min(S) \in S /\ \A x \in S : Min(S) <= x
<1>1. PICK n, R, f : n = Cardinality(S) /\ R = LessThan(S) /\ f = InOrder(S, R)
  OBVIOUS
<1>2. \A x, y \in S : <<x, y>> \in R <=> x < y
  BY <1>1 DEF LessThan
<1>3. StrictOrder(S, R)
  BY <1>2 DEF StrictOrder
<1>4. /\ n \in Nat /\ f \in [1 .. n -> S]
      /\ \A x \in S : \E i \in 1 .. n : f[i] = x
      /\ \A i, j \in 1 .. n : i < j => <<f[i], f[j]>> \in R
  BY <1>1, <1>3, PutInOrder
<1>5. n # 0
  <2>1. PICK x \in S : TRUE
    OBVIOUS
  <2>2. \E i \in 1 .. n : f[i] = x
    BY <1>4
  <2>3. QED
    BY <2>2
<1>6. 1 \in 1 .. n /\ n \in 1 .. n
  BY <1>4, <1>5
<1>7. \A i, j \in 1 .. n : i < j => f[i] < f[j]
  BY <1>2, <1>4
<1>8. ASSUME NEW x \in S PROVE f[1] <= x /\ x <= f[n]
  <2>1. PICK i \in 1 .. n : f[i] = x
    BY <1>4
  <2>2. f[i] \in Int /\ f[1] \in Int /\ f[n] \in Int
    BY <1>4, <1>6
  <2>3. i = 1 \/ 1 < i
    BY <1>4
  <2>4. i = n \/ i < n
    BY <1>4
  <2>5. f[1] <= f[i]
    BY <1>6, <1>7, <2>2, <2>3
  <2>6. f[i] <= f[n]
    BY <1>6, <1>7, <2>2, <2>4
  <2>7. QED
    BY <2>1, <2>5, <2>6
<1>9. f[1] \in S /\ f[n] \in S
  BY <1>4, <1>6
<1>10. \E x \in S : \A y \in S : x >= y
  BY <1>8, <1>9
<1>11. \E x \in S : \A y \in S : x <= y
  BY <1>8, <1>9
<1>12. QED
  BY <1>10, <1>11 DEF Max, Min

\* The numbers of a list are finitely many.
Numbers(s) == {s[i] : i \in 1 .. Len(s)}

LEMMA NumbersAreFinite ==
  ASSUME NEW s \in Seq(Int)
  PROVE  IsFiniteSet(Numbers(s)) /\ Numbers(s) \subseteq Int
<1>1. Len(s) \in Nat /\ DOMAIN s = 1 .. Len(s)
  OBVIOUS
<1>2. IsFiniteSet(1 .. Len(s))
  BY <1>1, FS_Interval
<1>3. PICK T : T = Numbers(s)
  OBVIOUS
<1>4. s \in Surjection(1 .. Len(s), T)
  BY <1>1, <1>3 DEF Surjection, Numbers
<1>5. IsFiniteSet(T)
  BY <1>2, <1>4, FS_Surjection
<1>6. QED
  BY <1>1, <1>3, <1>5 DEF Numbers

\* Views whose times are numbers.
Timed(views) == views \in Seq({views[i] : i \in 1 .. Len(views)}) /\ \A i \in 1 .. Len(views) : views[i].at \in Int

LEMMA TimesAreFinite ==
  ASSUME NEW views, Timed(views), NEW S, S \subseteq {views[i].at : i \in 1 .. Len(views)}
  PROVE  IsFiniteSet(S) /\ S \subseteq Int
<1>1. PICK s : s = [i \in 1 .. Len(views) |-> views[i].at]
  OBVIOUS
<1>2. Len(views) \in Nat
  BY DEF Timed
<1>3. s \in Seq(Int) /\ Len(s) = Len(views)
  BY <1>1, <1>2 DEF Timed
<1>4. S \subseteq Numbers(s)
  BY <1>1, <1>3 DEF Numbers
<1>5. IsFiniteSet(Numbers(s)) /\ Numbers(s) \subseteq Int
  BY <1>3, NumbersAreFinite
<1>6. PICK T : T = Numbers(s)
  OBVIOUS
<1>7. QED
  BY <1>4, <1>5, <1>6, FS_Subset

\* Sorting the views rearranges them.
LEMMA SortedViews ==
  ASSUME NEW views, Timed(views)
  PROVE  \E f \in [1 .. Len(views) -> 1 .. Len(views)] :
           /\ NormalizeViews(views) = [i \in 1 .. Len(views) |-> views[f[i]]]
           /\ \A i \in 1 .. Len(views) : \E j \in 1 .. Len(views) : f[j] = i
<1>1. PICK n, S, R, f : n = Len(views) /\ S = 1 .. n /\ R = EarlierViews(views) /\ f = InOrder(S, R)
  OBVIOUS
<1>2. n \in Nat /\ DOMAIN views = S /\ \A i \in S : views[i].at \in Int
  BY <1>1 DEF Timed
<1>3. IsFiniteSet(S) /\ Cardinality(S) = n
  <2>1. IsFiniteSet(1 .. n) /\ Cardinality(1 .. n) = IF 1 > n THEN 0 ELSE n - 1 + 1
    BY <1>2, FS_Interval
  <2>2. (IF 1 > n THEN 0 ELSE n - 1 + 1) = n
    BY <1>2
  <2>3. QED
    BY <1>1, <2>1, <2>2
<1>4. ASSUME NEW i \in S, NEW j \in S
      PROVE  <<i, j>> \in R <=> (views[i].at < views[j].at \/ (~(views[j].at < views[i].at) /\ i < j))
  BY <1>1, <1>2 DEF EarlierViews, Earlier
<1>5. StrictOrder(S, R)
  <2>1. ASSUME NEW i \in S PROVE <<i, i>> \notin R
    BY <1>1, <1>2, <1>4
  <2>2. ASSUME NEW i \in S, NEW j \in S, NEW k \in S, <<i, j>> \in R, <<j, k>> \in R PROVE <<i, k>> \in R
    <3>1. PICK a \in Int, b \in Int, c \in Int : a = views[i].at /\ b = views[j].at /\ c = views[k].at
      BY <1>2
    <3>2. (a < b \/ (~(b < a) /\ i < j)) /\ (b < c \/ (~(c < b) /\ j < k))
      BY <1>4, <2>2, <3>1
    <3>3. a < c \/ (~(c < a) /\ i < k)
      BY <1>1, <1>2, <3>2
    <3>4. QED
      BY <1>4, <3>1, <3>3
  <2>3. ASSUME NEW i \in S, NEW j \in S PROVE i = j \/ <<i, j>> \in R \/ <<j, i>> \in R
    <3>1. PICK a \in Int, b \in Int : a = views[i].at /\ b = views[j].at
      BY <1>2
    <3>2. i = j \/ (a < b \/ (~(b < a) /\ i < j)) \/ (b < a \/ (~(a < b) /\ j < i))
      BY <1>1, <1>2
    <3>3. QED
      BY <1>4, <3>1, <3>2
  <2>4. QED
    BY <2>1, <2>2, <2>3 DEF StrictOrder
<1>6. /\ f \in [1 .. n -> S] /\ \A x \in S : \E i \in 1 .. n : f[i] = x
  BY <1>1, <1>3, <1>5, PutInOrder
<1>7. NormalizeViews(views) = [i \in 1 .. n |-> views[f[i]]]
  BY <1>1, <1>2 DEF NormalizeViews
<1>8. QED
  BY <1>1, <1>6, <1>7

\* What was listed after the views of before is not less.
LEMMA NothingIsLost ==
  ASSUME NEW before, Timed(before), NEW rows, Timed(rows), Embeds(DOMAIN before, before, rows)
  PROVE  \E views : /\ views = NormalizeViews(rows) /\ Timed(views)
                    /\ Embeds(1 .. Len(before), before, views)
<1>1. PICK n, m, views : n = Len(rows) /\ m = Len(before) /\ views = NormalizeViews(rows)
  OBVIOUS
<1>2. n \in Nat /\ m \in Nat /\ DOMAIN before = 1 .. m /\ \A i \in 1 .. n : rows[i].at \in Int
  BY <1>1 DEF Timed
<1>3. PICK f \in [1 .. n -> 1 .. n] : /\ views = [i \in 1 .. n |-> rows[f[i]]]
                                     /\ \A i \in 1 .. n : \E j \in 1 .. n : f[j] = i
  <2>1. \E f \in [1 .. Len(rows) -> 1 .. Len(rows)] :
          /\ NormalizeViews(rows) = [i \in 1 .. Len(rows) |-> rows[f[i]]]
          /\ \A i \in 1 .. Len(rows) : \E j \in 1 .. Len(rows) : f[j] = i
    BY SortedViews
  <2>2. n = Len(rows) /\ views = NormalizeViews(rows)
    BY <1>1
  <2>3. QED
    BY <2>1, <2>2
<1>4. Timed(views) /\ Len(views) = n
  <2>1. Len(views) = n /\ DOMAIN views = 1 .. n
    BY <1>2, <1>3
  <2>2. \A i \in 1 .. n : f[i] \in 1 .. n /\ views[i] = rows[f[i]]
    BY <1>3
  <2>3. \A i \in 1 .. n : views[i].at \in Int
    BY <1>2, <2>2
  <2>4. views \in [1 .. n -> {views[i] : i \in 1 .. n}]
    BY <1>3
  <2>5. views \in Seq({views[i] : i \in 1 .. n})
    BY <1>2, <2>4
  <2>6. QED
    BY <2>1, <2>3, <2>5 DEF Timed
<1>5. PICK at \in [1 .. m -> 1 .. n] : /\ \A i \in 1 .. m : rows[at[i]] = before[i]
                                       /\ \A i, j \in 1 .. m : at[i] = at[j] => i = j
  <2>1. Embeds(1 .. m, before, rows) /\ Len(rows) = n
    BY <1>1, <1>2
  <2>2. QED
    BY <2>1 DEF Embeds
<1>6. PICK back : back = [i \in 1 .. m |-> CHOOSE j \in 1 .. n : f[j] = at[i]]
  OBVIOUS
<1>7. \A i \in 1 .. m : back[i] \in 1 .. n /\ f[back[i]] = at[i]
  <2> SUFFICES ASSUME NEW i \in 1 .. m PROVE back[i] \in 1 .. n /\ f[back[i]] = at[i]
    OBVIOUS
  <2>1. \E j \in 1 .. n : f[j] = at[i]
    BY <1>3, <1>5
  <2>2. QED
    BY <1>6, <2>1
<1>8. back \in [1 .. m -> 1 .. n]
  BY <1>6, <1>7
<1>9. \A i \in 1 .. m : views[back[i]] = before[i]
  BY <1>3, <1>5, <1>7
<1>10. \A i, j \in 1 .. m : back[i] = back[j] => i = j
  BY <1>5, <1>7
<1>11. Embeds(1 .. m, before, views)
  BY <1>4, <1>8, <1>9, <1>10 DEF Embeds
<1>12. QED
  BY <1>1, <1>4, <1>11

\* A summary of more views counts no fewer and spans no less.
LEMMA SummariesGrow ==
  ASSUME NEW before, Timed(before), NEW views, Timed(views),
         Embeds(1 .. Len(before), before, views), NEW g \in Groups(before)
  PROVE  /\ SummarizeViews(views, g).count >= SummarizeViews(before, g).count
         /\ SummarizeViews(views, g).first <= SummarizeViews(before, g).first
         /\ SummarizeViews(views, g).last >= SummarizeViews(before, g).last
<1> DEFINE Own(s) == {i \in 1 .. Len(s) : <<s[i].account, s[i].section>> = g}
           Times(s) == {s[i].at : i \in Own(s)}
<1>1. ASSUME NEW s, Timed(s)
      PROVE  /\ SummarizeViews(s, g).count = Cardinality(Own(s))
             /\ SummarizeViews(s, g).first = Min(Times(s))
             /\ SummarizeViews(s, g).last = Max(Times(s))
             /\ IsFiniteSet(Own(s))
             /\ IsFiniteSet(Times(s)) /\ Times(s) \subseteq Int
  <2>1. DOMAIN s = 1 .. Len(s) /\ Len(s) \in Nat
    BY <1>1 DEF Timed
  <2>2. /\ SummarizeViews(s, g).count = Cardinality(Own(s))
        /\ SummarizeViews(s, g).first = Min(Times(s))
        /\ SummarizeViews(s, g).last = Max(Times(s))
    BY <2>1 DEF SummarizeViews
  <2>3. IsFiniteSet(Own(s))
    <3>1. IsFiniteSet(1 .. Len(s)) /\ Own(s) \in SUBSET (1 .. Len(s))
      BY <2>1, FS_Interval
    <3>2. PICK T : T = Own(s)
      OBVIOUS
    <3>3. QED
      BY <3>1, <3>2, FS_Subset
  <2>4. Times(s) \subseteq {s[i].at : i \in 1 .. Len(s)}
    OBVIOUS
  <2>5. PICK T : T = Times(s)
    OBVIOUS
  <2>6. IsFiniteSet(T) /\ T \subseteq Int
    BY <1>1, <2>4, <2>5, TimesAreFinite
  <2>7. QED
    BY <2>2, <2>3, <2>5, <2>6
<1>2. PICK A, B, a, b : A = Own(before) /\ B = Own(views) /\ a = Times(before) /\ b = Times(views)
  OBVIOUS
<1>3. PICK at \in [1 .. Len(before) -> 1 .. Len(views)] :
        /\ \A i \in 1 .. Len(before) : views[at[i]] = before[i]
        /\ \A i, j \in 1 .. Len(before) : at[i] = at[j] => i = j
  BY DEF Embeds
<1>4. /\ SummarizeViews(before, g).count = Cardinality(A) /\ SummarizeViews(views, g).count = Cardinality(B)
      /\ SummarizeViews(before, g).first = Min(a) /\ SummarizeViews(views, g).first = Min(b)
      /\ SummarizeViews(before, g).last = Max(a) /\ SummarizeViews(views, g).last = Max(b)
      /\ IsFiniteSet(A) /\ IsFiniteSet(B) /\ IsFiniteSet(a) /\ IsFiniteSet(b) /\ a \subseteq Int /\ b \subseteq Int
  BY <1>1, <1>2
<1>5. \A i \in A : i \in 1 .. Len(before) /\ at[i] \in B
  BY <1>2, <1>3
<1>6. a \subseteq b
  BY <1>2, <1>3, <1>5
<1>7. a # {}
  <2>1. DOMAIN before = 1 .. Len(before)
    BY DEF Timed
  <2>2. PICK i \in 1 .. Len(before) : <<before[i].account, before[i].section>> = g
    BY <2>1 DEF Groups, ToSet
  <2>3. i \in A
    BY <1>2, <2>2
  <2>4. QED
    BY <1>2, <2>3
<1> HIDE DEF Own, Times
<1>8. Cardinality(A) <= Cardinality(B) /\ Cardinality(A) \in Nat /\ Cardinality(B) \in Nat
  <2>1. PICK f : f = [i \in A |-> at[i]]
    OBVIOUS
  <2>2. f \in Injection(A, B)
    BY <1>3, <1>5, <2>1 DEF Injection, IsInjective
  <2>3. QED
    BY <1>4, <2>2, FS_Injection, FS_CardinalityType
<1>9. Min(a) \in a /\ Max(a) \in a
  BY <1>4, <1>7, Extremes
<1>10. b # {} /\ Min(b) \in b /\ Max(b) \in b /\ \A x \in b : Min(b) <= x /\ Max(b) >= x
  BY <1>4, <1>6, <1>7, Extremes
<1>11. Min(b) <= Min(a) /\ Max(b) >= Max(a)
  BY <1>6, <1>9, <1>10
<1>12. QED
  BY <1>4, <1>8, <1>11

\* If no view was deleted while the history was read, however it grew and in
\* whatever order it is listed, an item reported unwatched had no view, an
\* inactive one none since the cutoff, and a summary counts every view there
\* was: for any history, page size and number of changes (report.go:47, :117, :172).
THEOREM HistoryReports == Spec => []HistoryReportsAreTrue
<1>1. ReportInv => HistoryReportsAreTrue
  <2> SUFFICES ASSUME ReportInv, History \in DOMAIN reads, ~reads[History].removed
               PROVE  LET before == Began(History) IN
                      /\ Done("unwatched") => \A x \in UnwatchedItems(Items, Views) : x.key \notin Viewed(before)
                      /\ Done("inactive") =>
                           \A x \in InactiveItems(Items, Views, Cutoff) :
                             \A v \in ToSet(before) : v.key = x.key => v.at < Cutoff
                      /\ Done("summary") =>
                           \A g \in Groups(before) :
                             /\ SummarizeViews(Views, g).count >= SummarizeViews(before, g).count
                             /\ SummarizeViews(Views, g).first <= SummarizeViews(before, g).first
                             /\ SummarizeViews(Views, g).last >= SummarizeViews(before, g).last
    BY DEF HistoryReportsAreTrue
  <2>1. PICK before, rows, items : before = Began(History) /\ rows = Rows(History) /\ items = Items
    OBVIOUS
  <2>2. /\ before \in Seq(Held(History)) /\ rows \in Seq(Held(History)) /\ Embeds(DOMAIN before, before, rows)
    <3>1. ReadOK(History, reads[History])
      BY DEF ReportInv
    <3>2. QED
      BY <2>1, <3>1 DEF ReadOK, Began, Rows
  <2>3. ASSUME NEW s \in Seq(Held(History)) PROVE Timed(s)
    <3>1. \A i \in 1 .. Len(s) : s[i] \in Held(History) /\ s[i].at \in Int
      BY ReportsAssumption
    <3>2. s \in [1 .. Len(s) -> {s[i] : i \in 1 .. Len(s)}] /\ Len(s) \in Nat
      OBVIOUS
    <3>3. s \in Seq({s[i] : i \in 1 .. Len(s)})
      BY <3>2
    <3>4. QED
      BY <3>1, <3>3 DEF Timed
  <2>4. Timed(before) /\ Timed(rows)
    BY <2>2, <2>3
  <2>5. PICK views : views = NormalizeViews(rows) /\ Timed(views) /\ Embeds(1 .. Len(before), before, views)
    BY <2>2, <2>4, NothingIsLost
  <2>6. Views = views
    BY <2>1, <2>5 DEF Views
  <2>7. ToSet(before) \subseteq ToSet(views)
    <3>1. DOMAIN before = 1 .. Len(before) /\ DOMAIN views = 1 .. Len(views)
      BY <2>4, <2>5 DEF Timed
    <3>2. PICK at \in [1 .. Len(before) -> 1 .. Len(views)] : \A i \in 1 .. Len(before) : views[at[i]] = before[i]
      BY <2>5 DEF Embeds
    <3>3. QED
      BY <3>1, <3>2 DEF ToSet
  <2>8. \A x \in UnwatchedItems(items, views) : x.key \notin Viewed(before)
    BY <2>7 DEF UnwatchedItems, Viewed
  <2>9. ASSUME NEW x \in InactiveItems(items, views, Cutoff), NEW v \in ToSet(before), v.key = x.key
        PROVE  v.at < Cutoff
    <3>1. PICK S : S = {w.at : w \in {w \in ToSet(views) : w.key = x.key}}
      OBVIOUS
    <3>2. Max(S) < Cutoff
      BY <2>9, <3>1 DEF InactiveItems, LatestViewedAt
    <3>3. v.at \in S
      BY <2>7, <2>9, <3>1
    <3>4. S \subseteq {views[i].at : i \in 1 .. Len(views)}
      <4>1. DOMAIN views = 1 .. Len(views)
        BY <2>5 DEF Timed
      <4>2. QED
        BY <3>1, <4>1 DEF ToSet
    <3>5. IsFiniteSet(S) /\ S \subseteq Int
      BY <2>5, <3>4, TimesAreFinite
    <3>6. Max(S) \in S /\ Max(S) >= v.at
      BY <3>3, <3>5, Extremes
    <3>7. Max(S) \in Int /\ v.at \in Int /\ Cutoff \in Int
      BY <3>3, <3>5, <3>6, ReportsAssumption
    <3>8. QED
      BY <3>2, <3>6, <3>7
  <2>10. ASSUME NEW g \in Groups(before)
         PROVE  /\ SummarizeViews(views, g).count >= SummarizeViews(before, g).count
                /\ SummarizeViews(views, g).first <= SummarizeViews(before, g).first
                /\ SummarizeViews(views, g).last >= SummarizeViews(before, g).last
    BY <2>4, <2>5, SummariesGrow
  <2>11. QED
    BY <2>1, <2>6, <2>8, <2>9, <2>10
<1>2. QED
  BY <1>1, ReportStart, ReportStep, PTL DEF Spec
=============================================================================
