---------------------------- MODULE PagedListing ----------------------------
(***************************************************************************)
(* Listings of the PMS client (internal/pms/client.go): the playback       *)
(* history, the items of a section, the playlists or the collections of a  *)
(* section, the items of one of those.  A listing is a chain of requests   *)
(* for a page at an offset; between two of them the server's data change,  *)
(* and an answer may be short or lack what proves a listing complete.      *)
(***************************************************************************)
EXTENDS Integers, SequencesExt

CONSTANTS History,          \* the key of the playback history
          InitialStores,    \* what a server may hold: [key -> sequence of records],
                            \* the history with the oldest view first
          MayArrive,        \* [key -> records that may be added to what it names]
          NewestFirst,      \* the orders a server may list the history in
          PageSize, MaxChanges,
          Absent            \* a number the answer leaves out

ASSUME PagedListingAssumption ==
  /\ \A s \in InitialStores : /\ DOMAIN s = DOMAIN MayArrive
                              /\ \A key \in DOMAIN s : s[key] \in Seq(ToSet(s[key]))
  /\ PageSize \in Nat \ {0}
  /\ NewestFirst \subseteq BOOLEAN
  /\ Absent \notin Int
  /\ Absent \notin DOMAIN MayArrive

\* What a server may ever hold under a key.
Held(key) == MayArrive[key] \cup UNION {ToSet(s[key]) : s \in InitialStores}

VARIABLES store, newestFirst, changes,
          listing,          \* [key, total, got]; the next offset is Len(got)
          seen              \* of the properties: what was there at the first page,
                            \* and whether something came or went since

serverVars == <<store, newestFirst, changes>>
listingVars == <<listing, seen>>

NoListing == [key |-> Absent, total |-> Absent, got |-> <<>>]
NotSeen == [began |-> <<>>, added |-> FALSE, removed |-> FALSE]

ListingInit ==
  /\ newestFirst \in NewestFirst
  /\ \E s \in InitialStores : store = [s EXCEPT ![History] = IF newestFirst THEN Reverse(@) ELSE @]
  /\ changes = 0
  /\ listing = NoListing
  /\ seen = NotSeen

Start == Len(listing.got)
FirstPage == listing.total = Absent

(***************************************************************************)
(* Answers: a page as asked for, or a shorter one; one of a server that    *)
(* ignores the offset or the paging; one without a number, or with another *)
(* size than it carries.  What the server does not hold is only answered   *)
(* with an error.                                                          *)
(***************************************************************************)
PageOf(from, n) ==
  LET all == store[listing.key]
      items == SubSeq(all, from + 1, IF from + n < Len(all) THEN from + n ELSE Len(all))
  IN [items |-> items, size |-> Len(items), offset |-> from, total |-> Len(all)]

Answers ==
  LET pages == {PageOf(Start, n) : n \in 0 .. PageSize} IN
  IF listing.key \notin DOMAIN store THEN {} ELSE
  pages \cup {PageOf(0, PageSize)}
    \cup UNION {{[p EXCEPT !.offset = Absent], [p EXCEPT !.total = Absent],
                 [p EXCEPT !.size = p.size + 1]} : p \in pages}

\* The history may grow while it is read; anything else may not change size.
AnyTotal(total) == TRUE
TotalAllowed(total) ==
  \/ FirstPage
  \/ IF listing.key = History THEN total >= listing.total ELSE total = listing.total

ProvesNothing(page) ==
  \/ page.size # Len(page.items)
  \/ page.offset # Start
  \/ page.total = Absent

Refused(page) ==
  \/ ProvesNothing(page)
  \/ page.total < Start + page.size
  \/ ~TotalAllowed(page.total)
  \/ page.size = 0 /\ Start # page.total      \* no progress

Complete(page) == Start + page.size = page.total

(***************************************************************************)
(* The server's data: a view is added at the end the order says, another   *)
(* record anywhere, and any record may go.                                 *)
(***************************************************************************)
Places(key) ==
  IF key # History THEN 1 .. Len(store[key]) + 1
  ELSE IF newestFirst THEN {1} ELSE {Len(store[key]) + 1}

Arrives(key) ==
  \E x \in MayArrive[key], i \in Places(key) :
    /\ x \notin ToSet(store[key])
    /\ store' = [store EXCEPT ![key] = InsertAt(@, i, x)]
    /\ seen' = [seen EXCEPT !.added = @ \/ listing.key = key]

Goes(key) ==
  \E i \in DOMAIN store[key] :
    /\ store' = [store EXCEPT ![key] = RemoveAt(@, i)]
    /\ seen' = [seen EXCEPT !.removed = @ \/ listing.key = key]

ServerChanges ==
  /\ changes < MaxChanges
  /\ changes' = changes + 1
  /\ \E key \in DOMAIN store : Arrives(key) \/ Goes(key)
  /\ UNCHANGED <<newestFirst, listing>>
=============================================================================
