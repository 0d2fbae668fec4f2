------------------------------ MODULE Analyses ------------------------------
(***************************************************************************)
(* The analyses of the read-only reports (internal/librarymaintenance,     *)
(* internal/libraryintegrity, internal/historyreport and                   *)
(* internal/containeraudit): functions of the sequences that were listed.  *)
(* An item is [section, key, title, type, guid, thumb, media], a medium a  *)
(* sequence of [ref, size]; a view is [key, at, account, section,          *)
(* duration].  The order of the rows is a matter of presentation and left  *)
(* out, except of the export.                                              *)
(***************************************************************************)
EXTENDS Integers, SequencesExt, FiniteSets, Selections

CONSTANTS FoldedTitle,      \* titles without spacing and case
          NormalMedia,      \* item types of the maintenance previews
          EligibleMedia,    \* item types of the history reports
          NoKey, NoThumb,   \* a missing rating key, a missing thumbnail
          Unknown,          \* an undeclared size, an unreported duration
          MaxBytes          \* the largest sum of part sizes

Total(numbers) == FoldSeq(+, 0, numbers)
Repeats(seq) == Len(seq) # Cardinality(ToSet(seq))

(***************************************************************************)
(* Maintenance previews.                                                   *)
(***************************************************************************)
IsNormalMedia(item) == item.type \in NormalMedia /\ item.key # NoKey
Normal(items) == SelectSeq(items, IsNormalMedia)
SameGroup(x, y) == x.section = y.section /\ FoldedTitle[x.title] = FoldedTitle[y.title]

\* A group is of distinct rating keys: an item that was listed twice is one.
RepeatedTitles(items) ==
  {x \in ToSet(Normal(items)) : Len(SelectSeq(Normal(items), LAMBDA y : SameGroup(x, y))) > 1}
Duplicates(items) ==
  {x \in ToSet(Normal(items)) : \E y \in ToSet(Normal(items)) : SameGroup(x, y) /\ x.key # y.key}

Unmatched(items) == {x \in ToSet(Normal(items)) : ~x.guid}
ProbedThumbs(items) == {x \in ToSet(Normal(items)) : x.thumb # NoThumb}
MissingPosters(items, failed) ==
  {x \in ToSet(Normal(items)) : x.thumb = NoThumb \/ x \in failed}

(***************************************************************************)
(* Integrity reports.  The sizes are summed up before any of them, and a   *)
(* sum that does not fit is an error.                                      *)
(***************************************************************************)
Parts(items) == FlattenSeq([i \in DOMAIN items |->
  LET parts == FlattenSeq(items[i].media)
  IN [j \in DOMAIN parts |-> parts[j] @@ [section |-> items[i].section, item |-> items[i].key]]])

Storage(items, section) ==
  LET own(x) == x.section = section
      known == SelectSeq(Parts(items), LAMBDA p : own(p) /\ p.size # Unknown)
      unknown == SelectSeq(Parts(items), LAMBDA p : own(p) /\ p.size = Unknown)
      owned == SelectSeq(items, own)
  IN [section |-> section, items |-> Len(owned),
      media |-> Total([i \in DOMAIN owned |-> Len(owned[i].media)]),
      known |-> Len(known), unknown |-> Len(unknown),
      bytes |-> Total([i \in DOMAIN known |-> known[i].size])]
StorageRows(items) == {Storage(items, x.section) : x \in ToSet(items)}

ValidateItems(items) == \A x \in ToSet(items) : x.key # NoKey
Fits(items) == \A row \in StorageRows(items) : row.bytes <= MaxBytes

DuplicateParts(items) ==
  SelectSeq(Parts(items), LAMBDA p : Len(SelectSeq(Parts(items), LAMBDA q : q.ref = p.ref)) > 1)

SuspiciousParts(items) ==
  {<<x.key, "no_media">> : x \in {y \in ToSet(items) : y.media = <<>>}}
  \cup {<<x.key, "no_parts">> : x \in {y \in ToSet(items) : <<>> \in ToSet(y.media)}}
  \cup {<<p.item, "zero_bytes">> : p \in {q \in ToSet(Parts(items)) : q.size = 0}}

(***************************************************************************)
(* History reports.                                                        *)
(***************************************************************************)
\* compareViews orders the views of one instant by their other fields; what is
\* reported here does not depend on the order among them, so it is left to the
\* listing's.
Earlier(v, w) == v.at < w.at
EarlierViews(views) ==
  {p \in (DOMAIN views) \X (DOMAIN views) :
     \/ Earlier(views[p[1]], views[p[2]])
     \/ ~Earlier(views[p[2]], views[p[1]]) /\ p[1] < p[2]}
NormalizeViews(views) ==
  LET sorted == InOrder(DOMAIN views, EarlierViews(views)) IN [i \in DOMAIN views |-> views[sorted[i]]]

IsEligibleMediaItem(item) == item.type \in EligibleMedia /\ item.key # NoKey
Eligible(items) == ToSet(SelectSeq(items, IsEligibleMediaItem))
Viewed(views) == {v.key : v \in ToSet(views)} \ {NoKey}

\* The first view of an item instead of its latest.
FirstViewedAt(views, key) == Min({v.at : v \in {w \in ToSet(views) : w.key = key}})
LatestViewedAt(views, key) == Max({v.at : v \in {w \in ToSet(views) : w.key = key}})

UnwatchedItems(items, views) == {x \in Eligible(items) : x.key \notin Viewed(views)}
InactiveItems(items, views, cutoff) ==
  {x \in Eligible(items) : x.key \in Viewed(views) /\ LatestViewedAt(views, x.key) < cutoff}

Groups(views) == {<<v.account, v.section>> : v \in ToSet(views)}
SummarizeViews(views, group) ==
  LET own == {i \in DOMAIN views : <<views[i].account, views[i].section>> = group}
      at == {views[i].at : i \in own}
      timed == {i \in own : views[i].duration # Unknown}
  IN [count |-> Cardinality(own), first |-> Min(at), last |-> Max(at),
      duration |-> IF timed = {} THEN Unknown ELSE MapThenSumSet(LAMBDA i : views[i].duration, timed)]

(***************************************************************************)
(* Container audits.  A repeated or missing identifier is an error.        *)
(***************************************************************************)
Keys(rows) == [i \in DOMAIN rows |-> rows[i].key]
Occurrences(keys, key) == Len(SelectSeq(keys, LAMBDA k : k = key))
DuplicateKeys(rows) == {k \in ToSet(Keys(rows)) : Occurrences(Keys(rows), k) > 1}
Audit(rows) == [empty |-> rows = <<>>, keys |-> ToSet(Keys(rows)), duplicates |-> DuplicateKeys(rows)]
=============================================================================
