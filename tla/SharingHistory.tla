--------------------------- MODULE SharingHistory ---------------------------
(***************************************************************************)
(* The local history of revoked shares (internal/sharinghistory): a SQLite *)
(* table whose timestamps are text.  A timestamp is an instant with the    *)
(* offset its text was written in: rows of older versions carry one, and   *)
(* text compares by the local time it shows.  Every opening except the     *)
(* read-only one of the dry run rewrites the timestamps in UTC first.      *)
(***************************************************************************)
EXTENDS Integers, FiniteSets, SequencesExt, Selections

CONSTANTS Snapshots,        \* what a record may say of a share
          Offsets,
          MaxTime,          \* bound of the clock
          InitialRows       \* the tables older versions may have left

VARIABLES rows,             \* [id, at, offset, share]
          database,         \* the file exists
          clock

historyVars == <<rows, database, clock>>

Times == 0 .. MaxTime
Row == [id : Nat, at : Times, offset : Offsets, share : Snapshots]

HistoryTypeOK ==
  /\ rows \subseteq Row
  /\ \A r, s \in rows : r.id = s.id => r = s
  /\ rows # {} => database
  /\ clock \in Times

HistoryInit ==
  /\ rows \in InitialRows
  /\ database = (rows # {})
  /\ clock = MaxTime - 1

Text(r) == r.at + r.offset
FormatTimestamp(t) == t     \* the text of an instant in UTC

NormalizeNothing(rs) == rs
NormalizeTimestamps(rs) == {[r EXCEPT !.offset = 0] : r \in rs}

\* The directory, the file, the schema or the normalization may fail: the
\* file may then exist, the table is as it was.
OpenDatabase(ok) ==
  /\ database' \in IF ok THEN {TRUE} ELSE {database, TRUE}
  /\ UNCHANGED clock

NextIdCounts(rs) == 1 + Cardinality(rs)
NextId(rs) == 1 + Max({0} \cup {r.id : r \in rs})

\* After the opening the statement may still fail, alone.
Inserted(share) == NormalizeTimestamps(rows) \cup
  {[id |-> NextId(rows), at |-> clock, offset |-> 0, share |-> share]}

AppendRecord(share, ok) ==
  /\ OpenDatabase(ok)
  /\ rows' \in IF ok THEN {Inserted(share)} ELSE {rows, NormalizeTimestamps(rows)}

Before(rs, cutoff) == {r \in rs : Text(r) < FormatTimestamp(cutoff)}

PurgeBefore(cutoff, ok) ==
  /\ OpenDatabase(ok)
  /\ LET opened == NormalizeTimestamps(rows)
     IN rows' \in IF ok THEN {opened \ Before(opened, cutoff)} ELSE {rows, opened}

\* The dry run parses every timestamp and changes nothing.
CountBeforeReadOnly(rs, cutoff) == Cardinality({r \in rs : r.at < cutoff})

\* ORDER BY removed_at DESC, id DESC.
Newer(r, s) == Text(r) > Text(s) \/ (Text(r) = Text(s) /\ r.id > s.id)
Newest(all) == {p \in all \X all : Newer(p[1], p[2])}
Listed(rs) == InOrder(NormalizeTimestamps(rs), Newest(NormalizeTimestamps(rs)))

\* A missing file is an empty list, and stays missing.
List(ok) ==
  /\ database
  /\ OpenDatabase(ok)
  /\ rows' \in IF ok THEN {NormalizeTimestamps(rows)} ELSE {rows, NormalizeTimestamps(rows)}

\* Whatever the table holds, a purge deletes as many records as its dry run
\* counts (history.go:135 and :176), and the list names every record once,
\* newest first by the instant (history.go:198).
HistoryQueriesAgree ==
  LET listed == Listed(rows) IN
  /\ \A cutoff \in Times :
       CountBeforeReadOnly(rows, cutoff) = Cardinality(Before(NormalizeTimestamps(rows), cutoff))
  /\ \A i, j \in DOMAIN listed : i < j => listed[i].at >= listed[j].at
  /\ {r.id : r \in ToSet(listed)} = {r.id : r \in rows}
  /\ Len(listed) = Cardinality(rows)
=============================================================================
