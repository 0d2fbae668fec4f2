------------------------------ MODULE Reports ------------------------------
(***************************************************************************)
(* The read-only reports over a server's library and playback history:     *)
(* history report, library maintenance preview, library integrity report,  *)
(* playlists audit and collections audit (internal/cli/root.go).  A report *)
(* lists what it needs, one listing after the other, probes what it        *)
(* listed, and analyses the whole; any error ends it without a row.        *)
(***************************************************************************)
EXTENDS PagedListing, Analyses

CONSTANTS Sections,         \* sequence of the section keys the server lists
          MediaSections,    \* those of a type that holds media
          Playlists,        \* the key of the list of playlists
          CollectionsOf,    \* the key of each section's list of collections
          Cutoff,           \* of the inactive report
          EverySection      \* no --section

Lists == {Playlists} \cup {CollectionsOf[s] : s \in ToSet(Sections)}
LibraryKeys == DOMAIN MayArrive \ {History}

\* The server answers for whatever it lists, and the time of a view is a number.
ASSUME ReportsAssumption ==
  /\ History \in DOMAIN MayArrive
  /\ Sections \in Seq(LibraryKeys) /\ Lists \subseteq LibraryKeys
  /\ \A l \in Lists : \A x \in Held(l) : x.key \in LibraryKeys \cup {NoKey}
  /\ Cutoff \in Int /\ \A v \in Held(History) : v.at \in Int

VARIABLES report,           \* [mode, selected, phase, todo, failed]
          reads             \* reads[key]: a finished listing, and what was seen of it

vars == <<serverVars, listingVars, report, reads>>

HistoryModes == {"export", "summary", "unwatched", "inactive"}
PreviewModes == {"duplicates", "missing-posters", "unmatched"}
IntegrityModes == {"storage", "unavailable-media", "duplicate-parts", "suspicious-parts"}
ContainerModes == {"empty-collections", "playlists", "collections"}
Modes == HistoryModes \cup PreviewModes \cup IntegrityModes \cup ContainerModes

ReportTypeOK ==
  /\ report.mode \in Modes
  /\ report.phase \in {"idle", "listing", "done", "failed"}
  /\ DOMAIN reads \cup ToSet(report.todo) \subseteq DOMAIN store
  /\ listing.key \in DOMAIN store \cup {Absent}
  /\ listing.total # Absent => Len(listing.got) <= listing.total
  /\ \A key \in DOMAIN reads : Len(reads[key].rows) = reads[key].total

ReportInit ==
  /\ ListingInit
  /\ report \in [mode : Modes, selected : {EverySection} \cup ToSet(Sections),
                 phase : {"idle"}, todo : {<<>>}, failed : {{}}]
  /\ reads = <<>>

(***************************************************************************)
(* What a report lists.  The history is read before the items it is        *)
(* compared with; an integrity report leaves out a section without media   *)
(* even when it is the selected one; a list of containers is read before   *)
(* the items of each.                                                      *)
(***************************************************************************)
LibraryMaintenanceSections ==
  LET named(s) == report.selected \in {EverySection, s}
      scanned(s) == \/ s \in MediaSections \/ report.mode \in HistoryModes
                    \/ (report.selected = s /\ report.mode \notin IntegrityModes)
  IN Among(Sections, {s \in ToSet(Sections) : named(s) /\ scanned(s)})

ToList ==
  LET sections == LibraryMaintenanceSections
      collections == [i \in DOMAIN sections |-> CollectionsOf[sections[i]]]
  IN CASE report.mode \in {"export", "summary"} -> <<History>>
       [] report.mode \in {"unwatched", "inactive"} -> <<History>> \o sections
       [] report.mode \in {"empty-collections", "collections"} -> collections
       [] report.mode = "playlists" -> <<Playlists>>
       [] OTHER -> sections

Phase(phase) == report' = [report EXCEPT !.phase = phase]
Abandons == Phase("failed") /\ listing' = NoListing /\ UNCHANGED <<serverVars, seen, reads>>

\* collections audit requires --section.
Begin ==
  /\ report.phase = "idle"
  /\ report.mode = "collections" => report.selected # EverySection
  /\ report' = [report EXCEPT !.phase = "listing", !.todo = ToList]
  /\ UNCHANGED <<serverVars, listingVars, reads>>

NextListing ==
  /\ report.phase = "listing" /\ listing = NoListing /\ report.todo # <<>>
  /\ listing' = [NoListing EXCEPT !.key = Head(report.todo)]
  /\ report' = [report EXCEPT !.todo = Tail(@)]
  /\ UNCHANGED <<serverVars, seen, reads>>

Listing == listing # NoListing

MorePages ==
  /\ Listing
  /\ \E page \in Answers :
       /\ ~Refused(page) /\ ~Complete(page)
       /\ listing' = [listing EXCEPT !.total = page.total, !.got = @ \o page.items]
       /\ seen' = IF FirstPage THEN [NotSeen EXCEPT !.began = store[listing.key]] ELSE seen
  /\ UNCHANGED <<serverVars, report, reads>>

\* Identifiers a listing or its caller refuses.
BadIdentifiers(key, rows) ==
  \/ NoKey \in ToSet(Keys(rows)) /\ (key \in Lists \/ report.mode = "playlists")
  \/ key = Playlists /\ Repeats(Keys(rows))

LastPage ==
  /\ Listing
  /\ \E page \in Answers :
       LET rows == listing.got \o page.items
           now == IF FirstPage THEN [NotSeen EXCEPT !.began = store[listing.key]] ELSE seen
       IN /\ ~Refused(page) /\ Complete(page) /\ ~BadIdentifiers(listing.key, rows)
          /\ reads' = [key \in DOMAIN reads \cup {listing.key} |->
               IF key # listing.key THEN reads[key]
               ELSE [began |-> now.began, added |-> now.added, removed |-> now.removed,
                     rows |-> rows, total |-> page.total]]
          /\ report' = [report EXCEPT !.todo = (IF listing.key \in Lists THEN Keys(rows) ELSE <<>>) \o @]
  /\ listing' = NoListing
  /\ seen' = NotSeen
  /\ UNCHANGED serverVars

\* A page or an identifier is refused, or a request of any kind fails.
Fails ==
  /\ report.phase = "listing"
  /\ Abandons

(***************************************************************************)
(* What was listed.                                                        *)
(***************************************************************************)
Rows(key) == IF key \in DOMAIN reads THEN reads[key].rows ELSE <<>>
Began(key) == IF key \in DOMAIN reads THEN reads[key].began ELSE <<>>
InSections(rows) == FlattenSeq([i \in DOMAIN Sections |->
  LET listed == rows[Sections[i]] IN [j \in DOMAIN listed |-> listed[j] @@ [section |-> Sections[i]]]])
Items == InSections([s \in ToSet(Sections) |-> Rows(s)])
Views == NormalizeViews(Rows(History))
Containers == {key \in DOMAIN reads : \E l \in Lists \cap DOMAIN reads : key \in ToSet(Keys(Rows(l)))}

AnalysisFails ==
  \/ report.mode \in IntegrityModes /\ ~(ValidateItems(Items) /\ Fits(Items))
  \/ /\ report.mode \in {"playlists", "collections"}
     /\ \/ \E l \in Lists : Repeats(Keys(Rows(l)))
        \/ \E c \in Containers : NoKey \in ToSet(Keys(Rows(c)))

\* The rows of a report about items.
Result(items) ==
  CASE report.mode = "duplicates" -> Duplicates(items)
    [] report.mode = "unmatched" -> Unmatched(items)
    [] report.mode = "missing-posters" -> MissingPosters(items, report.failed)
    [] report.mode = "storage" -> StorageRows(items)
    [] report.mode = "duplicate-parts" -> DuplicateParts(items)
    [] report.mode = "suspicious-parts" -> SuspiciousParts(items)
    [] OTHER -> {}

Listed == report.phase = "listing" /\ listing = NoListing /\ report.todo = <<>>

\* Thumbnails and parts are probed one by one; any probe may fail.
ProbeThumbs ==
  /\ Listed /\ report.mode = "missing-posters"
  /\ \E failed \in SUBSET ProbedThumbs(Items) :
       report' = [report EXCEPT !.phase = "done", !.failed = failed]
  /\ UNCHANGED <<serverVars, listingVars, reads>>

\* One failed probe of a part is an error of the whole report (see Fails).
ProbeParts ==
  /\ Listed /\ report.mode = "unavailable-media" /\ ~AnalysisFails
  /\ Phase("done")
  /\ UNCHANGED <<serverVars, listingVars, reads>>

Analyse ==
  /\ Listed /\ report.mode \notin {"missing-posters", "unavailable-media"} /\ ~AnalysisFails
  /\ Phase("done")
  /\ UNCHANGED <<serverVars, listingVars, reads>>

ServerStep == ServerChanges /\ UNCHANGED <<report, reads>>

ReportNext ==
  \/ Begin \/ NextListing \/ MorePages \/ LastPage \/ Fails
  \/ ProbeThumbs \/ ProbeParts \/ Analyse
  \/ ServerStep

Spec == ReportInit /\ [][ReportNext]_vars

(***************************************************************************)
(* What a listing and a report promise.                                    *)
(***************************************************************************)
Exact(key) == ~(reads[key].added /\ reads[key].removed)

\* A listing that completes is what the server held when it began, unless
\* records came and went between its pages (client.go:153); of the history,
\* which may grow meanwhile (client.go:534), nothing is lost if none went.
ListingsAreExact ==
  \A key \in DOMAIN reads :
    LET r == reads[key] IN
    /\ (key # History /\ Exact(key)) \/ ~r.added => r.rows = r.began
    /\ ~r.removed => ToSet(r.began) \subseteq ToSet(r.rows)

Done(mode) == report.phase = "done" /\ report.mode = mode

\* If no view was deleted while the history was read, however it grew and in
\* whatever order it is listed: an item reported unwatched had no view when
\* the report began, an inactive one none since the cutoff, and a summary
\* counts every view there was (report.go:47, :117, :172).
HistoryReportsAreTrue ==
  History \in DOMAIN reads /\ ~reads[History].removed =>
    LET before == Began(History) IN
    /\ Done("unwatched") =>
         \A x \in UnwatchedItems(Items, Views) : x.key \notin Viewed(before)
    /\ Done("inactive") =>
         \A x \in InactiveItems(Items, Views, Cutoff) :
           \A v \in ToSet(before) : v.key = x.key => v.at < Cutoff
    /\ Done("summary") =>
         \A g \in Groups(before) :
           /\ SummarizeViews(Views, g).count >= SummarizeViews(before, g).count
           /\ SummarizeViews(Views, g).first <= SummarizeViews(before, g).first
           /\ SummarizeViews(Views, g).last >= SummarizeViews(before, g).last

\* However the library changed meanwhile: a duplicate is one of two items with
\* different rating keys, an empty collection held nothing when it was read,
\* and no sum of sizes overflows.  If nothing came and went between the pages,
\* the rows are those of the library and the containers that were there
\* (librarymaintenance/report.go:73, libraryintegrity/report.go:60, :193).
AuditRowsAreReal ==
  /\ Done("duplicates") =>
       \A x \in Duplicates(Items) : \E y \in Duplicates(Items) : SameGroup(x, y) /\ x.key # y.key
  /\ Done("empty-collections") => \A c \in Containers : Rows(c) = <<>> => Began(c) = <<>>
  /\ Done("storage") => \A row \in Result(Items) : row.bytes <= MaxBytes
  /\ report.phase = "done" /\ (\A key \in DOMAIN reads : Exact(key)) =>
       /\ Result(Items) = Result(InSections([s \in ToSet(Sections) |-> Began(s)]))
       /\ \A c \in Containers : Audit(Rows(c)) = Audit(Began(c))
=============================================================================
