# Verification of plexctl

plexctl is a Go command line for Plex Media Servers. Its long-running part is
`plexctl serve`, an HTTP adapter an uptime monitor polls; its other commands
read and change accounts, shares and libraries and end. This directory holds
TLA+ models of the parts whose behaviour depends on interleavings, failures and
time, the TLC runs that check them on small instances, and TLAPS proofs of the
invariants that matter most. Line numbers below refer to `internal/`.

## The system

| component | state | operations | hard because |
|---|---|---|---|
| Shared resolution pool (`monitor/monitor.go`) | registered calls per selector, waiter counts, the `workers` channel, one goroutine and context per call | join or start, wait, leave, publish | many requests share one resolver, any of them may expire or be cancelled at any point, resolvers may hang and ignore their context |
| Request handler (`monitor/monitor.go`) | one request's context, attempt and answer | parse, resolve, back off, retry, check health, answer | deadlines race with results; a retry must be forced; failures are counted for the right profile |
| Failure correlation (`monitor/correlation.go`) | last failure per target, one flag | observe a failure | a pruned window and a sticky flag stand for a history |
| Discovery snapshot cache (`plexauth/client.go`, `ResourceCache`) | snapshot and previous snapshot per account, refresh in flight | read, force, refresh, invalidate | single flight with detached refreshes; a failure must erase |
| Serve resolution (`cli/root.go`) | none of its own | probe cached, profile and discovered endpoints | bounded probes, fallbacks, races on the durable cache |
| Durable connection cache (`connectioncache/cache.go`) | one file: current connection and history per server | load, put, list candidates | read-modify-write, crash during save |
| Credential store (`authstore`) | keyring entries and a fallback file | set, get, delete | two places that can disagree when one of them fails |
| Accounts and configuration (`config`, `cli/root.go`, `cli/import.go`) | one JSON file, credentials | login, logout, use, set, import | partial failures, rollback, two commands at once |
| Plex.tv client (`plexauth/client.go`) | none | PIN login, resources, shares | polling with deadlines, bounded retries |
| Sharing and its history (`cli/sharing.go`, `sharinghistory`) | shares at Plex.tv, an SQLite table | list, invite, update, remove, record, purge | a remote effect followed by a local record |
| PMS client, audits, reports (`pms`, `historyreport`, `librarymaintenance`, `libraryintegrity`, `containeraudit`) | none | paged listings, probes, aggregation | the server changes between pages |
| Health check (`health`) | none | ping, deep check | its deadline races with the monitor's |

How they interact: a request of the monitor enters the handler, which asks the
pool; the pool's goroutine runs serve resolution, which reads the configuration
and the credential store, probes endpoints of the durable cache, asks the
snapshot cache (one per process, shared by all goroutines) and writes the
durable cache. Failures go to the tracker. The other commands share only files
with it: the configuration, the credentials and the history database.

What makes each correct is listed, with the line where it could go wrong, under
"hazards" in PROJECT.json.

## Modules

| module | models | kind |
|---|---|---|
| MonitorTargets | profile identities | constants |
| SharedResolution | the pool | component, inductive invariant |
| CorrelationTracker | the tracker | component |
| CorrelationAudit | the tracker beside the full history of its calls | reference comparison, inductive invariant |
| MonitorHandler | handler, pool and tracker together | composition, implements MonitorContract |
| MonitorContract | what one request may expect, nothing shared | abstract specification |
| ResourceCache | the snapshot cache | component, inductive invariant |
| RecentConnections | a list of different connections, the last one put in front | abstract specification |
| ConnectionCache | the durable cache's file and mutex, at one server | component |
| ServeResolution | resolvers of one profile over the durable cache | composition, implements RecentConnections |
| CredentialStore | keyring and token file, the calls of one store | component |
| Accounts | the commands that change the configuration, over CredentialStore | composition |
| SharingHistory | the SQLite table of revoked shares | component |
| Sharing | the sharing commands, Plex.tv's shares and SharingHistory | composition, inductive invariant |
| PagedListing | one listing, page by page, of data that change | component |
| Analyses | what the reports compute from what was listed | operators |
| Selections | loops that select from a list, and sorting, in a form that can be proved about | operators |
| Reports | the read-only reports over PagedListing and Analyses | composition |
| MonitorProofs, CorrelationAuditProofs, ResourceCacheProofs, ServeProofs, AccountsProofs, SharingProofs, ReportsProofs | | theorems |
| SelectionsProofs | | lemmas on Selections and on recursion over numbers |
| MCSharedResolution, MCMonitorHandler, MCResourceCache, MCServeResolution, MCAccounts, MCSharing, MCReports | | instances for TLC |

### SharedResolution

A *waiter* is one invocation of `resolveWith`; it also names the `*resolveCall`
it creates, if it creates one, so `calls`, `key`, `waiters`, `worker`, `workCtx`
and `result` are functions of waiters, and `NoCall` is the nil pointer.
`workers` is the length of the channel. The steps are the critical sections of
`resolveWith` (StartCall, JoinCall, Refuse), the two arms of its select
(Receive, GiveUp with the three outcomes of `releaseResolutionWaiter`), the
return of the resolver and the critical section of `runResolution` (Publish).
When both arms of the select are ready either may be taken, as in Go.

A request's context is live, past its deadline with the timer still to fire
("due", what `contextTerminalError` sees by the clock and `ctx.Done()` does not
show yet), expired or cancelled. The context changes only how its own request
continues and a context that has ended stays ended, so the check at line 134
and the critical section after it are one step, and so are a select and the
release after it: moving the end of a context behind that step gives a
behaviour with the same shared state.

Resolvers are the environment: one may hang for ever, ignore its context and
return anything of `Answers` at any time. The one thing assumed is that a
resolver reports `context.Canceled` only when its own context was cancelled.
`AnswersOf` also says that a resolver names its selector's profile or none.

### MonitorHandler

One `stage` per request follows `ServeHTTP`; the pool's actions are used as they
are, on the waiters `<<request, 1>>` and `<<request, 2>>`. `Conclude` is all
that follows the resolution up to the answer or the health check, `Fail`
includes the call of the tracker. Left out: a nil `Resolve` and a zero
`Timeout`, which serve never has. The tracker's clock stands still in the
handler's runs, so all failures fall into one window; CorrelationAudit lets it
run.

### CorrelationAudit

The tracker's actions plus a log of its calls. `EventsMatchHistory` computes
from the log alone the event each call should have returned.

### ResourceCache

A snapshot is the number of the refresh that fetched it; numbers grow in the
order in which refreshes started, so "older" is "smaller". Time stamps are kept
as ages that stop growing one tick past the TTL. The critical sections of
`resources` and `refreshResources` are the steps; `client.Resources` lies
between them and either succeeds or fails. `time.Now` is read just before the
lock in `resources`; the model reads it with the lock held. Keys do not interact except
in `Invalidate`, so the run has one account; the proofs cover any number.

### ConnectionCache and ServeResolution

`Put` is two steps, the load and the rename, with the mutex held in between; a
failure of either, or a crash, leaves the file alone. `WithCurrent` and
`AfterPut` are the list operations as the code has them, for files with and
without histories. One account and machine are modelled: nothing in the code
relates two keys but the file itself, which is replaced as a whole.

A resolver goes through `pc` from the candidates ("cached") to "discovering",
"advertised" and the write ("putting", "saving"). A connection is what was
advertised; a probe goes to its `Endpoint`, which replaces `http` by `https`
where `normalizeDiscoveredConnection` does, and is answered by any machine or,
always once the context has ended, by none: who is behind an address may change
between two probes. Discovery returns one of `Snapshots` or an error, and any
snapshot may be the previous one, which is what the snapshot cache allows its
caller. `validated` is a record of who has answered where; no action reads it.
`tried` is the candidates' part that has been probed, also only for properties.
Several resolvers run at once, since forced, normal and abandoned calls of one
selector may overlap. Tokens are left out, and so is the error of building a
client for a URL that was just probed.

### CredentialStore and Accounts

Every command is a process with its own store object, so the store's mutex does
not keep two commands apart. `Set` writes the keyring, then loads and saves the
file; `Delete` loads and saves the file, then deletes from the keyring. Each is
a begin and an end step, between which the file may be changed by another
command and written over by this one. `broken` is what fails at present (the
keyring, reading the file, writing it, writing the configuration); it may
change between any two steps. The keyring and its entries are what the code
may ask of them: one entry per key, all calls failing or none.

`proc[c]` is a command with the configuration it loaded and has changed in
memory. Login, import and logout go from request to request and from credential
to credential; `Save` replaces the file as a whole. The import's journal and its
undoing in reverse order are steps too, and the undoing ignores errors as the
code does. `config init`, `config set`, `config use`, `accounts use` and
`servers use` are one load and one save. `Resources` is the choice between the
legacy list and the JSON list with its attempts; which of the servers validate
is part of `Discoveries`. Left out: output, prompts, and reading what is imported
(the legacy file, standard input or the environment), whose accounts are
`ImportSets`. The credentials start where earlier commands left them: in the
keyring, in the file when the keyring fails, or in both when it once worked,
since `Set` leaves the entry of a keyring that fails.

`quiet`, `contested`, `halfway`, `seen` and the numbering of tokens serve the
properties: a command is quiet while nothing but itself has changed anything
since it loaded; an account is contested once two commands for it overlap, a
logout of it started, or the keyring changed sides; it is half-way once a logout
of it has reported a failure and saved what was left. `seen` is what an import
read of each credential when it loaded, and the token file a logout found.

### SharingHistory and Sharing

A row's time is an instant and the offset its text is written with, so that
comparing text (`Text`) and comparing instants differ until the opening of the
database has normalised the rows. A write that fails after the opening leaves
the normalised rows behind or the old ones.

A sharing command is a chain of requests: servers, users, grants or libraries,
then the one that changes something, then, for `remove`, the record. Between two
of them another command or another client may change the shares. The request
that changes something may be carried out and its answer lost; the record may
fail, or the command be interrupted before it, which for the history is the
same. Shares are identified as Plex.tv lists them; that it lists two of one
identifier is allowed, and refused by the code.

Assumed of Plex.tv: deleting or updating a share it does not have is an error;
the identifier of a revoked share is not used again; who is a Home user does not change while a
command runs. One Plex account is modelled: the commands use the token of the
selected profile, and nothing relates two accounts but the history, which is not
filtered by account. Confirmation and `--dry-run` are the guard of `Begin`: a
command that is not confirmed changes nothing.

### PagedListing, Analyses and Reports

A listing is one request per page. The server answers with a page as asked
for, a shorter one, one from the start although another offset was asked for,
or one whose offset or total is missing or whose size is not that of its items.
`Refused` is the checks of the client; of the history the total may grow,
of everything else it may not change. Between two pages a record may be added or
removed. Views arrive at the end the order says and the order is either one.
A server that echoes the offset it was asked for and sends other records cannot
be told from one whose records moved, so it is not among the answers.

`Reports` runs one report: it lists what its mode and `--section` call for,
probes thumbnails or parts, and analyses. Any error ends the report without a
row. `Analyses` holds the operators, each on the sequences that were listed; a
title is compared by its folded form, a part by its reference, and the sums are
bounded by `MaxBytes` as the code's are by 63 bits. The filters of the history
by account and section are applied by the server, so `History` is what the
server's filter leaves. Probes come after all listings in the model; in the code
some come between, but they read nothing the listings read. One report at a
time is modelled, since reports change nothing.

## Runs

| run | bounds | what it shows |
|---|---|---|
| pool | 3 callers, 1 selector with normal and forced key, 2 slots | slots are never lost or overrun; counts are exact; nobody waits for abandoned work; a live resolver can be joined; nobody is told of somebody else's cancellation |
| handler | 2 requests, 2 selectors of 2 profiles, 1 slot, 2 attempts each, threshold 2 | attempts share only work of their own key; failures keep their profile; late results are discovery failures |
| handler_liveness | 2 requests, 1 selector, 1 slot | the handler implements MonitorContract, liveness included; a full pool recovers when resolvers heed their context |
| correlation | 3 targets and the empty one, 5 ticks, 5 failures, window 2, threshold 2 | the events are those of the full history |
| resource_cache | 3 callers of 1 account, TTL 2 | one refresh at a time; answers are fresh; the previous snapshot is a fallback for one TTL, that tick included; a failure erases; snapshots only advance; callers are answered |
| serve | 2 resolvers, 4 URIs of 3 endpoints, 2 machines, 3 profiles, 3 snapshots, both limits 3 as in the code | the probes before discovery are bounded and include the profile's endpoint; only endpoints of the right machine are used or remembered; what validated is returned, whatever becomes of the context and the write; the durable cache implements RecentConnections |
| accounts | 2 commands of 2 accounts, 2 servers of which the first is shared, 2 events (commands started or parts failing or recovering) | a failed import restores credentials and configuration; a logout names what it left; a saved profile has its account and a credential; the current account and the account of each profile are configured; a command leaves other accounts alone |
| sharing | 2 commands, 2 owned servers and a foreign one, 5 shares, 2 libraries, 1 change by others, 1 removal cut short, 4 instants | what is recorded was revoked, and the reverse; only the share the command selected is touched; dry run, purge and list agree |
| reports | pages of 2 records, 2 changes between requests, 3 sections, 2 collections, 2 playlists, 3 views, either order of the history | what a completed listing says of the server, and what each report's rows say of the library |
| serve_endpoints | as serve | *violated*: the same endpoint is probed twice |
| serve_terminal_cause | as serve | *violated*: a spent budget is reported as a plain discovery failure |
| logout_orphans | as accounts, with 1 command at a time, uninterrupted, nothing broken, 3 events | *violated*: a logout that reports success leaves a credential |

Why the bounds are enough: the pool needs three callers for one to leave, one
to lead a new call under the same key and one to join either, and two slots for
an abandoned and a new worker to coexist; a third slot adds nothing, as no step
looks at more than "full" and "not full". The handler needs two requests to
share and one slot for a forced retry to be refused. The tracker needs
three targets for the threshold to be passed, left and passed again, and a
clock longer than the window. The cache needs a leader, a joiner and a caller
that comes after the refresh. Serve needs two resolvers for their writes to
overlap, four URIs for a list of three to be cut, two URIs of one endpoint, and
a second machine of the same name for a wrong answer.
Accounts needs two commands to overlap, two accounts that share a server for one
to take the other's profile, and a server without a token of its own. Two events
are two commands, or one command and a part that fails half-way; a part that
fails and recovers within one command is the start with a broken keyring and its
repair. Sharing needs two removals of one share, a share that changes between
two requests, one listed twice and one free for an invitation, and old rows
whose text order is not their order in time. Reports needs a page to
be full, partial and empty, and a record to come and another to go within one
listing with the total unchanged; with pages of 2 in place of the code's 100 a
listing of three records has the same cases as one of 201.

`CHECK_DEADLOCK FALSE` stands where requests are finitely many and all answered
in the end, where commands are finitely many and end, and where a report is
done. Symmetry is of callers, requests or commands and used in safety runs only.

The handler's run checks the types of the pool and the tracker with its own; those
of the snapshot cache are a theorem only (`CacheTypes`).

Each property has a mutant in PROJECT.json: a variant of one definition, as a
plausible slip in the code would make it, under which TLC finds the property
violated.

### Findings

* `docs/monitoring.md:56` promises that no URI is probed twice before
  discovery, among at most three distinct endpoints. Candidates are compared by
  the URI they are stored with, and the cache stores the advertised one where
  the profile stores the normalised one: `http://h` and `https://h` are two
  candidates and one endpoint (`NoEndpointTwice`). Each URI as stored is
  probed once (`ProbesAreBounded`).
* `cli/root.go:1915` says that the end of a resolver's context is preserved in
  its error so that the monitor does not retry. It is for discovery, but the
  error of `validatedConnection` does not wrap the context's, so it is lost
  when the context ends during the probes of advertised connections
  (`TerminalCauseIsKept`).
* The comment at `cli/root.go:314` wants a failed deletion surfaced "instead of
  reporting success with orphaned credentials". A profile is keyed by machine
  alone (`cli/root.go:268`), so when a second account logs in to a server it
  shares with the first, the first one's profile is replaced; its credential for
  that server stays, and a later logout of the first account, which goes by the
  profiles, succeeds without deleting it (`LogoutLeavesNoCredential`). What a
  logout does know of it deletes or keeps named (`ConfigNamesWhatIsLeft`).

Seen while modelling, without a run of its own:

* `Delete` drops the keyring's error when a copy in the token file was deleted
  (`authstore/store.go:52`), which suits a host without a keyring
  (`authstore/file_test.go:54`). But `Set` leaves the entry of a keyring that
  fails and writes the file, so a credential can have two copies; if the keyring
  fails at the deletion as well, its copy stays while the logout forgets its
  name and reports success, against the same comment. It is the only copy a
  logout may overlook: `ConfigNamesWhatIsLeft` exempts it (`Overlooked`) and no
  other.
* A history listed newest first that grows between two pages repeats a view.
  `HistoryReportsAreTrue` therefore claims "at least" of the summary's counts;
  an item list that gains one record and loses another can repeat one as well,
  which `duplicate-parts` would show as a duplicate.
* `unavailable-media` prints no rows: a failed probe of a part is an error of
  the whole report (`cli/root.go:966`), as the repository's `README.md:185` says;
  `README.md:161` and `docs/superpowers/specs/2026-09-08-read-only-audit-suite-design.md:33`
  speak of a row per failing part. Likewise an unsafe part reference is an error
  and no row of `suspicious-parts`.
* A logout of an account that is not the current one leaves the current server
  alone, which may be a profile it deleted (another account's login to a shared
  server, `config use`). Nothing says what the current server must be, so
  `ConfigRefersToItself` claims it of accounts only.
* A logout that deleted the account's token and failed at a server's has taken
  the account out of the configuration, so the logout cannot be tried again
  ("not configured"), and the current account is not reset. These accounts are
  `halfway`.
* Of two commands at once the later save undoes the earlier one's, and may bring
  back a profile that was logged out. No lock and no promise says otherwise.
* `ResourceCache.Invalidate` has no caller but the tests. Its step is modelled,
  so the theorems of the cache hold with it.
* The history records the grants that were read before the revocation
  (`cli/sharing.go:319`). A change in the interval between is not seen, as the
  design document says in its line 69 and not in its line 54.
* The maintenance design document lets the total of a listing grow; the client
  refuses it for everything but the history.

### Fairness

`FairSpec` assumes that Go's scheduler runs the handler of an accepted request,
that its timer fires, and that the goroutine of a resolver that has returned
finishes its epilogue, which has no blocking step (the receive from `workers`
never blocks: that is `SlotsAreWorkers`). It assumes nothing of resolvers.
`CapacityRecovers` alone assumes in addition that resolvers return once their
context has ended, as serve's do. `FairCacheSpec` assumes that `client.Resources`
returns, since it runs under a 30 second context, and that a waiting caller is
scheduled when its refresh is done.

## Proofs

Checked by TLAPS, for every value of the constants. Every safety invariant and
every action property of a passing run is a theorem, except the liveness
properties named at the end. The named assumptions on the constants are few:

* sets of waiters are finite, and the values that stand for "none" (nil calls,
  no token, an absent number) are different from the values they stand beside;
* `ServeResolutionAssumption`: connections have a URI of `URIs`, a profile with
  a URL has it as a connection, a snapshot lists connections;
* `AccountsAssumption` and `ConfigAssumption`: an initial configuration was left
  by logins and imports, so the account of each of its profiles is configured;
  an unreadable token file is no table of tokens;
* `SharingAssumption`: shares are records, the server list of an account names
  each machine once (the code refuses another one), old rows are numbered,
  bounded and about other shares;
* `PagedListingAssumption` and `ReportsAssumption`: a server answers for the
  containers it lists, and a view's time is a number.

TLC evaluates each of them on the instance of its run.

**MonitorProofs.** `PoolSafety`: `PoolSpec => []PoolInv`. `PoolInv` joins the
properties of the run and two facts they need to be inductive: calls exist from
the moment their leader started them, and work that ended in its own
cancellation has nobody waiting for it. `WaitersAreCounted` is the crux: the
count tells the expiring caller that it is the last, so its cancellation reaches
nobody else. `SlotsConserved`, `NoLostWaiter`, `SingleFlight`, `CountIsExact`,
`NoBorrowedCancellation`, `RegisteredWorkIsPending` and `PoolTypes` follow.

`HandlerRunsThePool`: `Spec => PoolSpec`. Every step of the handler is a step of
the pool or leaves it alone, so every theorem of the pool holds of the running
monitor (`HandlerKeepsSlots`). `RetriesKeepTheirKey` proves `SharesOnlySameKey`
from an invariant that ties the key of a led or joined call to its request's
selector and attempt. `FailuresKeepIdentity` proves that a failure is counted for
the profile of its own request: `IdentityInv` adds in which stage which attempt
has been made, and that a resolver's target is its selector's profile whoever
waits for it, through the shared call. `HandlerTypes` and `LateRequestsFailDiscovery`
rest on the same invariant. `HandlerImplementsContractSafety` is the safety half
of the refinement: initial states map to initial states of MonitorContract and
every step to a step of its or to a stutter, one lemma per action
(`OneRequestMoves` says how moving one request shows in the contract).

**CorrelationAuditProofs.** `TrackerSummarizesHistory` proves `EventsMatchHistory`:
what the tracker answers from its pruned map is what a window over the whole
history says. `MapSummarizesLog` is the reason: the map holds exactly the targets
that failed within the window of the last counted call, each with its last
failure, and the flag says whether they reached the threshold. That a later call
loses nothing by the earlier pruning needs that the clock never goes back
(`LogIsOrdered`).

**ResourceCacheProofs.** `CacheInv` adds to the properties that the registered
refresh is the running one of its key and that its number is above all that has
finished (`NumbersAreOrdered`); from it follow `RefreshesAreSerialized`,
`FailureErases`, `CacheAdvances`, `AnswersStayFresh` and `CacheTypes`.
`FallbackLasts` adds that the previous snapshot's age is the present one's
(`AgesAgree`), since retention starts when the present one arrives.

**ServeProofs.** `serveCandidates` is a loop that skips what is there and stops at
the limit; the lemmas say that its result is short, without a repeated URI and
with the profile's endpoint in it (`Fine`). `ServeInv` says that what a resolver
has tried and has left to try is one such list (`ProbesBounded`,
`ProfileAlwaysTried`), that one about to remember a connection holds one whose
endpoint answered for the right machine (`UsesOnlyValidated`), and that under the
mutex what a `Put` has read is what the file holds. With the last,
`CacheImplementsRecent` proves that the file with its history, cut to its limit
and written by read, change and rename, implements RecentConnections, whatever
fails or crashes in between. `ValidatedReturns` needs of it only that a resolver
holds a connection exactly while it remembers one.

**AccountsProofs.** Six invariants, each on top of the one before or of the first:
`CommandInv` types every command and says which call of the store fits which
phase (`AccountsTypes`). `KeepInv`: what a command holds differs from what it
loaded only in its own account, and while nobody else has interfered what it
loaded is on disk (`OthersAreKept`). `NamedInv`: each key a logout has passed is
gone, overlooked by `Delete` as described above, or still named by what it will
save (`LeftoversAreNamed`). `RefersInv`: what is on disk, what an import would
restore and what a command holds in memory refer to accounts they have or that
are half-way (`ConfigurationRefers`). `RestInv`: every
journalled credential can be put back and every other one reads as it did
(`Undoable`, `Restorable`), hence `FailuresRestore`; the undoing ignores errors as
the code does, and the proof shows when it may. `ResolveInv`: each configuration
on disk or in a command's memory that may be saved names only credentials that
are held or that the import still writes, and an entry an import would undo is
named by no other configuration (`Unnamed`); `SavedProfilesWork` follows.

**SharingProofs.** `SharingSafety`, for any commands, servers, shares, libraries and
old rows. The argument goes by identifiers: a command that found its share knows
it was the only one listed with that identifier and stays so (`FoundOnce`), hence
after the revocation none is left (`RevokedIsGone`), hence nobody finds or revokes
it again and at most one command is recording it (`RecordingOnce`). A command is
`fresh` from the listing of its share until somebody changes it, and again when
it has read the grants anew and these are all that changed; while it is, its
snapshot is what Plex.tv lists (`FreshIsTrue`), which is what the record will
say (`RecordingIsRevoked`). `RecordsAreTrue` and `NoRevocationForgotten` follow.
The identifiers Plex.tv has given out are a variable (`issued`): numbering new
shares after those present would give out a revoked one's again, under which the
invariant fails. `OnlySelectedSharesChange` needs that what others edit of a
share is neither its user nor its server (`SelectInv`), and that resolving a
selector finds one server. `SharingTypes` types the table. `QueriesOfTheHistoryAgree`
is about any table: comparing normalised text is comparing instants
(`TextIsInstant`), the dry run counts what the purge deletes (`DryRunCounts`), and
the list is sorted and complete (`ListIsSorted`).

**ReportsProofs.** A listing follows the server's data (`Follows`): while nothing
came or went it is a prefix of what was there; if records only went, or only came
to anything but the history, the counts differ for good and the listing cannot
complete; and the history only drifts, so that each view that was there at a
position the listing has passed is in it, as often as it was there (`Embeds`, an
injection of positions that every page extends). `ListingsExact` is what
completing then means. `ReportInv` adds what the reports need of finished
listings: an empty one was empty at its start, a list of containers names only
what the server answers for, sums were checked before a report is done. From it
`ReportTypes`, `AuditRows` and `HistoryReports`, whose counts use the injection and
whose earliest and latest views use that sorting permutes.

**SelectionsProofs.** The loops that select and the loop of `serveCandidates` are
recursive functions, and tlapm does not know that such a function exists. `LoopsExist`
shows it, by the well-foundedness of the naturals (`SmallestOf` and `UpTo` stand
for induction, as the theorems with an operator parameter cannot be used), and
the lemmas say what `Among` returns: an ordered part of the list, all of it that
passes the test. Sorting is by rank: the x-th element is the one with x elements
up to it, so `PutInOrder` (a strict total order on a finite set is listed once
each, in order) needs no recursion.

Only model-checked:

* `CapacityRecovers`, `CallersAreServed` and the liveness of `ImplementsContract`:
  the prover reaches neither fairness (`ENABLED`) nor liveness. The safety of
  the last is proved.
* The findings, which are violations.
* What the analyses return beyond the properties: `SelectSeq`, `FlattenSeq`, `@@`
  and sums of sequences have no meaning for the prover. Where a theorem passes
  through one it holds whatever the operator returns: the exactness of the
  audits because equal lists give equal rows, the storage sums because the
  check of the sums is an action's guard.

## Not modelled

* JSON, XML, CSV and TSV layout, flag parsing and printing, HTTP and TLS set-up,
  the OpenAPI artifact and the scripts: no state, or not the program's logic.
* Requests that stand alone: search, metadata, queues, activities, Butler and
  updater of the PMS client, `sessiondiagnostics` and `maintenancestatus`, which
  copy one answer into rows, and the health check, which the monitor's model
  takes as one call that succeeds, fails or is cut off.
* The polling of a PIN and the waits between the attempts of the JSON list: one
  caller, one loop, nothing shared. The outcome of the attempts is modelled
  (`Resources` of Accounts).
* Appending an export to a file: one write that no other step reads.
* Tokens in serve resolution, and two monitors over one connection cache.

## Plan

1. *Done*: pool, handler, contract, tracker, snapshot cache, and their proofs.
2. *Done*: `ConnectionCache` and `ServeResolution`.
3. *Done*: `CredentialStore` and `Accounts`.
4. *Done*: `SharingHistory` and `Sharing`, with the proofs of what is recorded.
5. *Done*: `PagedListing`, `Analyses` and `Reports`.
6. *Done*: proofs of every safety property of the runs, and of the safety of both
   refinements.
7. Left: an abstract specification of the credential store (one value per key,
   under failures) that CredentialStore implements while no two commands meet;
   of a listing as one atomic read when nothing comes and goes; and the two
   loops of the Plex.tv client (PIN polling, attempts of the JSON list).
