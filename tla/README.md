# Verification of expo-open-ota

expo-open-ota is a self-hosted server for Expo over-the-air updates.  Developers
publish updates with the `eoas` command line; the server (Go) keeps them in a
bucket (a local directory, S3 or GCS), caches what it reads (in process or in
Redis), and answers the requests of devices for manifests and assets.  This
directory holds TLA+ models of it, the TLC runs that check them and the proofs
that TLAPS checks.

## 1. The system

| Component | State | Operations | Correct when |
|---|---|---|---|
| Publication: upload, mark, rollback, republish (`internal/handlers`, `internal/update`, `eoas`) | update folders of the bucket: `update-metadata.json`, `metadata.json`, assets, the markers `rollback` and `.check` | `requestUploadUrl`, uploads, `markUpdateAsUploaded`, `rollback`, `republish` | published updates are whole, final and the client's own; a client's answer says what happened |
| Latest-update lookup and prewarm (`internal/update`, `ManifestHandler`) | cache keys `lastUpdate:` (TTL 1800 s), `metadata:`, `manifest:` (no TTL) | lookup, fill, invalidate, prewarm goroutines | answers are published updates of the platform asked for; stale entries end |
| Buckets (`internal/bucket`) | the files; `.migrationhistory` | list, get, put, copy, delete; validation of names | a call fails or does what it says; a missing file is not an error |
| Migrations (`internal/migration`, `v2_migration.go`) | ledger of applied migrations, lock with a TTL of 120 s | run at boot, v1 to v2 re-path | every migration is applied once before data is served |
| Caches (`internal/cache`) | items and sets with expiry | get, set, delete, tryLock, sadd, scard | an expired entry is never answered; maps are written under the write lock |
| Assets (`internal/assets`, `internal/cdn`) | none | resolve an asset against the latest update | a device gets the assets of the manifest it holds |
| Metrics (`internal/metrics`) | sets of client ids in the cache, Prometheus gauges | track active users, errors, downloads | a gauge equals the size of its set |
| `eoas` CLI (`apps/eoas`) | none of its own that lasts; the git working tree, the output directory, the Expo config, the key files and the branch on the server, all of which other processes change too | `publish`, `rollback`, `republish`, `init`, `generate-certs` | what a command says it did, it did; it ships the commit it names; without a terminal it never waits |
| Dashboard API (`dashboard_handler.go`) | cached listings | branches, runtime versions, updates, channels, change of a channel's branch | listings catch up with the bucket and with Expo |
| Dashboard session (`internal/auth`, `apps/dashboard/src/lib/api.ts`) | token pair in the browser's local storage, which all tabs share | login, renewal, repetition of a refused request, logout, routes | a request ends with an answer or for a reason; who logs out stays out |
| Dashboard pages (`apps/dashboard/src`) | the selected app, the queries that react-query keeps, the open sheet, the toasts | select an app, follow the tables, change a branch, open details | a page shows what it says it shows |
| Expo API, configuration, key store, router | none that changes after start | | |

How they interact: a publish is a chain of HTTP requests of one client (request
upload URLs, PUT every file, mark), repeated by `fetchWithRetries` when the
connection breaks.  The other commands of `eoas` are chains of the same kind, with
files and git at their beginning.  The dashboard is a page in a browser that talks to
the dashboard API, whose listings the server keeps in its cache.  On the server every
request runs in its own goroutine.  Goroutines share
nothing but the bucket and the cache, and neither has transactions: the order of
single reads and writes is all the synchronisation there is.  Marking an update
invalidates cache keys and starts one prewarm goroutine per platform, which runs
the same lookup as a device request.

What is hard on the server: interleavings of lookups with the writes of a publish;
check-then-act on a cached latest update; retried requests; ids taken from a clock;
failing calls whose error is dropped; crashes between two writes; a lock that expires.
On the side of the developer: sources that change between the check of the repository,
the commit hash and the export; parallel requests of which one fails; commands that
share an output directory; questions nobody answers.  In the browser: answers that
arrive after the app, the session or the page has changed.  `PROJECT.json` lists each of
these under `hazards`, at its line.

## 2. Plan

1. `UpdatePublication`: publication, the lookup and its caches (this is the core).
   `ReleaseLog`: what publication promises, as an append-only log.
   `PublicationInvariant`: the inductive invariant, and three modules of proofs.
2. `Migration`: boot of several servers, lock, ledger, v1 to v2 re-path on the three
   stores.  `DataMove`: what the re-path promises.  `MigrationInvariant`,
   `MigrationProofs`.
3. `EoasProject` and `EoasCommand`: the command line.  `EoasCommandInvariant`,
   `EoasCommandProofs`.
4. `DashboardSession`, `DashboardSessionProofs`: tokens and requests of the browser.
5. `DashboardPages`: what the browser shows.  `DashboardPagesInvariant`,
   `DashboardPagesProofs`, `DashboardChannelsProofs`.
6. `AssetServing`: manifest and assets resolved at different times.
7. The mutex of `LocalCache`; the sets and gauges of the metrics; the listings of
   branches, runtime versions and updates of the dashboard API.

Items 1 to 5 and their proofs are done; 6 and 7 are not begun.

The modules meet where one component's step is the environment of another.  What the
server does with a request of a client is `UpdatePublication`; `EoasCommand` has the
client whole and takes for the server's answer any that `UpdatePublication` allows, and
`DashboardPages` has the part of the server that its pages depend on.  They are not
composed into one state space: a publish has 15 stages and a lookup 8, and nothing but
requests and answers passes between them.

## 3. Modules

### UpdatePublication

Scope: one app, one branch, one runtime version, as every bucket path and cache
key carries the three; several platforms, which share the list of folders.

* `bucket[u]` is the folder of update id `u`: `stored` is the platform in
  `update-metadata.json` (and `uuid` whether the update UUID is in it), `meta` what
  `metadata.json` describes, `assets` the files present, `rollback` and `check` the
  markers.  File contents are abstracted to members of `Content`.
* `lastUpdate`, `metadataCache` are the cache keys.  `lastUpdate` may expire at any
  time; `metadata:` entries never do.
* Clients (`cpc`, `want`, `mine`, `sent`, `serving`) are runs of `eoas publish` for
  one platform; a publish of all platforms is two of them.
* Handlers, readers and prewarm goroutines (`pc`, `op`, `upd`, ...) are goroutines.
  A step is one bucket or cache access whose effect others can see.  Guards of
  `RepublishHandler` that read three files are one step: nothing undoes a published
  update's files one by one.  Writing one file is one step.  Deleting a folder is one
  step: only folders without `.check` are deleted, unless a mark is retried.
* A lookup lists the folders in one step, oldest first and cut off at `ListLimit`, and
  then reads the metadata and the `.check` of one folder in each step (`unread`,
  `cands`).  An `S3Bucket` reads one page of the listing, 1000 folders; a local directory
  and GCS list them all.
* Under `io_error` a call fails.  Where the code reports it the request ends
  (`FailedCall`); where it drops it the code goes on with what that looks like: a folder
  whose metadata or `.check` cannot be read is passed over, a latest update that cannot be
  listed is none, a `.check` that is not written counts as written, and a rollback whose
  marker cannot be read is republished as if it were an update.
* `Env` switches on what the environment may do: retries, equal timestamps, early
  marks, crashes (with the in-process cache lost, or a Redis cache kept), failing
  bucket calls.
* A clock that steps back is not modelled; `clock` only grows.
* The history variable `floor` records the latest published update at the moment a
  lookup listed the folders; nothing but a property reads it.
* `X_Y` above `X` is `X` with a plausible bug, used to see that the properties
  notice; no action uses it.

### ReleaseLog

The abstract specification: a log of releases that grows by one whole release at a
time; a client is acknowledged for, and a reader answered with, a member of the log.
`UpdatePublication!ImplementsReleaseLog` maps the log to the folders with `.check`.

### PublicationInvariant, UpdatePublicationProofs, PublicationSafetyProofs, PublicationRefinementProofs

See section 5.

### MCUpdatePublication

Instantiates the module for TLC.  Clients, handlers and readers are symmetric.

### Migration

Scope: one application, its directories at the root of the bucket, and the server
processes that boot on it, on each of the three stores.

* `store` is the kind of bucket, chosen at the start and never changed.
* `root[e]` and `app[e]` are the files of directory `e` at `{branch}/...` and at
  `{appId}/{branch}/...`; `v1` is what `root` was when v2 was first started and never
  changes.  A v1 branch with one update stands for a directory, as `MoveRootEntriesUnder`
  treats the updates of a branch independently on an object store, and as a whole in a
  local directory.  Files are numbered in the order of a listing: `.check` sorts before
  every other key of an update and `update-metadata.json` after.
* `ledger` holds the lines of `.migrationhistory`, `locked` the keys `migration-lock`:
  one for all processes with Redis, one for each with the in-process cache.
* `pc`, `at`, `applied`, `todo`, `listed`, `history` are the local variables of
  `RunMigrationsWithLock` and what it calls.  A step is one call to the cache or the
  bucket: `TryLock`; reading the ledger; the loop; the two listings (`Confirm`,
  `ListObjects`); each copy, delete or rename; the two reads and the write of
  `ApplyMigration`, which S3, GCS and a local file do differently.
* The collision check and the listings are one step each, so a listing of several
  pages is taken as one.  `Confirm` on a local directory likewise.
* An error that the code reports ends in `log.Fatalf`.  Those that the model can foresee
  have actions (`RefuseCollision`, `RenameFails`, `CopyFails`, `DeleteFails`); all others
  leave the bucket as a crash does, and `Crash` stands for them.
* Some errors of reads the code drops, and `Dropped` says which of these may happen.
  "branch": what cannot be read in a local directory does not look like a v1 branch, and
  is skipped.  "ledger": a local ledger that cannot be opened is an empty one, one on S3
  ends where the read broke off (`Remnants`), and the second read of S3 may end within a
  line, which then is no line any more (`Torn`).  GCS reports its errors.  `misreads`
  counts them.
* `Publish` is the first upload request of a v2 publish to a branch that v1 had: it
  creates the directory below the application id.  Its files are not in `app`: update
  ids of v1 and v2 differ.

### DataMove

The abstract specification of the re-path: objects at an old and a new place, and a flag
that says that the move is recorded.  Objects are copied, deleted once they are copied, or
renamed together; the flag is set when none of those to be moved is left.  It may be
cleared again, as a ledger that is put as a whole can lose a line.
`Migration!ImplementsDataMove` maps the places to `root` and `app` and the flag to the
ledger.

### MigrationInvariant, MigrationProofs, MCMigration

The inductive invariant, its proof and the instance for TLC; see section 5.

### EoasProject

What the commands work out from files, flags and environment, as functions: the
package runner (`packageRunner.ts`), the server and the application id of `updates.url`
(`expoConfig.ts`), which files git or EAS ignores (`vcs/local.ts`), the workflow of a platform, the
runtime version with and without a CLI that can tell it (`workflow.ts`,
`runtimeVersion.ts`), and the files to upload (`assets.ts`).  A URL is its origin and
the segments of its path.

### EoasCommand

Scope: one project and one branch, and any number of commands, each run once by a
developer at a terminal or by a CI job, several at a time if they like.

* The stage of a command is `pc`; `PublishStages` and its like say which follows which,
  in the order of the `run()` method.  A stage is an action: it is what the command does
  between two awaits that others can notice.  A question is a stage of its own, as the
  world goes on while nobody answers; `Ask` ends a command that has no terminal.
* The sources are a number, `tree`, that grows with every change by anyone; `head` is
  the number git has committed, `changes` what `git status` shows.  So "older sources"
  and "the very sources" can be said, and nothing else about them can.
* `dist` holds for each output directory what is in it: which command put it there, from
  which sources, for which platforms.  `sent` is what of that was read and uploaded.
* A stage that waits with `Promise.all` has its requests in `open`; each is answered,
  refused, repeated by `fetchWithRetries` or left behind by a command that exits.
  What nobody waits for any more (`InFlight`) goes to `late`, and the server may serve it
  at any time after that, or never: before or after the repeat, and after the exit.
* `released` is what the server serves; `published` and `deleted` are what it ever has
  published and deleted.  It may take an update, find it identical to one it has or had
  (`Same`), itself not excepted, and delete it, or fail; it may also take an update that
  is deleted by then, and serve nothing, as a mark does that finds no metadata.  These are
  the answers of `UpdatePublication` and their effects.
* `answer` is what the command was told of a platform.  `"deployed?"` and `"identical?"`
  are those to a mark that was repeated: the server may have served the first one too, or
  may come to it later and then withdraw what it has just confirmed.
* `certs` are the three key files with the command that wrote each.
* `dirtied` is a history variable: the commands during which the sources were changed by
  someone else.  Only properties read it.

### EoasCommandInvariant, EoasCommandProofs, MCEoasCommand

The inductive invariant, the theorems, and the instance for TLC with its projects,
configs and command lines.

### DashboardSession, DashboardSessionProofs

Scope: one browser and all its tabs, which share the two tokens.

* A token is the time it was issued at; the server takes it while it is young enough.
* A call of `ApiClient` is idle, awaits its answer, awaits the renewal of the token, or
  is over.  A request is refused by the token it was sent with (`bearer`), and renewed
  and sent again with the one that is stored by then.
* `excused` and `signedOut` are history variables, of calls during which the session was
  lost for a reason, and of a logout that nothing under way can undo.
* A renewal also stores the new token under a third key, `accessToken` (`api.ts:81`), which
  logout leaves there.  Nothing reads it, and it is left out.

### DashboardPages, DashboardPagesInvariant, DashboardPagesProofs, DashboardChannelsProofs, MCDashboardPages

Scope: a tab on the Channels or on the Updates page, another tab that selects an app,
and a server that may be deployed again with other apps.  A behaviour stays on one of the
two pages, but that the Channels page may be left for another one and opened again
(`LeaveChannels`, `OpenChannels`).

* `selected`, `apiApp` and `stored` are the app in the context, in the `ApiClient` and in
  the local storage; react-query's keys use the first and its fetches the second.
* `cache` has an entry for every key: its data, whether the last fetch failed, and the
  fetch under way, which joins or cancels as react-query does (external code, modelled
  from how `src/` uses it).
* A listing carries the app it is of, what was asked and a version of the channels, so
  that two listings can be told apart by these and nothing else.
* `Serve` is the server's part of a fetch and may answer from its own cache (`oldest`),
  for the apps it lists and no other (`Answers`); `ServeChange` and `DropListings` are the
  change of a channel's branch and the invalidation that follows it, two steps of the
  server.
* The refetch after a change is one of the query that the page showed last: under the app
  selected by then or, when the page was left before, under the one selected at that time
  (`left`, `ChannelsOfChange`).  It goes to the app that the `ApiClient` has by then.
* A toast is dismissed by its user and removed by a timer; ids wrap at `IdModulus`.  In the
  code that is 2^53 - 1, and `FewToasts` says that no tab shows as many toasts.
* `place` and `sheet` are the way into the Updates page, which is in its URL, and the
  open details.

## 4. Runs

| Run | Bounds | Environment | Shows |
|---|---|---|---|
| `publish` | 2 clients, 2 handlers, 1 reader, 1 platform, 2 contents, 2 ids | crashes | safety of all interleavings, and the refinement of `ReleaseLog` |
| `publish_failures` | 2 clients, 2 handlers, 2 platforms, 1 content | crashes, failing calls, reads whose error is dropped | `Inv`; platforms do not mix |
| `publish_settles` | 1 client, 2 handlers, 1 reader, 1 content | crashes, retries, early marks | liveness: stale entries end |
| `migrate` | 2 servers, 2 directories of 3 files, 1 crash, 1 failing read | local, S3 and GCS, a cache for each server, reads of the ledger that fail unnoticed | safety of the move and the ledger, and the refinement of `DataMove`; liveness: v1 data is moved for good |
| `eoas_alone` | 1 command of any kind, 6 projects, 2 configs, 9 command lines, 1 retry, 3 changes | lost answers, late requests, refusals, ctrl-c, edits | what a command says it did, it did, and it ends |
| `eoas_together` | 2 commands, at least one of them a publish, no retry, 3 changes | the same | uploads before releases; commits and exports of two publishes; where a config says that is rewritten meanwhile |
| `dashboard_session` | 2 calls, times 0 to 3, lives 1 and 2, 2 failures | failing network, logout in any tab | requests fail for a reason; who logs out stays out; every request ends |
| `dashboard_pages` | 2 apps, 2 lists of apps, 2 changes of a channel, 4 clicks, 1 selection, 1 redeployment, 1 incident: an error, a focus or a page that is left | another tab, a redeployed server, errors | each page shows what it says: the channels, the selection, the sheet; toasts |
| `retry_withdraws`, `rollback_masked`, `move_not_resumed`, `app_mixed_up` | small | one of each | disagreements between the code and its docs, comments or tests, see `findings` |

Bounds of publication.  Two ids are what an update and its successor need: an update
and its rollback or its copy, or two updates.  Two handlers are what a race needs, and
each brings its prewarm goroutines.  With three the run no longer ends in minutes; the
proofs are for any number.  A handler serves one request.  `ListLimit` is 2, so that
listings are whole.  With 1 in `publish.cfg`, which stands for the 1000 of S3, the second
update is like the 1001st there: TLC finds `ScanIsFresh` violated.

Bounds of the migration.  Two servers are what a race for the lock, a move or the
ledger needs.  Directories differ in their files (`Described`: a complete update, one
that was never checked, a directory that is no update at all), so two of them cover a
v1 branch next to a foreign directory, and two branches.  Three files are the two
markers and one that is none.  In `migrate` every server has a lock of its own, which is
the harder case for safety, as any two may move at once, and the one in which the move
is always completed.  `move_not_resumed` has the shared lock of Redis, and the safety
theorems cover both.  One read of the ledger that fails makes a server do again what was
done.  That a branch cannot be read (`"branch"` in `Dropped`) is not in `migrate`, as most
of its properties do not hold then: section 5 says which do.

Bounds of `eoas`.  `eoas_alone` runs every kind of command over projects that are
managed or bare, with or without git, Expo, certificates and a CLI that knows runtime
versions, with a config that is there or not; `Retries = 1` lets a request be served
twice.  `eoas_together` has what only two can do to each other: a publish at
a terminal, an `init` that rewrites the config or a rollback that commits, next to a
publish in CI with the same or another output directory.  Three changes are one by the
developer and one by each command, in any order.

Bounds of the dashboard.  Two calls are a renewal and another request that meets it, or
two renewals.  The lives 1 and 2 make a token run out before its refresh token, and
time 3 is after both.  Of apps, changes and clicks there are as many as it takes to go
away and come back, to change a channel again after the first change was reported, and to
open a sheet after another, with a rollback that shares its UUID among them.  A behaviour
has an error, a focus or a page that is left, and no two of them; the proofs are for any
number of each.  `app_mixed_up` selects another app and the
first one again, and has no redeployment.  Two toast ids let an id
come again while its timer still runs.

Deadlock is checked where a system can always go on.  A run says
`CHECK_DEADLOCK FALSE` where it may really stop: in `publish_failures` and the small
runs of publication there is no reader, or all handlers are used and the clock is at its
bound; servers that have started go on serving, which is not a step once every branch
has been published to; each command of `eoas` and each call of the dashboard is made
once; what users do on the dashboard's pages is bounded.

Fairness.

* `publish_settles`: goroutines of the Go scheduler are weakly fair, and a TTL runs out:
  `WF` of handler steps, of lookup steps, and of expiry.  Nobody is assumed to publish,
  upload or read.
* `migrate`, `move_not_resumed`: a process that ended is started again, as an
  orchestrator does, a process that runs goes on, and the lock expires.
  `EventuallyMigrated` holds in `migrate` because with an in-process cache the lock dies
  with its holder; `move_not_resumed` shows that with Redis it does not.  It excepts a
  branch named like the application id, which the code refuses at every boot.  With
  Redis a server that skipped the migration may also take a publish to a branch that is
  not moved yet; in a local bucket the directory this creates makes the rename fail from
  then on (`RenameFails`), and the data stays where it is.
  `RestCanBeMoved` says so as a safety property, and no run checks it: with two servers,
  one local directory and `SharedCache = TRUE` TLC finds it violated without a crash, with
  `SharedCache = FALSE` it holds.
* `eoas_alone`: a process goes on, a request is answered or times out, and whoever
  started an interactive command answers its questions.  `republish` may ask to choose
  from an empty list; there the developer is assumed to give up with ctrl-c.
* `dashboard_session`: a request is answered or times out.  `EventuallyAnswered` excepts
  a login with a wrong password, which with an old refresh token in the storage repeats
  itself.

## 5. Proofs

All theorems are about `Spec`, so they hold with any fairness, and for every value of
the constants that the named assumption of the module allows.  Each module of proofs
has a lemma for each action, which names what the action leaves alone and shows the
conjuncts it can disturb.

### Publication

They hold for any number of clients, handlers, readers, platforms, contents,
assets and update ids, under `ConstantsAssumption`.

| Theorem | Environment | States |
|---|---|---|
| `TypeCorrect` | any | `Spec => []TypeOK` |
| `InvariantHolds` | `Orderly` | `Spec => []Inv` |
| `PublishedAreComplete`, `AnswersArePublishedUpdates`, `IdenticalArePublished` | `Orderly` | the properties they are named for |
| `AckedArePublished` | `Orderly`, `Reliable` | the same |
| `ScansAreFresh` | `Orderly`, `Reliable`, `ListsAll` | the same |
| `PublishedAreFinal` | `Orderly` | `Spec => PublishedIsImmutable` |
| `LogImplemented` | `Orderly`, `Reliable` | `Spec => ImplementsReleaseLog` |

`Orderly` allows crashes and failing bucket calls, and excludes retries, two requests
in one millisecond and early marks; `Reliable` excludes failing bucket calls; `ListsAll`
says that a listing returns every folder, as an `S3Bucket` does for up to 1000 updates.
None is a convenience: each excluded behaviour breaks a property.  `retry_withdraws` shows it
for retries.  With a listing that is cut off, `ListLimit = 1`, TLC finds `ScanIsFresh`
violated: on S3 the newest of more than 1000 updates is never listed, so devices get an old
one and a new update is compared with that.  With `io_error` TLC finds
`AckedIsPublished` violated: an error of the
write of `.check` is dropped (`updates.go:100`), so the client is told 200 for an update
that no lookup takes.  With `same_ms` or `early_mark` in `Env` of a small instance it
finds `AckedIsPublished` (two platforms, one folder) and `PublishedIsComplete` violated.

`TypeOK` is not inductive alone: a lookup indexes the cache with its platform, and a
copy the bucket with its source; `Addressed` says that whoever is at work has them.

The argument for `Inv`.  Update ids come from a clock that moves on, so every id has
one owner, a client or a handler (`OwnId`, `OwnWork`), and a mark handler works on
the id of the client it serves (`Served`).  Only the owner writes into the folder, so
the folder holds what the owner's stage says (`ClientStage`, `MarkStage`,
`RollbackStage`, `RepublishStage`): that gives completeness at the moment `.check` is
written, and as nobody writes after it, for good.  Folders of ids that the clock has
not reached are empty (`NothingAhead`).  Metadata is cached only from a file that is
final or of a folder that is being deleted (`CachedMetadata`), so comparing the cached
copies is comparing the files, which is what an answer of 406 needs.  A scan only
holds folders whose platform is settled (`LookupStage`), and the latest published update
at the time of the listing stays among those still to be read or already read until it is
scanned, so it is not passed over: that is `ScanIsFresh`.  A copy of a rollback, which a
dropped error lets through, holds what a rollback holds (`RepublishStage`).  The proof has a
lemma per action; `HandlerFrame` and `LookupFrame` collect what a step of a handler or
a lookup leaves alone.

The refinement maps the log to the folders with `.check` (`Log`), acknowledgements to
clients that were told 200 (`Acked`), and answers to readers that found an update
(`Answered`).  `WriteCheck` is the step that publishes; a client's answer, a cache hit
and a cache fill map to steps of the log; a crash or the end of a read forgets
answers; everything else stutters (`QuietStep`).

`NewestIsMaximum` is the only lemma about data: a non-empty set of ids has a maximum.
It follows from the well-foundedness of strict inclusion on finite sets, as induction
with an operator parameter is out of the provers' reach.

Model-checked only: liveness (`EventuallyFresh`), which is out of the prover's reach,
and what holds under `retry`, `same_ms` and `early_mark`.

### Migration

For any number of servers, directories, files, crashes and reads of the ledger that fail
unnoticed, on each store, with a shared or an own lock, under `MigrationAssumption`:

| Theorem | Assumes | States |
|---|---|---|
| `MigrationTypeCorrect`, `NothingIsLost` | | `TypeOK`, `NothingLost` |
| `MigrationInvariantHolds` | | `Spec => []Inv` |
| `ForeignAreUntouched` | `BranchesRead` | `ForeignUntouched` |
| `RecordedAreMoved`, `MovedOnce` | `Describes`, `BranchesRead` | `RecordedIsMoved`, `MovesOnlyOnce` |
| `MoveImplemented` | `Describes`, `BranchesRead` | `Spec => ImplementsDataMove` |

`Inv` has two parts.  `Conserved` holds whatever the directories contain: a server that
moves has only v1 branches on its lists (`Placed`) and deletes only what it has copied
(`Copied`), and a copy is never deleted, so every file stays at one of its two places.
`Completed`, which `Inv` claims under `Describes` and `BranchesRead`, says that nothing
left to move is overlooked: what is left of a branch is
still recognised by the next run (`Recognised`), everything left is on the list of
each server that moves, and a server that is done, or has read a ledger that says so,
leaves nothing behind (`Covers`).  That covers a server that lost its lock in the
middle and writes an old ledger back.  It needs `Describes`, that every update of v1
has `update-metadata.json`, the file a listing names last.  Without it, which the test for
a v1 branch allows, `.check` is moved first, and after a crash nothing marks the files
left: with `V1Shape <- CheckedOnly` TLC finds `RecordedIsMoved` violated.  And it needs
`BranchesRead`, that a local directory can be read: a branch that cannot is left behind with
the move recorded, so that no later boot moves it, and a collision that cannot be read is
not seen.  With `Dropped = {"branch"}` TLC finds `RecordedIsMoved` violated by one server
and one branch; `NothingLost` and `Inv` hold then too.  No assumption is made on reads of the
ledger: what they miss makes a migration run again, and what is written back after them
only drops lines (`Covers` speaks of `history`).  The lock plays no part in any proof: safety does not depend
on it, which is why its TTL does no harm to the data.

The refinement maps the copy of an object, its deletion and the rename of a directory to
the steps of `DataMove` of that name, on one object or all of a branch (`CopyPromised`,
`DeletePromised`, `RenamePromised`).  A deletion that finds its object gone, as S3 allows,
is a stutter.  A step that leaves the objects alone records the move or drops the record
(`LedgerPromised`), and `Completed` is what makes recording allowed.

Model-checked only: `EventuallyMigrated`.

### The eoas commands

For any number of commands with any command lines, projects, configs, output
directories and platforms, any number of retries and changes, under
`CommandAssumption`:

| Theorem | States |
|---|---|
| `CommandsTypeCorrect` | `TypeOK` |
| `UploadsComeFirst` | `LiveAfterUploads`: nothing is served before every file of every platform is stored |
| `CommitsAreNotLater` | `NamesNoLaterCommit`: what is sent is not older than the commit it names |
| `CommitIsShipped` | `ShipsItsCommit`: and the very commit, if nobody edits meanwhile |
| `ExportsStayApart` | `OwnExport`: exports in directories of their own are not mixed |
| `NonInteractiveNeverAsks` | `PublishNeverAsks` |
| `SuccessIsTrue` | `SuccessIsReleased`: an exit code of 0 is true for every platform whose mark was answered at the first try |
| `KeysAreOnePair` | `KeysMatch` |
| `AppsPollForIt` | `ReleasedWherePolled`: what is released is on the server and under the app that the config names |

`IInv` is `TypeOK`, what holds of the world (`WorldHolds`: no commit is newer than the
sources, no changes means committed), and `Local(c)` for each command: where it may be
(`PcHolds`), what of its requests is outstanding and answered (`RequestsHold`,
`AnswersHold`, `KeysHold`), what it has released (`ReleasesHold`), and how commit,
directory and sources are related at its stage (`CommitHolds`, `OwnHolds`, `ShipsHold`).
It is needed because the properties speak of the last stage and the reasons lie in the
first: `ShipsItsCommit` is about what is sent, and rests on a repository that was clean
when the hash was read, an output directory that was emptied after that and is
written from sources that have not changed since, three conjuncts of `ShipsHold` for three
ranges of stages.  A step of one command changes the world of the others, so the proof has
two parts: a lemma for each action that its own `Local` is preserved, and a frame lemma
that says what of the world an action may change, with which `Local` of the others
is preserved.  Commits of another command advance `head` only to `tree`; that is
why they do no harm.

`SuccessIsReleased` promises that the update is served where the command was told so
without doubt, and that "identical" was about another update, one that is or was
published.  `AnswersHold` is the reason: no request for such an update is still under way
(`Coming`), so nothing can come later and withdraw it.  Where an answer to a mark was lost
the answer to the repeat proves nothing, as the first request may be served last, find the
update itself and delete it.  `DeployedIsReleased`, which is what `publish.ts` reports to the
developer, leaves this exception out; no run checks it, and with one publish in CI (`InCI`) and
one retry TLC finds it violated by just that.

`AppsPollForIt` has an invariant of its own, `PolledInv`, that stands on `IInv`: from the
stage after the reading of the config on (`PastConfig`), the server and the app a command
goes by are those of the URL it has read, and its releases are for these.  It does not
mention the config as it is now, which `init` may have rewritten.  The property speaks of
a path that ends with `<app>/manifest`, the form the server routes; for any other the
application id is taken from the header, and nothing is claimed about the path.  Beside
`CommandAssumption` as before it uses that a segment of a path is never empty.

Model-checked only: `EventuallyExits`.

### The dashboard's session

For any number of calls, any lives of the tokens and any number of failures, under
`SessionAssumption`: `SessionTypeCorrect` (`TypeOK`), `FailuresHaveReasons`
(`FailsForAReason`) and `LoggedOutStaysOut` (`LoggedOutStays`).  `IInv` adds to the
properties that whoever is under way without a session has an excuse
(`NoSessionExcuses`), that a call has an outcome only when it is over (`OutcomeAtEnd`),
and that after a logout nothing is under way that sets tokens (`SignedOutHolds`).

Model-checked only: `EventuallyAnswered`.

### The dashboard's pages

For any apps, updates, lists of apps and bounds, under `PagesAssumption` (a server lists
at least one app, as `config/apps.go` refuses an empty list), `NoneAssumption` and, for
the toasts, `FewToasts`:

| Theorem | States |
|---|---|
| `TypeCorrect` | `TypeOK` |
| `SelectionOffered`, `SheetsShowTheirRows` | `SelectionIsOffered`, `SheetShowsItsRow` |
| `TablesShowWhatWasSet` | `ShowsWhatWasSet`: under "Branch updated" a table with channels of the app that was changed has the change |
| `ToastsStay` | `OnlyDismissedVanish`: no timer removes a toast that nobody dismissed |
| `PagesInvariant` | `Inv`, the invariant behind the last two |

`IInv` says that the selected app is one of the known list
(`SelectionHolds`), that the URL and the sheet name something there is (`PlaceHolds`),
and of every entry of react-query's cache that its data and the fetch under way have the
UUID in its key (`EntriesHold`): that is what a sheet relies on when the app changes
under it.

`ShowsWhatWasSet` has premises.  The table must have channels of the app that was changed:
after a selection it may have another app's, which `app_mixed_up` shows, and then says
nothing of the change.  Its last fetch must not have failed, as the data is then the one
before.  The page must not have been left under another app before the change was
answered, as the refetch is then that app's.  And the server must not have cached, after
the change, a listing it was making before (`raced`), which it answers with until the
listing's TTL has run out.

The property needs `ChannelsInv`.  A change goes through the server, which has it
(`ListingsHaveIt`), before the page refetches; the danger is a fetch that was served
before the change and arrives after it.  Either the app of the change is
still selected, or was when the page was left, and then
the refetch cancels that fetch; or another app was selected, and then its fetch was cancelled
by that, unless there was no data yet (`LeftIsCancelled`); but a row that is changed had data
(`ChangedWasShown`).  So from the refetch on neither the fetch under way
nor the data is older than the change (`RefetchedIsNew`).

`OnlyDismissedVanish` needs `ToastsInv`: there are at most as many toasts as changes that
are over, so with `FewToasts` the ids so far are all different (`NewIdIsNew`), and the
timers that run are those of earlier ones.  The cardinality counts changes that have not
shown their toast yet (`Unreported`).

## 6. Not modelled

* Asset serving and the CDN redirect: a request reads one file of the update that is
  the latest by then and keeps nothing.  That a device may hold an older manifest is
  listed as a hazard; no doc promises which of the two it gets.
* Metrics: counters and gauges that nothing in the system reads.
* `LocalCache`: `Get` deletes an expired entry under the read lock, which is below the
  grain of a model in which a call to the cache is one step.
* The dashboard's listings of branches, runtime versions and updates on the server:
  they are functions of the bucket with a TTL, and change with no request of the
  dashboard.  The channels, which do, are in `DashboardPages`.
* Expo account and channel lookups, the configuration of apps, the key store, signing,
  JWT claims, path validation, compression, the router: functions of a request, or
  values read once at start.
* `RollbackLastMigration` and `RemoveMigrationFromHistory`: no command calls them.
* Of `eoas`: shallow copies of the repository and the check for case sensitivity, which
  no command calls, logging and spinners.
* Of the dashboard: rendering, sorting, the settings page and the generated components.
* A clock that steps back.  With one no promise about the newest update would hold.
