# A verification project for aptly

aptly mirrors Debian repositories, manages local ones, takes snapshots of both
and publishes them. This directory holds TLA+ modules that model its control,
TLC configurations that check them on small instances, and proofs checked by
TLAPS. `PROJECT.json` maps every definition to the lines of Go it models, and
lists the hazards of the code with the properties that cover them.

## The system and its parts

| Part | Code | Where it is modelled |
|---|---|---|
| Mirrors, mirror update | `deb/remote.go`, `cmd/mirror_*.go` | `Catalog`; the downloads in `MirrorDownload` |
| Local repositories | `deb/local.go`, `cmd/repo_*.go` | `Catalog` (not `repo include`) |
| Snapshots | `deb/snapshot.go`, `cmd/snapshot_*.go` | `Catalog`; merge in `RefList`; filter, pull, verify in `PackageList` |
| Published repositories: records | `deb/publish.go`, `cmd/publish_*.go`, `api/publish.go` | `Catalog`, `Publish` |
| Published repositories: files | `deb/publish.go`, `deb/index_files.go`, `deb/contents.go`, `files/public.go`, `s3/public.go` | `Publish`, `IndexFiles` |
| Packages and their records | `deb/package_collection.go`, `deb/checksum_collection.go` | `Catalog`, `PackagePool` |
| Package pool | `files/package_pool.go` | `PackagePool`, which implements `PoolStore`; in one step in `Catalog` |
| Downloader | `http/download.go` | `MirrorDownload` |
| Import of package files | `deb/import.go` | `Catalog`, `PackagePool` |
| db cleanup | `cmd/db_cleanup.go` | `Catalog`, `RefList` |
| Reference lists | `deb/reflist.go` | `RefList` (not Diff and Has) |
| Package lists, dependencies, queries | `deb/list.go`, `deb/package.go`, `deb/query.go` | `PackageList` |
| Versions | `deb/version.go` | `Version` |
| Database layer | `database/leveldb.go`, `context/context.go` | `Catalog` |
| API server | `api/*.go`, `deb/collections.go`, `cmd/api_serve.go` | `ApiServer`; the data of the publish handlers in `Publish` |

Command line processes share one LevelDB database, which one process can open
at a time, one package pool and the published storages. A command is alone
between opening and closing the database, except that `mirror update` closes it
while it downloads. The API server is one process with many goroutines over
cached collections.

## Catalog: the database, the pool and the commands

State: which list records are stored (`rec`), the worker, settings revision and
references of each (`worker`, `conf`, `refs`, `stored`, `sources`), how much of
each package is stored (`parts`, `contents`), the files of the pool and the
temporary downloads in it (`pool`, `tmp`), who has the database open and what
is left to write (`holder`, `pc`, `incoming`, `store`, `writes`, `doomed`,
`unlink`), and the mirror updates under way (`job`). `used`, `moving` and
`waived` are history.

A command is one action: its guards are the checks of the Go function, and it
leaves behind the writes the function makes, in order (`Plan`). `WriteNext`
carries them out key by key; `Crash`, `CrashImporting` and `CrashStoring` may
fall between any two. So a command is atomic in what it reads, which the
exclusive database guarantees, and never in what it writes. A batch of LevelDB
is one write. `mirror update` is the exception and is split at its real
boundaries: mark, close, download file by file, reopen, import file by file,
finalize or fail, unlock.

Abstractions: a package is a key with a set of files; which packages a mirror
offers, or a query or a merge selects, is any set; a mirror's settings are a
revision number. A PID that was reused, or belongs to another user, is not
modelled, nor are database writes that fail. `waived` records three events that
void a guarantee: `mirror update -force` on a mirror being updated (`"force"`);
a cleanup that removes files during the downloads of an update that then
succeeds (`"overlap"`); a snapshot merge that may have stored an unsorted list
(`"order"`). The last two are not hidden: they are the subject of
`CatalogOverlap` and `RefListCleanup`. A merge that overrides matching packages
leaves its result unsorted when a package has several versions (say `a_1`, `a_2`
on the left and `a_5` on the right, in byte order). From then on `Cleanup` may
delete packages that lists refer to, since the subtraction of `db cleanup` relies
on the order. `Catalog` does not compute the order: any merge of two snapshots
that leaves two packages may set `"order"`, and it stays set. Until one does,
cleanup deletes exactly what no list refers to (`CleanupExact` in `RefList`).

## RefList: merge, filter and subtract

The loops of `PackageRefList`, one action per branch, chained as `snapshot
merge` and `db cleanup` chain them. A key is its rank in byte order; its
package, version and the Debian order of versions are functions of the rank,
so byte order and version order can differ.

## ApiServer: locks, cached collections, the open database

Request goroutines fetch a collection from the factory, lock it, defer the
unlock, work and unlock. `RWMutex` is modelled with its waiting writer, which
keeps new readers out. `Flush` replaces the collection objects and their
mutexes. `acquireDatabase` counts requests with `-no-lock`; without it
`cacheFlusher` flushes periodically. A request's effect on data is only which
cached objects the database has overtaken (`stale`).

Some handlers use a collection that they have not locked (`Unlocked`,
`UseUnlocked`): publishing a snapshot goes up to the mirrors and local
repositories it comes from, publishing a repository or dropping a publication
loads snapshots that are published. `CollectionExclusion` and `CacheFresh` say
what holds of these uses: none runs beside a handler that drops a record of the
collection, and the collection is up to date. They do run beside handlers that
add to it or edit it, which is a data race of the code (see the findings).

## Publish and IndexFiles: what clients of a published repository see

`db` are the records, `cache` the collection that a process has loaded, `pub`
the package files on the storage, `site` the directory `dists/<distribution>`
of each distribution. `publish snapshot` and `publish repo`, `update`, `switch`
and `drop` begin with one action each, which has the checks of the handler;
then `op` goes through the phases of `Publish`: it links the package files one
by one, puts the indexes, the Release file and its signatures (under a
temporary name when it re-publishes), renames them one by one, saves the record
and its reference lists key by key, cleans up component by component, or, for a
drop, removes and forgets. `IndexFiles` says what putting and renaming one index
file does, and what each of the five calls of `packageIndexByHash` does to the
by-hash directory: hard link, removal of the target of `.old`, removal of `.old`,
rename, symbolic link. `hashing` says which comes next; `IgnoredError` is a
removal that fails without notice. by-hash is modelled on a storage of files
only (`ByHashAssumption`). Clients see the storage between any two steps.

`Refuse` is an error that the code raises itself (a conflict of package files,
a distribution that does not load), `Abort` a failure of the storage, the
signer or the database, after which a server goes on with the object it has
changed in memory, `Crash` the end of the process. `Flush` reloads a server's
collections but keeps its storages, whose s3 cache of paths (`known`, `listed`)
lives as long as the process; `Reload` is a new process.

`why` records, by distribution, what voids a promise: an operation was
interrupted while it changed what clients see (`torn`); it left a changed object
in the cache (`stale`); `-force-overwrite` replaced a file of another
distribution (`force`); a file of the publication is not there, because the s3
cache claimed one that was gone or another package of the same list has the same
file name and overwrote it (`missing`); a re-publication without signing left old
signatures (`unsigned`); `packageIndexByHash` ended between the removal of the
file of an `.old` link and that of the link (`hash`). Each but `hash` is cleared
when a later publication of the distribution repairs it, and only the properties
it concerns except it.

Two things that the by-hash code does are in the model and violate none of the
properties, which are about links: after an interruption between the rename and
the new link the link stays missing, as a retry finds the checksum there and
returns; and a content that comes back keeps its place among the generations, so
that after the contents A, B, A, C the file of A is removed although the Release
that clients see names A until the new one replaces it.

Abstractions: one prefix of one storage; a file's content is the set of what it
lists (IndexComplete is about package indexes, Contents name no file to
download); compressed forms share the fate of their index. Release files by
architecture, indexes of installers and legacy Contents are left out; they are
put and renamed by the same code as the indexes that are there.

## PackagePool, PoolStore and MirrorDownload

`PackagePool` has the files by place (`file`), the stored checksums (`sums`) and
the import that runs (`imp`). `Import` is one action for each way it ends before
it touches the disk (the file is there, at the new or the old place; it is not
what it should be) and one for the start of a link or a copy; copying, storing
checksums and removing the source follow, and `ImportFails` and `ImportDies` may
come between. `Verify` and `Remove` are the other operations. `tainted` is
history: checksums under which somebody imported a file that does not have them,
as Import believes its caller.

`PoolStore` is what users of the pool are promised: a set of files known by
their checksums, out of which only a removal takes one, and right answers. The
pool implements it under the mapping `Store` in `PackagePool`: a file is held
when it is at its new place and complete, or at its old one where the old
layout is supported.

`MirrorDownload` composes the pool with an update: the loop that asks the pool
(`queue`), the feeder and its unbuffered channel, the workers with their tries,
temporary files and checksums (`worker`, `temp`), the wait for them, the
imports and the error paths; ^C and the second one; a restart of a failed
update, with `-skip-existing-packages` as well; other processes that import and
clean up meanwhile. `lost` is history: what a cleanup removed during the
downloads. What a server answers is the right file, a wrong one out of
`served`, an error, or nothing.

## Version and PackageList

`Version` is `CompareVersions` over sequences of bytes, with the numbers of
`Atoi`, beside `Policy`, the order the Debian Policy Manual describes.
`PackageList` has the list with its index, the evaluation of queries and the
loops of `VerifyDependencies`, `FilterWithProgress` and `snapshot pull`, one
action per iteration. `conf` says which command runs with which arguments. A
version in a list is its rank; names and architectures are numbers in byte
order; a field query is the set of packages it holds for; a command has one
query argument. `Masked` is the exception that `FilterClosed` makes for the
defect that `SnapshotVerify` shows. `TakesPlace` says which packages `snapshot
pull` removes for a package it adds; they are more than the comment and the flag
of the command say (architecture `all`, and packages that only provide the name),
which the findings record. `Version` goes down to bytes because its property,
`VersionsOrdered`, is about how bytes are read.

## Runs

| Run | Result | What it shows |
|---|---|---|
| `CatalogMirror` | pass, 493,368 states | RefsComplete, FilesPresent, MirrorLock, NoLostEdit with two processes around one mirror |
| `CatalogLocal` | pass, 515,781 states | FilesPresent, MoveLosesNothing, PublishedSourcesExist, SnapshotImmutable with repositories, snapshots and published repositories |
| `CatalogOverlap` | violation | cleanup during downloads removes files that the update counts on |
| `RefList` | pass | what merge, filter and subtract promise, where they keep it |
| `RefListCleanup` | violation | merge with overriding of packages with several versions leaves an unsorted list, and with such a list cleanup deletes packages in use |
| `ApiNoLock` | pass, 330,894 states | exclusion, fresh caches, open database, no deadlock, matched unlocks, for any two requests at a time and three of most kinds |
| `ApiLive` | pass, 14,154 states | every request is answered, with `-no-lock` and with the periodic flush |
| `ApiFlushRace` | violation | the periodic flush races with requests that have fetched a collection and not locked it |
| `Publish` | pass, 815,268 states | what clients see is complete (IndexComplete), consistent (SiteConsistent, LinksResolve), as recorded (RecordMatchesSite); operations leave other distributions alone (OthersUntouched) and clean up (CleanupLeavesNothing) |
| `MirrorDownload` | pass, 169,081 states | the pool is honest (PoolHonest) and implements the store, a successful update has its files (Delivered), every update ends (Terminates) |
| `PackageList` | pass, 52,163 states | index and queries agree with their definition, filtering with dependencies is closed and ends, pull keeps what it should, CompareVersions is the order of the policy |
| `SnapshotVerify` | violation | a missing dependency met before as a variant of a satisfied one is not printed |

The findings in `PROJECT.json` quote the comment or doc each violation
contradicts. Two more findings belong to passing runs, whose properties state
what the code does: `snapshot pull` removes more than its comment says, and
publish handlers use collections without their locks.

Several runs look at a set of small configurations (`conf`, chosen by Init)
instead of one large one: each has what one kind of hazard needs.

Bounds.

- `Catalog`: two processes are enough for an overlap, as only updates run
  without the database. Two packages of which one file is shared give cleanup
  something to confuse; two repositories make a move; two snapshots and two
  components make a switch. `MaxConf` bounds the edits of a mirror: one is
  enough to lose one. `NotForced` stops exploration after a forced update of a
  locked mirror. `Scope` lets two repositories move two packages, or one
  repository feed two snapshots and published repositories with one package, or
  two snapshots of both packages be merged into a third, not all at once.
- `RefList`: all pairs of lists over five keys, of two packages, one with two
  keys of one version and versions out of byte order.
- `ApiServer`: three requests, so that a reader, a waiting writer and a second
  reader meet; three at a time come from the handlers that take several locks,
  one for each way to take them, and from one that only reads, two at a time
  from all (the proofs cover the rest). There are two objects per collection:
  all are unlocked when the flush replaces them with `-no-lock`, so no third is
  in use. With the ticker there is one object for each goroutine that can hold
  an old one and one for the factory.
- `Publish`: two distributions that share a prefix, with one interrupted
  operation (`maxFaults`); two components; two packages that conflict, in two
  lists and in one; s3; by-hash; contents with and without signing. One interruption is enough to
  leave what a later operation meets; the operations before and after it are
  not bounded.
- `MirrorDownload`: two workers and two or three tasks, so that one worker
  fails while the other works and the feeder waits; two tries; three contents
  of which two share a size and two an old place. `runs`, `others` and `tries`
  bound restarts, the operations of other processes and retries.
- `PackageList`: every list of up to four to six of nine packages that have
  alternatives, cycles, providers, duplicates of a version, sources and
  architecture `all`. Versions are all words of up to two bytes out of six, and
  up to three out of three, the digits 0, 1 and 9 among them, so that 9 and 10,
  leading zeros and numbers next to letters are compared. `MaxInt` is 99, so that
  numbers of three digits saturate; the policy is only required where numbers
  fit.

Deadlock is allowed where the program ends (`RefList`, `MirrorDownload`,
`PackageList`) and in `ApiFlushRace`, where the process may die of an unmatched
unlock.

Fairness.

- `ApiLive`: goroutines run (weak fairness on every step). `Lock` is strongly
  fair: from Go 1.9 on, `sync.Mutex` hands itself over to a waiter that has
  waited long. `.travis.yml` still lists Go 1.8, whose mutexes make no such
  promise; there `RequestsServed` rests on the scheduler. Acquire and release are strongly fair: senders on a channel
  queue in order. Requests need not arrive.
- `MirrorDownload`: the main goroutine, the feeder and the workers run, and a
  server answers, rightly or not, unless it stalls; then only ^C ends the
  download, and nobody is obliged to press it. Other processes need do nothing.
- `PackageList`: one sequential program goes on until it is done.

## Proofs

The proofs hold for any sets of processes, lists, packages, files, workers and
any bounds, under the named assumptions of the modules.

`CatalogProofs` proves `TypeCorrect`: types, and `Shape`, the agreement of the
phase of an update with who has the database open. Several types need it.

It also proves `PublishedSources`, `MovesLoseNothing` and
`SnapshotsImmutable` from the invariant `ListsInv` (theorem `ListsInvariant`).
It needs no mirror lock, so it also covers forced updates. A command checks its
guards once and writes key by key afterwards. `Sound` says what a plan may still
do: save lists that are there, create one snapshot under a fresh UUID, or drop
one list that nothing published refers to. `Known` says that no UUID of a
record or of a planned write is handed out again, so that a plan to create never
meets an existing snapshot. `Moving` follows a move: the source keeps the
packages until the destination has them.

`CatalogSafety` proves `Safety`, that `Safe` is invariant (commands keep it:
the last part of `CatalogProofs`), and from it
`ReferencesComplete`, `MirrorLocked` and `EditsKept`. None of the three is
inductive. `Pending` says of the writes still to come that they refer to
packages stored or about to be and belong to lists nobody is away with; `Used`
says that the key of a dropped list is never reused; `Lock` says that the
mirror of an update is as it was loaded. The assumptions are the ones named in
`Catalog`: kinds of keys are disjoint, bounds are naturals, no process is
`NoProc`.

It also proves `ReferencedFilesPresent` from `FilesInv` (theorem
`FilesInvariant`) on top of `Safe`. References become live long after the files
were looked for. `Gathered` follows the files of an update from the question
which of them the pool lacks to their import, `Backing` says that a planned
write refers only to packages whose files are in the pool or are imported
before it, `Spared` that the files db cleanup is about to remove are not in use.
As in the runs, nothing is claimed after a cleanup during the downloads of an
update that then succeeded, after a forced update, or once a merge may have
stored an unsorted list (`waived`). `ReferencesComplete` has the last two of
these exceptions, `MirrorLocked` and `EditsKept` only the forced update. `Safe`
still holds after a merge left a list unsorted: `Lost` are the packages that a
cleanup may then take by mistake, none before, and `Sure` those that a reference
can count on or that may be lost.

`ApiServerProofs` proves all the safety properties of `ApiNoLock` for any number
of requests, objects and any set of calls, when the server runs with `-no-lock`.
`ServerInv` (theorem `ServerInvariant`) is the inductive invariant. `Control`
says where a goroutine is and how much it has by then. `Database` says that
`clients` counts the requests inside and that the flusher runs only when there
are none. Hence `Pointed`: every object a request has is the one the factory
has, as the factory drops its objects only when no request is inside. On that
object, `Mutex` says that the state of the mutex is exactly the work of the
goroutines that hold it and wait for it. Exclusion (`NoLockExclusion`), matched
unlocks (`NoLockUnlocks`) and fresh caches (`NoLockCache`) follow, also for the
collections that a body uses without a lock: it has those of the factory, and
whoever drops a record of them holds the mutex of the published repositories,
which the body holds too.
`NoLockMoves` is the argument from the lock order: if everybody were blocked,
whoever waits for a collection waits for a holder, and the holder waits for a
collection of higher `Rank`, of which there are four. `DatabaseOpen` has the
premise in its property. The premise `mode.noLock` is needed: with the ticker
`Pointed` is false and exclusion fails (`ApiFlushRace`).

`MirrorProofs` proves, of the pool alone, `PoolIsHonest` and the refinement
`PoolImplementsStore`. `PoolHonest` is not inductive: `PoolInv` adds that a
whole file has the size of its place, since Import takes a file of the right
size for the right one; that the old layout holds only whole files at their
place; and how far the running import is (`ImportOK`). From it every step of the
pool is a step of the store or changes nothing there. `PoolAssumption` gives the
types; `LegacyAssumption` is what the code takes for granted: in the old layout,
name, size and 16 bits of the MD5 identify a file. A collision there, for which
Import would answer with the wrong file, is outside `PoolHonest` and
`ImplementsStore`.

It carries both over to the composition (`UpdatesKeepPoolHonest`,
`UpdatesImplementStore`: no step of an update does more to the pool than an
operation of the pool does) and proves `UpdatesDeliver`. Its invariant follows
a file through the update: `Covered`, before the downloads are over every file
without a place has a task in the queue; `HandedOut`, a task that was taken is
with a worker, done, or has left an error; `Imported`, the import loop has given
a place to all it passed; `PlaceGood` and `LastGood`, a place that was given
holds the file or a cleanup took it. So an update without errors that has gone
through its queue has every file. `WorkersAssumption` is needed: with no worker
an update would succeed without its files. `UpdatesTyped` proves the types with
the bounds of the loops (`Bounds`): the queue is never longer than the files
gone through, and a worker only has tasks out of the queue.

`RefListProofs` proves what the loops of `PackageRefList` promise, for lists of
any length: `MergeKeepsAll`, `MergeOverridesAll`, `FilterLatest`,
`CleanupTakesExactly`, and `ListsTyped`, that no loop runs past the end of a
list. An iteration is a step, so no induction over data is needed, only the
invariant `ListInv` (theorem `ListInvariant`). For Merge, `Merging` has three
parts: the result is sorted; all of it comes before what is left of both lists
and is of other classes (`Ahead`), a class being the keys that displace one
another under the flags; and it has what was to be kept of what was looked at
and nothing else (`ToKeep`, `Covers`). With `overrideMatching` order only holds
up to the keys of one package, which is what `RefListCleanup` shows to go wrong.
`Filtering` and `Subtracting` do the same for the other two loops.
`ListsAssumption` and `RefsAssumption` are types, `AgeAssumption` says that
CompareVersions orders versions totally, `KeyOrder` that a key begins with the
package and then the version, so that the keys of a package are neighbours.

`PublishProofs`, `PublishSites` and `PublishPackages` prove all the properties
of the run `Publish`, for any distributions, components, packages and
interruptions. The invariants come in layers, because each operation goes
through up to nine phases and the properties speak of what it leaves.

- `Core` (in `PublishProofs`: `CoreInvariant`, `PublishTyped`): the phases each
  operation goes through and what it works on, which references are stored
  (`Storing`), and that a record outside the cached list, one that lacks
  references and an object that differs from its record are being worked on or
  were left behind (`Cached`). `OnlyOwnSite` follows.
- `Links` (in `PublishSites`: `ByHashResolves`): no two links lead to one
  by-hash file, so that the file `packageIndexByHash` removes is the target of no
  other link. The invariant says so between any two of its calls.
- `Sites` (in `PublishSites`: `SitesInvariant`, `ReleaseNamesItsFiles`,
  `DatabaseMatchesSite`): `Progress` says which files an operation has put,
  under their names or with the suffix, and which it has renamed; `Settled`,
  that clients see what the record says of a distribution nobody is changing;
  `Dropped`, that a drop removes the metadata first.
- `Packages` (in `PublishPackages`: `PackagesInvariant`, `IndexesComplete`):
  what an operation publishes is linked before any index names it (`Linked`);
  while files are renamed, old and new indexes are both served (`Mixed`); what a
  cleanup or a drop is about to remove, nobody refers to (`Spared`). A cleanup
  trusts the list in memory, so the argument needs `Cached`: where the list may
  be wrong, a distribution is `stale` or `torn` and nothing is claimed of it.
- `Cleaned` (in `PublishSites`: `CleanupIsThorough`): conversely, a package file
  that no record refers to is among those still to be removed.

`ConfigsAssumption`, `NoDistAssumption` and `PathAssumption` are types.
`ByHashAssumption` leaves by-hash to storages of files. Nothing is assumed of the
file names of a list: `PackageList.Add` compares versions with their epochs, so
two packages of one list may have one file name. `TornAssumption` tells the mark
of a partial index from what an index can list.

Only model-checked: Version and PackageList, ApiServer without `-no-lock`, and
liveness (RequestsServed, Terminates, FilterTerminates), which is out of the
prover's reach. So is what recursion over data computes for every input, which
needs induction: the comparison of versions and the searches of package lists
are recursive operators, and the prover cannot use a module that has one.

## Not modelled

- Control files, the query parser, dependency syntax, configuration, console,
  listings: parsing and printing without state.
- Signatures (`pgp`) and the services behind `s3` and `swift`: external; their
  failures are failures of an update or a publication. swift is used like s3
  without a cache.
- `repo include` and uploaders' rules: `repo add` for each .changes file, behind
  a check. API uploads (`api/files.go`): what happens to a directory that
  requests fill and delete at the same time is up to the filesystem.
- `task run`: commands in sequence, each modelled on its own. `db recover` and
  compaction: calls of the library.
- Fetching and parsing Release and index files of a mirror: a choice of files.
- The making of Contents from package files, the encoding of records.
- Diff, Has and the listings of packages, which only read.
