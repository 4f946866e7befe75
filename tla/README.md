# Aseprite Extension Manager: formal models

TLA+ modules, TLC configurations and TLAPS proofs for the Aseprite Extension
Manager. Paths are relative to the repository's root, `src/` here; line numbers
are those of the modelled commit. `PROJECT.json` lists the runs, the mutants
each property was tried against, the source lines of every definition, the
hazards, the findings and the theorems.

## The system

A Lua extension inside Aseprite opens a window, starts a native helper process
and talks to it over an authenticated WebSocket on the loopback interface. The
helper keeps the state of the user profile: catalog, caches, receipts,
quarantine, journal. Only Aseprite's own installer writes packages into
`extensions/`, with a prompt the user answers. A command line tool uses the
helper's code as a library on the same profile, without Lua.

| Component | State | Operations | Hard part |
|---|---|---|---|
| Manager update transaction (`helper/src/state.rs`, `server.rs`, `extension/aem/controller.lua`) | `self-update/pending.json`, two archives, the manager's cache and receipt, `self_update_status` | prepare, publish the journal, stop the helper, install, reconcile at the next start | several files and three processes, no atomic step anywhere, a crash possible between any two |
| Uninstall and quarantine (`installed.rs`, `state.rs`) | `extensions/*`, `uninstalled/extension-*`, receipt | `uninstallPackage`, startup cleanup | rename, fsync and receipt removal in separate steps, power loss |
| Install verification, receipts, cache (`installation.rs`, `state.rs`) | `receipts/*.json`, `cache/<package>/current`, `previous` | `verifyInstall`, `prepareRollback`, `clearCache` | cache and receipt are two writes; two processes; overlapping handlers |
| Helper process (`main.rs`, `server.rs`, `launcher.lua`) | `manager.lock`, connection, permits, idle timer | launch, handshake, connection loop, shutdown | lock dropped and taken again, lost wakeups, teardown with handlers at work |
| RPC client (`extension/aem/rpc.lua`) | pending requests, socket, connection timer | request, cancel, messages, close, shutdown | callbacks of a dying connection, reentrancy |
| Controller (`extension/aem/controller.lua`) | `activeOperation`, refresh generation, uninstall state, startup check | every user command | stale answers, cancelled operations, closed windows |
| Catalog client (`registry.rs`) | trusted TUF metadata, last known good files, `RegistryView` | refresh, fallback, root rotation, authorisation | expiry, persistence file by file, older managers |
| GitHub client (`github.rs`) | ETag cache, scan cursor, saved source | resolve, check, list, download | a repository that changes between requests, pagination, public and `gh` fallback |
| Package validation and staging (`package.rs`, `state.rs`) | `staging/` | validate, snapshot, stage, evict | a folder edited while it is read, eviction against artifacts in use |
| Command line tool (`cli/src`) | none of its own | install, list, update | the lock dropped during the prompt |
| Model and dialogs, diagnostics, developer tools | none that lasts | display, report, deploy | folder replacement in `tools/xtask/src/deploy.rs` |

How they interact. Lua launches the helper through the launcher, which holds
the profile lock for a moment, drops it and leaves it to the server process to
take again. Requests go over the connection; each runs in the helper on its
own, beside the others, and a request that Lua *cancels* is not cancelled in
the helper. Between preparation and verification the installer works on the
same folders, outside any lock. The window, a second Aseprite process and the
command line tool meet at `manager.lock` and at the files.

What makes each part correct:

- update transaction: the installed manager is never replaced without a journal
  and both archives; the recovery archive of a journal is never overwritten; a
  transaction is closed only when recorded or when the old manager is intact; it
  never lingers unreported, nor at all where the old manager is intact;
- uninstall: nothing is lost, a removed receipt is in quarantine, a removal
  that was reported does not come undone, a leftover is cleaned up;
- receipts and cache: a receipt tells the truth about the installed package's
  source and about what a restore would find;
- helper: helpers take turns, a timeout cuts nothing short, every request is
  answered or ended, every helper ends once its window is gone;
- client and controller: one callback per request, one operation at a time, no
  stale answer applied, no operation that blocks the others for good;
- catalog: no view older than one accepted before, whatever interrupts a
  refresh; offers and authorisations agree;
- GitHub and packages: what is installed was at its source at some moment of
  the request, from the source the user chose, and is a valid extension; no
  repository skipped or shown twice.

## Modules

| Module | Contents | EXTENDS / INSTANCE |
|---|---|---|
| `ManagerTransaction` | abstract: what an update promises, without files, processes or crashes | |
| `SelfUpdate` | the update and rollback transaction | instantiates `ManagerTransaction` |
| `Uninstall` | uninstall, quarantine, cleanup | |
| `HelperSession` | launch, lock, connection, requests, end of the helper | |
| `InstallRecord` | verify, record, restore; window and command line tool | |
| `Calls` | abstract: what the RPC client promises the window | |
| `Rpc` | the RPC client: pending requests, socket, timer, callbacks | instantiates `Calls` |
| `Controller` | the window's controller: operations, refreshes, the uninstall lock, the startup check | |
| `Catalog` | the catalog client: verification, persistence, fallback, authorisation | |
| `Package` | rules for archives, folders and repository snapshots, as operators | |
| `Sources` | resolving a GitHub source, its update checks, the manager's releases | `Package` |
| `LocalSource` | snapshots of a linked folder, staging and eviction | `Package` |
| `GitHubBrowser` | pages of the user's repositories, cut out of GitHub's | |
| `MC*` | instances for TLC | the module of the same name |
| `*_proofs` | theorems | the module of the same name, `TLAPS` |
| `Sources_proofs` | theorems about the three modules of sources outside the catalog | `Sources`, `LocalSource`, `GitHubBrowser`, `TLAPS` |

Definitions whose comment starts with "Slip" are plausible mistakes. No
specification uses them; each is there to show that a property fails when the
definition it stands beside is replaced by it.

### SelfUpdate

State: the installed folder (`tree`: version and whether it validates), the
journal and the two archives under `self-update/`, cache and receipt of the
manager, the helper's place, its status, each prepare request, and the update
operation of each Aseprite process. A package is identified by its bytes. A
published archive and the archive the helper packs from the installed folder
have the same version and different bytes.

`RequestPrepare` is the check for a journal as the request arrives;
`BuildUpdate`/`BuildRollback` the look-up, download and packing;
`Admit`, `CopyCandidate`, `CopyRecovery`, `Rehash`, `Publish` are
`begin_self_update` operation by operation. `PrepareFails` are the errors up to
the first copy; after it `CopyRecoveryFails`, `RehashFails` and `PublishFails`
lead to `UndoCandidate` and `UndoRecovery`, which remove the copies one after
the other and ignore their errors. A rename that was made but not synced
(`atomic_copy`, `atomic_write`) fails with its file in place: so a journal may
stay without one or both of its archives. Lua's side goes from `preparing` over `stopping` (shutdown
request), `delay` (half a second), `prompt` to `extracting`. The
reconciliation of the next start is split at every file operation. `HelperDies`
is possible everywhere; a helper that shuts down with a request in flight drains.
With `Browsing` the user may open Help or the GitHub tab during the half
second: their requests start a helper (`StartHelper`), as
`request_diagnostics` and `load_github_repositories` do. Every other request of
the window is refused while an operation is active. Lua reads the helper's
handshake on its only thread, and the handshake follows the reconciliation
(`launcher.lua:101`, `server.rs:70-93`): until then nothing of that process moves
(`Launching`), no timer either.

A journal that a failed preparation leaves leads nowhere: `InstallerGuarded` has
both archives from the answer to the end of the installer, `RecoveryKept` lets
an undo take the recovery archive only while no installer is open or due,
`ImplementsTransaction` keeps a half of a pair from being recorded, and by
`JournalClears` the next start that finds the old manager discards it, whatever
is left of its archives.

`ImplementsTransaction` is the refinement: `installed <- tree`, `open` is the
journal's pair of versions, `recorded` the receipt's. A crash, a repeated
rotation or a failing removal must be a stutter or one of five abstract steps.

### Uninstall

State: the package's folders by path, the receipt, every quarantine directory
(record, archived receipt, moved folder, durable or not), the handler, and
history variables for what the user still owns (`owed`), for uninstalls that
have reported a removed receipt (`cleaned`) and for the removal a power loss
may undo (`undo`). Each file operation of `State::uninstall_extension` and of
`reconcile_uninstalls` is one step. `PowerLoss` brings unsynced renames and
removals back. Rejected requests change nothing and are the absence of a step.
The run has `Overlap` off: a `verifyInstall` and an uninstall of the package
exclude each other, as Lua has it as long as nothing is cancelled.

### HelperSession

State: lock, phase of each launch, Lua's end of each connection, messages in
both directions, the shutdown notification, the phase of each request and the
server it was sent to. `Receive`/`Accept`/`Refuse`, `Notified`, `ClientLeft`,
`IdleEnds`/`IdleGoesOn` are the branches of `run_connection`'s loop;
`Notify` follows `notify_waiters`, which wakes only a loop that is waiting at
that moment. A request alternates between awaiting and working (file
operations that no cancellation interrupts), so that `Return`, which frees the
lock, can come while one is at work, and `Teardown` waits for it.

### InstallRecord

State: the installed folder (version in the manifest, artifact whose files it
holds, if it is those of one), receipt, the two cached artifacts, the lock,
Lua's active operation and the place of each operation. `Find` to
`WriteReceipt` are the steps of `verify_and_record`; `Rotate` and `Store` are
`cache_artifact`. `PrepareRollback` chooses and checks the artifact as
`prepareRollback` does. `Cancel` ends Lua's operation and leaves the helper's
handler running. The history variable `torn` notes a verification that ended
between the first change of the cache and the receipt. `Uninstall` is the
effect of the module of that name on folder and receipt.

### Rpc

State: the client's `state`, `socket`, `intentionalClose` and `pending` table,
the requests sent, the connection of each socket as the library has it and the
messages it has queued. Lua runs on one thread, so a handler is one step as
long as it calls one callback, which then only adds what the callback does:
requests and cancellations, which are steps of their own, and for a shutdown
the closing of the socket. `_fail_pending` and `_flush` call several:
`handler`, `calling` and `failing` say how far they have come, and requests
are made in between. `_flush` iterates over the table such a request is added
to; Lua leaves undefined how the iteration goes on, so it may end anywhere
(`disturbed`). `OPEN` and `CLOSE` act on the client whichever socket they come
from, as in the code.

External: Aseprite's socket library. It queues messages for the one thread, and
the end of a connection that was up is reported even when Lua closed it
(`intentionalClose` exists for that); a connection that never was up reports
nothing. A helper takes one connection, so the library's own reconnecting
never brings a second `OPEN` for a socket. A callback that opens a modal
dialog lets other events in; here it ends at once.

`ImplementsCalls` maps `outcome`, `wire` and `served` to themselves: a request
goes to one helper at most, while it is wanted, and is reported once.
`Accounted` and `Settled` say that something always comes of a request.
They except two cases the code has: a connection closed on purpose drops its
other requests (`ClosedOnPurpose`; the controller drops the client with it),
and a request made from a callback of the connection timer, or of a `_flush`
that fails, waits for an `OPEN` that may never come (`stranded`).

### Controller

State: the window, the client, the requests whose callbacks are to come, the
refresh generation, `activeOperation`, the installer's prompt, the timer of a
self-update, `uninstallState`, the deferred offer of a manager update, `busy`,
whether the status is that of a finished refresh (`ready`), the list that is
shown; and, on the helper's side, the folders and the uninstalls it may yet
carry out. One action per handler. A confirmation is part of the handler that
asks, because every operation looks at the lock and at `activeOperation` again
after it; the installer's prompt, which the user may leave open for long, is a
step of its own. `BeginInstall` has the path on which
`install_registry_package` makes no request for want of a compatible version
(`controller.lua:1213-1221`), although `ui.lua:2510-2530` does not offer it then:
the progress dialog stays until it is cancelled. `RefreshAnswered` is the chain `scanInstalled`,
`refreshRegistry`, `listUpdates`, which goes to the client it began with.
An answer may also be that of a connection that is lost: `Outcome` keeps apart
an error the helper has returned from one of the client, which is what
`uninstallState` depends on. `lost` marks the requests of a connection closed on
purpose: whether their callbacks run is left open (`Accounted` in `Rpc`).

`moved` and `verified` are history variables: what the helper has moved away,
and what was reported as installed and left alone since. Two progress dialogs
are never open together, and one goes with its window. `Exit` is the end: a
plugin that is disabled and enabled again in the same process makes a new
controller whose lock is clean, although the docs ask for a restart of Aseprite
(`docs/architecture.md:66-72`); nothing of the old controller is left to
compare with.

### Catalog

State: the registry of the installed manager (`bundle`), the last known good
files, `catalog-v1.json` and `trusted-versions.json`, the clock, the session's
view, the place of each request. `Verify` is `verify_repository` as a
function from a repository and a time to the first check that fails; it reads
the accepted versions and decides in one step. `Persist` writes the seven
files in their order, one step each; several requests persist over each other.
`FallBack`, `Publish` and `Authorizes` are the rest of `refresh` and of what is
done with a view. `ManagerReplaced` puts any released registry in place, also an
incomplete one, while no helper runs.

A file is known by its role and version, a catalog by its hash: what the
chain promises of a file is in it. Signatures are eras of keys; a root that is
signed by its own keys and by its predecessor's passes.
`consistent_snapshot` is always set, as the publishing tool sets it.

`FoundNotOlder` is about the moment a view is found. A cached view that one
request has found may replace a newer one that another request has published
meanwhile. That a view's expiry is not looked at again during a session is
documented (`docs/security.md:111-112`) and not a property.

### Package, Sources, LocalSource

A tree is a function from paths to contents; an archive is the tree it
unpacks to, a commit is its tree, an upload its archive. `Package` states
which trees pass (`ValidExtension`, `Collects`, `Repackages`) and what a
snapshot keeps (`Snapshot`). It has no state; `Sources` and `LocalSource`
use it.

`Sources`: one repository, one package, one resolution at a time, request by
request, while GitHub changes in between (`Change`: three states of the
repository, in any order). `Fresh` and `FromCache` are the conditional request
and the answer from `http-cache` when the connection fails; `TryGh` the
fallback to `gh`, `RequestFails` the errors. `AfterRepo`, `SelectAsset`, `AfterAsset`,
`AfterCommit`, `AfterZip` say what each answer leads to. `SavedTarget` makes the
target of an update check out of a receipt. The manager's own update
(`ManagerUpdate`) goes to the latest public release. The selection of an asset
by id is that by name. What is to be installed is `handed` to the installer; the
update that is listed is `offer`. Only a refresh whose scan succeeds replaces the
list (`controller.lua:575-580`): an installation, a cancelled one included, a
failed scan and an error leave the update where it is, and `Prepare` may take it
long after (`Refresh`, `Decline`, `RequestFails`). A request that Lua has
cancelled goes on and may write its receipt at any later moment (`Install`).

`LineageKept` is about what a check or a preparation has found for a receipt,
when it is installed in that receipt's place. It cannot say more: nothing looks
again whether the receipt is still the one the update was found for
(`SourcesListed.cfg`).

`LocalSource`: the walk over the folder is one step, then the files are read in
the order of their paths while the author edits and deletes. `Staged` is
`stage_file` with `evict_directory`: content-addressed, the oldest first, never
the artifact that is being staged; an artifact that is there keeps its age.
`FolderRefresh` drops a check under way, because it begins a new
generation (`Controller`), and clears the list if its scan succeeds. The names of `LocalSource` and `GitHubBrowser` are
their own (`FolderSpec`, `BrowserSpec`), so that `Sources_proofs` can extend them
beside `Sources`; they share no variable.

Read in the code and not modelled: a body that does not parse is cached with
its ETag, so that the 304 that follows fails as well; an installed version
that semver does not parse is always offered an update; candidates of one
`listUpdates` that exceed the staging limit evict the first ones offered, whose
preparation then fails.

### GitHubBrowser

State: GitHub's list for each search, what the window shows, its cursors by
page, the loads that are outstanding. A page without a cursor (`nil` in Lua) is
not in the domain of `cursors`. `ScanRawPage` fetches a raw page and goes
through it until it has a match too many or has checked `ScanLimit`
repositories; `EndCursor` and `HasNextPage` are computed from that. A search or
a move begins a new generation; `Ignore` is the answer of an earlier one. The
list does not change while it is browsed, and GitHub fills every page but the
last (`FullPages`).

## Runs

| Run | Expectation | Instance | What it shows |
|---|---|---|---|
| `self_update` | holds | 3 versions, 1 request, 1 process, fairness | installer guarded, recovery kept, receipt and cache, the refinement, `JournalSettles`, `JournalClears` |
| `self_update_browsing` | violated | 2 versions, Help opened while the installer is due | the installer given a candidate that is gone |
| `uninstall` | holds | 2 paths, 2 versions, 2 folders, 2 quarantine directories, 2 receipts, fairness | nothing lost, archived, final, cleaned up |
| `helper_session` | holds | 2 launches, a request, a shutdown request, 1 permit, fairness | turns, idle timeout, answers, termination |
| `install_record` | holds | 3 artifacts of 2 versions, 1 operation of the window, 1 run of the tool | restore points and sources |
| `rpc` | holds | 2 requests, a shutdown, 2 connections, fairness | sent once, reported once, one connection, settled |
| `controller` | holds | 2 packages, 2 clients, 3 generations, 2 operations | the lock, the list, nothing waits for good |
| `catalog` | holds | 2 roots, 3 timestamps, 2 catalogs, 4 registries, 4 instants, 2 requests | no way back, a usable fallback, offers authorised |
| `catalog_rollback` | violated | the same, 1 request | a view older than one that was shown |
| `sources` | holds | 3 states of a repository, 2 changes | the lineage, and what a resolution comes to |
| `local_source` | holds | 6 paths, 2 edits, room for 2 artifacts | what a snapshot holds, and exact verdicts |
| `github_browser` | holds | every list of up to 5 repositories, 2 loads | nothing skipped, nothing twice |

A violated run states what the documentation says; `findings` in
`PROJECT.json` quotes the line and describes the counterexample.

Configurations kept beside the runs. Each checks one property that fails, and
was checked by hand (`tlc -config <file> MC<module>`):

- `SelfUpdateOverlap.cfg` (`MCSelfUpdate`, `PublishedAsRehashed`): a cancelled
  preparation that the helper still works on overlaps the next one, and the
  journal is published over archives replaced since they were rehashed
  (`state.rs:195`; `docs/security.md:154`: "The copied artifacts are rehashed
  before the journal is published.").
- `SelfUpdateShared.cfg` (`ReplacementJournaled`): the helper of a second
  Aseprite process discards the journal under the first one's installer prompt
  (`server.rs:1094`).
- `SelfUpdateRetained.cfg` (`RecordedArtifactsCached`): a reconciliation that
  ends between the cache rotations and the receipt, then a reinstallation of
  the old version, leave a receipt whose artifacts are not the cached ones
  (`server.rs:1184`; `docs/security.md:144`).
- `UninstallOverlap.cfg` (`MCUninstall`, `RecordedWhileInstalled`): a cancelled
  `verifyInstall` goes on during an uninstall and writes a receipt for a package
  that is gone (`installation.rs:84`; `docs/architecture.md:57`: "A receipt is
  written only when the expected package name and version are present."). Without
  `Overlap` the property follows from the guards and is not checked.
- `HelperSessionTeardown.cfg` (`MCHelperSession`, `LockedWhileWorking`): the
  lock is dropped while a request is in the middle of file operations
  (`server.rs:71`; `docs/development.md:73-75`).
- `InstallRecordUnrecorded.cfg` (`MCInstallRecord`, `RollbackRecorded`): a
  rollback is prepared from an artifact the receipt does not record, because the
  receipt has no previous digest (`server.rs:1298`; `docs/security.md:146-147`).
- `SourcesListed.cfg` (`MCSources`, `ListedLineageKept`): an installation from
  another source is cancelled during `verifyInstall`, the window refreshed, the
  check lists an update for the old receipt, and then the receipt of the new
  source is written. Update on the listed row goes back to the former lineage
  (`controller.lua:575-580`, `server.rs:518-553`).
- `GitHubBrowserShort.cfg` (`MCGitHubBrowser`, `NothingSkipped`): were GitHub to
  return a raw page that is not full and not the last, a scan that stops
  after it would not list the rest (`github.rs:1373`). An assumption about
  GitHub, not a fault that was observed.

`FolderTypeOK` and `BrowserTypeOK` hold on the same instances.

Bounds. Three versions give an update, a rollback and a manual downgrade to a
version that is neither the journal's target nor its previous one. Two paths
give the duplicate folders that `verifyInstall` and `uninstallPackage` refuse;
two quarantine directories give a second uninstall over the leftovers of the
first; two stamps give a receipt that is not the archived one. Two launches
give every pair of a draining and a starting helper; one permit makes the
second request meet a full server; the shutdown request is the one that can be
refused or lost. Two artifacts of the same version with different bytes are
what makes comparing versions differ from comparing contents. Two connections
give a message of the first that arrives during the second; two requests
beside the shutdown give one that is made while another fails. A socket has
at most one invalid message in its queue at a time. Two operations and three
generations (`MaxOperation`, `MaxGeneration`) give an uninstall after another,
an operation over a stale refresh and a refresh over a stale operation; two
clients give answers of a connection that the window has left. Two roots with
different keys, a timestamp that only renews, one that changes everything and
one that withdraws a release are one case each of what can differ between two
registries; one of the hosts is kept from a release by its maximum API
alone; four instants (`MaxTime`) let each file expire after another;
the chain of two roots stays within `MaxRotations`. Three states of a
repository (`MaxChanges` 2) let a resolution begin in one, meet a second and end
in a third. Room for two artifacts (`Room`) evicts the offered one behind two
others. Raw pages and scans of three with pages of two end a scan for each of
its reasons inside and at the end of a raw page. `MaxStamp`, `MaxEdits` and
these are the caps on counters; `Helper` and `Request` are finite sets because
each launch and each request happens once.

Deadlock is not checked in `SelfUpdate`, `HelperSession`, `Rpc` and `Controller`: a
manager can be left alone for good, when every launch or request has ended
nothing remains to happen, and the plugin can be unloaded. The other modules
never stop and are checked.

Fairness. `SelfUpdate` and `Uninstall` assume weak fairness of the startup code
alone: it runs until the helper serves or is dead. That helpers are
started again and again and that failures end is a hypothesis inside the
liveness properties, not of the specification. `HelperSession` assumes that
processes which are not killed run on, that timers fire (the idle timer, the
writer's two seconds, the end of the handshake wait), and that a handler comes
to its answer, however often it awaits in between (every network operation
has a timeout); hence strong fairness of `Answer`. Nothing is assumed of Lua
or the user, nor of a connection breaking. `Rpc` assumes that Aseprite runs its
handlers to the end, delivers each socket's messages and fires the timer, and
that a helper answers what it was sent or its connection ends, which is
`AnsweredOrEnded` of `HelperSession`.

## Proofs

All theorems hold for every value of the constants that satisfies the named
assumptions of the modules (versions are natural numbers, `None` and `Nil` are no
values of another kind, permits are at least one, a catalog lists finitely many
releases, GitHub's states and a folder's files have the shape of their kind).

`SelfUpdate_proofs`: type correctness without further assumption. Under
`OneRequest` and `OneProcess`, the other safety properties of the run and that
an archive beside a journal is the journal's, if it is there
(`ArchivesAreOwn`); `SelfUpdateOverlap.cfg` and `SelfUpdateShared.cfg` show what
happens without the one and without the other. `NoBrowsing` is the third
assumption: while an installation is due the user opens neither Help nor the
GitHub tab; `self_update_browsing` shows what happens when she does.
`InstallerGuarded` is not inductive: what is in the two files depends on how far
the request, its undoing or the reconciliation has come. `IInv` adds what each
place has established (archives copied and compared, copies being taken back,
cache rotated, journal cleared in order) and that Lua waits only for the request
that is there. The refinement and the two action properties follow step by step
from `IInv`.

`Uninstall_proofs`: `NothingLost` and `RemovalIsFinal` need no assumption about
what runs beside an uninstall. The inductive invariant says where
the handler's folder is at each step and that a directory with a removed
receipt is durable. `RemovedReceiptArchived` is proved for `Overlap = FALSE`.

`HelperSession_proofs`: `OneAtWork` for any number of launches, from the
invariant that every phase with the lock has it; `IdleCutsNothing` and the
bound on permits for any number of requests.

`InstallRecord_proofs`: `SourceTruthful` whatever overlaps, from the same
statement about what each operation carries. `RestoreReady` under `OneLuaOp`
(no handler of a cancelled operation beside the next one): `Exclusive` (who is
verified holds the lock), `CacheKept` (the two artifacts differ between
rotations) and `Consistent` (what the cache, the earlier receipt and the
operation have to do with each other at each step of `verify_and_record`).

`Rpc_proofs`: all four safety properties, for any number of requests and
connections. `Accounted` holds between handlers; `Covered` states it within
them as well, together with what makes it inductive: a shutdown precedes every
intentional close, an answer in a queue was given, and a connection that is
closed while it is up reports it. The refinement of `Calls` follows from the
same invariant.

`Catalog_proofs`: `FallbackNotRolledBack`, `RecordedIsComplete` and
`FoundNotOlder` for any metadata, any number of requests and any registries
that managers bring. The invariant: all requests of a session persist the same
bundle (`Session`), what is kept is not behind what is recorded (`Forward`),
what is recorded is there (`Complete`), what was handed out is recorded
(`Recorded`). `UpdatesAuthorized` for any installations and platforms, with
compatibility stated beside the code's test of it (`CompatibleWith`: the two
bounds of Aseprite's version and the two of its API): the view
is that of a bundle with its catalog (`Named`), and among the finitely many
candidates for a package the newest one exists.

`Controller_proofs`: all four properties, for any number of packages,
connections, operations and refreshes. The invariant: an uninstall under way is
the only one and moves nothing but its package (`Removing`), a lock that is off
leaves nothing to be moved (`Locked`), no refresh that counts runs while it is
on (`Refreshing`), what the current refresh has read has every verified package
(`Listing`), the current connection is not being closed (`Connected`), and the
startup check finds a shut window at rest (`Startup`), so that stopping its
helper cuts nothing off (`Waiting`). What several actions have in common
(a refresh, the end of an operation, its beginning, the next request) is a lemma
of its own.

`Sources_proofs`, for `Sources`: `TypeOK`, `LineageKept` and `SourceHeld` for any
repository and any changes to it. A resolution carries what makes its result
true: for what it has learnt there is a moment since it began at which GitHub
was so (`Evidence`; an answer from the cache is marked as stale), and one that
starts from a receipt asks for nothing but what the receipt names (`Bound`). What
was found for a receipt keeps its lineage and, when a check found it, its name
(`Found`), whether it is on its way, listed or handed over, and whatever has
become of the receipt meanwhile.

For `LocalSource`: `SnapshotTrue` for any folder, any contents and any number of
edits. `Reads` says what has been seen so far: each file that was read held
that, the ignore rules are what the ignore file held, and the files still to be
read with those already read are what a walk collected whose every file was
there at some moment and which missed none that always was. The
invariant is not inductive without the set of files of that walk, which is
nowhere in the state: it is quantified. When nobody edits, every one of these is
the folder itself, hence the exact verdict.

For `GitHubBrowser`: `NothingSkipped` for lists of any length, any sizes and any
number of loads, under `WholePages`: GitHub fills its raw pages, and a scan ends
with one (`github.rs:34-35`: both are a hundred). `GitHubBrowserShort.cfg` shows
what happens without the first half; were the limit no multiple of a raw page
(four and three on the instance), a scan would end inside the last raw page and
the rest of the list not be shown. `Progress` says what a load has found from
the position where it began; `Goes` that the current load began at its page's
cursor and is for the last search. That there is one sequence of the matches in
order, and only one, is proved by the least counterexample (`OrderExists`,
`OrderUnique`), so that pages that meet at a cursor can be joined.

Only model-checked: the liveness properties `JournalSettles`, `JournalClears`, `CleanupSettles`,
`HelperEnds`, `AnsweredOrEnded` and `Settled`, which rest on fairness. Every
safety property of the runs that pass is a theorem; what a theorem assumes beside
the assumptions of the modules is named above. `FolderTypeOK` and
`BrowserTypeOK` are not theorems: what of them the proofs need is in `FolderInv`
and `BrowserInv`.

## Not modelled

- Contents: bytes, digests, signatures, file modes and manifests are
  identities; the installer's partial work is a folder that does not
  validate.
- The half second before the installer opens is a state, not a duration. The
  model lets a draining helper live on through it.
- `sync_parent` does nothing on Windows (`helper/src/state.rs:789`);
  `Uninstall` models the systems where it does.
- A handler that outlives the lock (`HelperSessionTeardown.cfg`) is not composed into
  `InstallRecord`, `Uninstall` or `Catalog`. Their counterexamples do not depend
  on it and their theorems do not cover it.
- `clearCache` of the whole cache is not in `InstallRecord` or `SelfUpdate`:
  Lua always asks to preserve restore points (`controller.lua:1358-1385`).
- Package rules for the manager's own archive and its registry
  (`package.rs:849-1330`): a fixed list of files that is compared once, without
  state and without interplay. `validate_extension_directory` repeats the rules
  of `Package` over a directory.
- The manager's saved update version and the day of the last check
  (`controller.lua:134-196`) in the preferences: what is shown, not what is done.
- Dialogs and layout (`ui.lua`), filtering and sorting (`model.lua`), the
  protocol's tables (`protocol.lua`, `json_value.lua`, `compat.lua`,
  `platform.lua`): functions of one value, without a state of their own.
- Diagnostics (`tooling.rs`): runs `gh` and looks at the environment under
  timeouts, and changes nothing.
- The command line tool apart from its installation: it resolves its argument
  with the GitHub client, prompts, and prints.
- The developer tools (`tools/xtask`): run by hand on a developer's machine, with
  no helper beside them. Packaging and fixtures are input and output; the
  replacement of the installed development folder (`deploy.rs`) has steps that
  can fail in between and is the next candidate.

## Plan

Done: `SelfUpdate` with `ManagerTransaction`, `Uninstall`, `HelperSession`,
`InstallRecord`, `Rpc` with `Calls`, `Catalog`, `Controller`, `Package`, `Sources`,
`LocalSource`, `GitHubBrowser`, each with its proofs.

Left, in order of importance:

1. Abstract specifications for `Catalog` and `Sources` (what a check promises),
   and that they implement them.
2. `Deploy`: the replacement of an installed folder by the developer tool.
3. Composition of `HelperSession` with `InstallRecord`: the counterexamples about
   overlapping handlers from one specification.
