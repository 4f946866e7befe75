------------------------------- MODULE Catalog -------------------------------
(***************************************************************************)
(* The catalog client: the registry bundled with the manager is verified,  *)
(* kept as the last known good one, and a view of it authorises catalog    *)
(* installations.                                                          *)
(*                                                                         *)
(* A repository is a chain of signed files: roots that sign their          *)
(* successors, a timestamp that names a snapshot, which names the targets, *)
(* which names the catalog.  A file is told apart by its role and version  *)
(* (a catalog by its hash), so a file that is there has the contents its   *)
(* hash in the chain promises; signatures are the era of the keys.         *)
(*                                                                         *)
(* A refresh verifies the bundled repository and persists it file by file, *)
(* the highest accepted versions last.  When that verification fails, the  *)
(* last known good repository is verified in its place.  The helper may    *)
(* die between two files, a write may fail, the manager (and with it the   *)
(* bundle) may be replaced by an older or a newer one, or be incomplete.   *)
(* Several requests of a session work side by side.                        *)
(***************************************************************************)
EXTENDS Naturals, Sequences, FiniteSets

CONSTANTS
  Roots,         \* root version -> [expires, era, signed]
  Timestamps,    \* timestamp version -> [expires, era, refers]
  Snapshots,     \* snapshot version -> [expires, era, refers]
  TargetsFiles,  \* targets version -> [expires, era, refers]
  Catalogs,      \* catalog -> [releases, yanked]
  Releases,      \* release -> [package, version, minimum, maximum, minimumApi, maximumApi]
  Installations, \* what may be installed: package -> version, 0 if not managed
  Hosts,         \* [version, api] of the Aseprites that ask
  Bundles,       \* the repositories that were packed into some manager
  MaxRotations,  \* MAX_ROOT_ROTATIONS
  MaxTime,       \* bound on the clock
  Request,       \* requests at work at the same time
  None

RootVersion == DOMAIN Roots
TimestampVersion == DOMAIN Timestamps
SnapshotVersion == DOMAIN Snapshots
TargetsVersion == DOMAIN TargetsFiles
CatalogHash == DOMAIN Catalogs
Release == DOMAIN Releases
Package == {Releases[r].package : r \in Release}

\* What verify_repository returns, and what trusted-versions.json holds.
Versions == [root : Nat, timestamp : Nat, snapshot : Nat, targets : Nat]
NoVersions == [root |-> 0, timestamp |-> 0, snapshot |-> 0, targets |-> 0]

\* A registry directory: root.json and metadata/timestamp.json (0: absent),
\* metadata/N.root.json, N.snapshot.json, N.targets.json, targets/<hash>.
Repository ==
  [root : RootVersion \cup {0}, roots : SUBSET RootVersion,
   timestamp : TimestampVersion \cup {0}, snapshots : SUBSET SnapshotVersion,
   targets : SUBSET TargetsVersion, catalogs : SUBSET CatalogHash]

ASSUME VersionsAssumption ==
  /\ RootVersion \subseteq Nat \ {0} /\ TimestampVersion \subseteq Nat \ {0}
  /\ SnapshotVersion \subseteq Nat \ {0} /\ TargetsVersion \subseteq Nat \ {0}
ASSUME MetadataAssumption ==
  /\ \A r \in RootVersion : Roots[r].expires \in Nat
  /\ \A t \in TimestampVersion : Timestamps[t].refers \in SnapshotVersion
  /\ \A s \in SnapshotVersion : Snapshots[s].refers \in TargetsVersion
  /\ \A g \in TargetsVersion : TargetsFiles[g].refers \in CatalogHash
ASSUME CatalogAssumption ==
  \A c \in CatalogHash : Catalogs[c].releases \subseteq Release /\ IsFiniteSet(Catalogs[c].releases)
ASSUME ReleaseAssumption ==
  /\ \A r \in Release : /\ Releases[r].version \in Nat /\ Releases[r].minimumApi \in Nat
                        /\ Releases[r].maximumApi \in Nat \cup {None}
  /\ Installations \subseteq [Package -> Nat]
ASSUME HostAssumption == \A host \in Hosts : host.api \in Nat
ASSUME BundleAssumption == Bundles \subseteq Repository
ASSUME BoundAssumption == MaxRotations \in Nat /\ MaxTime \in Nat
ASSUME NoneAssumption == None \notin CatalogHash /\ None \notin Release /\ None \notin Versions

VARIABLES
  bundle,    \* registry/ of the installed manager
  known,     \* tuf/last-known-good
  catalog,   \* tuf/catalog-v1.json
  trusted,   \* tuf/trusted-versions.json
  now,
  up,        \* a helper is running
  view,      \* its registry_view
  op,        \* where each request is
  accepted,  \* history: versions of the last view that was not a cached one
  shown      \* history: timestamp of the last view that was not expired

vars == <<bundle, known, catalog, trusted, now, up, view, op, accepted, shown>>

\* A RegistryView; "from" is None when nothing was verified (expired).
View == [catalog : CatalogHash \cup {None}, expired : BOOLEAN, cached : BOOLEAN,
         from : Versions \cup {None}]

ASSUME ViewAssumption == None \notin View

\* A request that refreshes, or one that uses the session's view.
Kind == {"refresh", "use"}
Idle == [pc |-> "idle", kind |-> None, found |-> None, file |-> 0, error |-> "ok", view |-> None]
OpState ==
  [pc : {"idle", "verify", "persist", "fallback", "publish", "decide", "download"},
   kind : Kind \cup {None}, found : Versions \cup {None}, file : 0..6,
   error : {"ok", "io", "signature", "rollback", "expired", "invalid"}, view : View \cup {None}]

TypeOK ==
  /\ bundle \in Repository /\ known \in Repository
  /\ catalog \in CatalogHash \cup {None}
  /\ trusted \in Versions /\ accepted \in Versions
  /\ now \in 0..MaxTime
  /\ up \in BOOLEAN
  /\ view \in View \cup {None}
  /\ op \in [Request -> OpState]
  /\ shown \in TimestampVersion \cup {0}

-----------------------------------------------------------------------------
(* Compatibility and updates.                                              *)

\* compare_version_parts: missing parts count as zero.
Part(v, i) == IF i <= Len(v) THEN v[i] ELSE 0
Older(v, w) ==
  \E i \in 1..4 : Part(v, i) < Part(w, i) /\ \A j \in 1..(i - 1) : Part(v, j) = Part(w, j)

\* Slip: the upper bound of the scripting API is not looked at.
Supports_NoMaximumApi(r, host) ==
  /\ ~Older(host.version, Releases[r].minimum) /\ host.api >= Releases[r].minimumApi
  /\ Releases[r].maximum # None => ~Older(Releases[r].maximum, host.version)

Supports(r, host) ==
  /\ ~Older(host.version, Releases[r].minimum) /\ host.api >= Releases[r].minimumApi
  /\ Releases[r].maximum # None => ~Older(Releases[r].maximum, host.version)
  /\ Releases[r].maximumApi # None => host.api <= Releases[r].maximumApi

\* The releases of a package above the installed version that can be offered.
Candidates(c, p, current, host) ==
  {r \in Catalogs[c].releases :
     /\ Releases[r].package = p
     /\ r \notin Catalogs[c].yanked /\ Supports(r, host)
     /\ Releases[r].version > current}

\* For every managed package the newest of them.
AvailableUpdates(c, installed, host) ==
  UNION {LET found == Candidates(c, p, installed[p], host) IN
         {r \in found : \A s \in found : Releases[s].version <= Releases[r].version} :
         p \in {x \in Package : installed[x] # 0}}

\* Versions are unique in a package, and no range of scripting APIs is empty.
ValidCatalog(c) ==
  /\ \A r, s \in Catalogs[c].releases :
       /\ Releases[r].package = Releases[s].package
       /\ Releases[r].version = Releases[s].version
       => r = s
  /\ \A r \in Catalogs[c].releases :
       /\ Releases[r].minimumApi > 0
       /\ Releases[r].maximumApi # None => Releases[r].maximumApi >= Releases[r].minimumApi

-----------------------------------------------------------------------------
(* Verifying a repository: the first check that fails, or "ok".            *)

\* The roots reached from root.json: each the successor of the one before.
Reached(repo) ==
  {n \in RootVersion :
     /\ repo.root <= n /\ n <= repo.root + MaxRotations
     /\ \A k \in (repo.root + 1)..n : k \in repo.roots}

FinalRoot(repo) == CHOOSE n \in Reached(repo) : \A m \in Reached(repo) : m <= n

RootCheck(repo, t) ==
  IF repo.root = 0 THEN "io"
  ELSE IF \E n \in Reached(repo) :
            \/ Roots[n].era \notin Roots[n].signed
            \/ n # repo.root /\ Roots[n - 1].era \notin Roots[n].signed
    THEN "signature"
  ELSE IF Roots[FinalRoot(repo)].expires <= t THEN "expired"
  ELSE IF FinalRoot(repo) < trusted.root THEN "rollback"
  ELSE "ok"

\* Slip: the version is not compared with the accepted one.
HeaderCheck_NoMinimum(file, version, minimum, era, t) ==
  IF file.era # era THEN "signature"
  ELSE IF file.expires <= t THEN "expired"
  ELSE "ok"

\* verify_role and validate_metadata_header of one file of the chain.
HeaderCheck(file, version, minimum, era, t) ==
  IF file.era # era THEN "signature"
  ELSE IF version < minimum THEN "rollback"
  ELSE IF file.expires <= t THEN "expired"
  ELSE "ok"

SnapshotOf(repo) == Timestamps[repo.timestamp].refers
TargetsOf(repo) == Snapshots[SnapshotOf(repo)].refers
CatalogOf(repo) == TargetsFiles[TargetsOf(repo)].refers

TimestampCheck(repo, t) ==
  IF repo.timestamp = 0 THEN "io"
  ELSE LET header == HeaderCheck(Timestamps[repo.timestamp], repo.timestamp,
                                 trusted.timestamp, Roots[FinalRoot(repo)].era, t) IN
       IF header = "ok" /\ SnapshotOf(repo) < trusted.snapshot THEN "rollback" ELSE header

SnapshotCheck(repo, t) ==
  IF SnapshotOf(repo) \notin repo.snapshots THEN "io"
  ELSE LET header == HeaderCheck(Snapshots[SnapshotOf(repo)], SnapshotOf(repo),
                                 trusted.snapshot, Roots[FinalRoot(repo)].era, t) IN
       IF header = "ok" /\ TargetsOf(repo) < trusted.targets THEN "rollback" ELSE header

TargetsCheck(repo, t) ==
  IF TargetsOf(repo) \notin repo.targets THEN "io"
  ELSE HeaderCheck(TargetsFiles[TargetsOf(repo)], TargetsOf(repo),
                   trusted.targets, Roots[FinalRoot(repo)].era, t)

CatalogCheck(repo) ==
  IF CatalogOf(repo) \notin repo.catalogs THEN "io"
  ELSE IF ValidCatalog(CatalogOf(repo)) THEN "ok" ELSE "invalid"

Verify(repo, t) ==
  IF RootCheck(repo, t) # "ok" THEN RootCheck(repo, t)
  ELSE IF TimestampCheck(repo, t) # "ok" THEN TimestampCheck(repo, t)
  ELSE IF SnapshotCheck(repo, t) # "ok" THEN SnapshotCheck(repo, t)
  ELSE IF TargetsCheck(repo, t) # "ok" THEN TargetsCheck(repo, t)
  ELSE CatalogCheck(repo)

VersionsOf(repo) ==
  [root |-> FinalRoot(repo), timestamp |-> repo.timestamp,
   snapshot |-> SnapshotOf(repo), targets |-> TargetsOf(repo)]

\* What validate_bundled_repository lets into a release: a whole chain with
\* every root up to the last, and no file beside it.
Released ==
  {b \in Bundles :
     /\ b.root # 0 /\ b.timestamp # 0
     /\ b.roots = (b.root + 1)..FinalRoot(b)
     /\ b.snapshots = {SnapshotOf(b)} /\ b.targets = {TargetsOf(b)}
     /\ b.catalogs = {CatalogOf(b)} /\ ValidCatalog(CatalogOf(b))}

EmptyRepository ==
  [root |-> 0, roots |-> {}, timestamp |-> 0, snapshots |-> {}, targets |-> {}, catalogs |-> {}]

Init ==
  /\ bundle \in Released /\ known = EmptyRepository
  /\ catalog = None
  /\ trusted = NoVersions /\ accepted = NoVersions
  /\ now = 0 /\ up = FALSE /\ view = None
  /\ op = [q \in Request |-> Idle]
  /\ shown = 0

-----------------------------------------------------------------------------
(* The world.                                                              *)

Tick ==
  /\ now < MaxTime
  /\ now' = now + 1
  /\ UNCHANGED <<bundle, known, catalog, trusted, up, view, op, accepted, shown>>

HelperStarts ==
  /\ ~up
  /\ up' = TRUE
  /\ UNCHANGED <<bundle, known, catalog, trusted, now, view, op, accepted, shown>>

\* It ends or dies, whatever it was doing; its view is gone with it.
HelperEnds ==
  /\ up
  /\ up' = FALSE /\ view' = None
  /\ op' = [q \in Request |-> Idle]
  /\ UNCHANGED <<bundle, known, catalog, trusted, now, accepted, shown>>

\* Another version of the manager is installed, or part of one.
ManagerReplaced ==
  /\ ~up
  /\ \E b \in Released : bundle' \in {b, [b EXCEPT !.timestamp = 0]}
  /\ UNCHANGED <<known, catalog, trusted, now, up, view, op, accepted, shown>>

-----------------------------------------------------------------------------
(* RegistryClient::refresh.                                                *)

\* refreshRegistry always refreshes; listUpdates and a preparation from the
\* catalog use the session's view and refresh when there is none.
Receive(q, kind) ==
  /\ up /\ op[q] = Idle
  /\ op' = [op EXCEPT ![q] =
       IF kind = "refresh" \/ view = None
       THEN [Idle EXCEPT !.pc = "verify", !.kind = kind]
       ELSE [Idle EXCEPT !.pc = "decide", !.kind = kind, !.view = view]]
  /\ UNCHANGED <<bundle, known, catalog, trusted, now, up, view, accepted, shown>>

VerifyBundle(q) ==
  /\ op[q].pc = "verify"
  /\ op' = [op EXCEPT ![q] =
       IF Verify(bundle, now) = "ok"
       THEN [op[q] EXCEPT !.pc = "persist", !.found = VersionsOf(bundle), !.file = 0]
       ELSE [op[q] EXCEPT !.pc = "fallback", !.error = Verify(bundle, now)]]
  /\ UNCHANGED <<bundle, known, catalog, trusted, now, up, view, accepted, shown>>

\* Slip: the accepted versions are written before the files they name.
FileWritten_VersionsFirst(file, v) ==
  LET hash == TargetsFiles[v.targets].refers IN
  /\ known' = [known EXCEPT
       !.root = IF file = 1 THEN v.root ELSE @,
       !.timestamp = IF file = 2 THEN v.timestamp ELSE @,
       !.snapshots = IF file = 3 THEN @ \cup {v.snapshot} ELSE @,
       !.targets = IF file = 4 THEN @ \cup {v.targets} ELSE @,
       !.catalogs = IF file = 5 THEN @ \cup {hash} ELSE @]
  /\ catalog' = IF file = 6 THEN hash ELSE catalog
  /\ trusted' = IF file = 0 THEN v ELSE trusted

\* Slip: the timestamp is written last, after the accepted versions.
FileWritten_TimestampLast(file, v) ==
  LET hash == TargetsFiles[v.targets].refers IN
  /\ known' = [known EXCEPT
       !.root = IF file = 0 THEN v.root ELSE @,
       !.timestamp = IF file = 2 THEN v.timestamp ELSE @,
       !.snapshots = IF file = 3 THEN @ \cup {v.snapshot} ELSE @,
       !.targets = IF file = 4 THEN @ \cup {v.targets} ELSE @,
       !.catalogs = IF file = 6 THEN @ \cup {hash} ELSE @]
  /\ catalog' = IF file = 5 THEN hash ELSE catalog
  /\ trusted' = IF file = 1 THEN v ELSE trusted

\* The six files of the repository and of the cache, then the versions.
FileWritten(file, v) ==
  LET hash == TargetsFiles[v.targets].refers IN
  /\ known' = [known EXCEPT
       !.root = IF file = 0 THEN v.root ELSE @,
       !.timestamp = IF file = 1 THEN v.timestamp ELSE @,
       !.snapshots = IF file = 2 THEN @ \cup {v.snapshot} ELSE @,
       !.targets = IF file = 3 THEN @ \cup {v.targets} ELSE @,
       !.catalogs = IF file = 4 THEN @ \cup {hash} ELSE @]
  /\ catalog' = IF file = 5 THEN hash ELSE catalog
  /\ trusted' = IF file = 6 THEN v ELSE trusted

FreshView(v) ==
  [catalog |-> TargetsFiles[v.targets].refers, expired |-> FALSE, cached |-> FALSE, from |-> v]

\* Slip: one file too many before the view is handed out.
Persist_OneMore(q) ==
  /\ op[q].pc = "persist"
  /\ FileWritten(op[q].file, op[q].found)
  /\ op' = [op EXCEPT ![q] =
       IF op[q].file < 7 THEN [op[q] EXCEPT !.file = @ + 1]
       ELSE [op[q] EXCEPT !.pc = "publish", !.view = FreshView(op[q].found)]]
  /\ UNCHANGED <<bundle, now, up, view, accepted, shown>>

Persist(q) ==
  /\ op[q].pc = "persist"
  /\ FileWritten(op[q].file, op[q].found)
  /\ op' = [op EXCEPT ![q] =
       IF op[q].file < 6 THEN [op[q] EXCEPT !.file = @ + 1]
       ELSE [op[q] EXCEPT !.pc = "publish", !.view = FreshView(op[q].found)]]
  /\ UNCHANGED <<bundle, now, up, view, accepted, shown>>

\* A write fails: the refresh fails, what is written stays.
PersistFails(q) ==
  /\ op[q].pc = "persist"
  /\ op' = [op EXCEPT ![q] = Idle]
  /\ UNCHANGED <<bundle, known, catalog, trusted, now, up, view, accepted, shown>>

CachedView ==
  [catalog |-> CatalogOf(known), expired |-> FALSE, cached |-> TRUE, from |-> VersionsOf(known)]
ExpiredView == [catalog |-> catalog, expired |-> TRUE, cached |-> TRUE, from |-> None]

FallBack(q) ==
  /\ op[q].pc = "fallback"
  /\ op' = [op EXCEPT ![q] =
       IF Verify(known, now) = "ok"
       THEN [op[q] EXCEPT !.pc = "publish", !.view = CachedView]
       ELSE IF "expired" \in {op[q].error, Verify(known, now)}
       THEN [op[q] EXCEPT !.pc = "publish", !.view = ExpiredView]
       ELSE Idle]
  /\ UNCHANGED <<bundle, known, catalog, trusted, now, up, view, accepted, shown>>

-----------------------------------------------------------------------------
(* The requests.                                                           *)

\* The session's view is replaced, whatever another request put there.
Publish(q) ==
  /\ op[q].pc = "publish"
  /\ view' = op[q].view
  /\ op' = [op EXCEPT ![q] =
       IF op[q].kind = "refresh" THEN Idle
       ELSE [op[q] EXCEPT !.pc = "decide", !.found = None, !.file = 0, !.error = "ok"]]
  /\ accepted' = IF op[q].view.cached THEN accepted ELSE op[q].view.from
  /\ shown' = IF op[q].view.expired THEN shown ELSE op[q].view.from.timestamp
  /\ UNCHANGED <<bundle, known, catalog, trusted, now, up>>

\* listUpdates: the answer changes nothing here.
ListUpdates(q) ==
  /\ op[q].pc = "decide"
  /\ op' = [op EXCEPT ![q] = Idle]
  /\ UNCHANGED <<bundle, known, catalog, trusted, now, up, view, accepted, shown>>

\* Whether a view lets a release be downloaded.
Authorizes(v, release, host) ==
  /\ ~v.expired
  /\ release \in Catalogs[v.catalog].releases
  /\ release \notin Catalogs[v.catalog].yanked
  /\ Supports(release, host)

PrepareInstall(q, release, host) ==
  /\ op[q].pc = "decide"
  /\ op' = [op EXCEPT ![q] =
       IF Authorizes(op[q].view, release, host) THEN [@ EXCEPT !.pc = "download"] ELSE Idle]
  /\ UNCHANGED <<bundle, known, catalog, trusted, now, up, view, accepted, shown>>

\* The asset is downloaded and staged, or not.
DownloadEnds(q) ==
  /\ op[q].pc = "download"
  /\ op' = [op EXCEPT ![q] = Idle]
  /\ UNCHANGED <<bundle, known, catalog, trusted, now, up, view, accepted, shown>>

Next ==
  \/ Tick \/ HelperStarts \/ HelperEnds \/ ManagerReplaced
  \/ \E q \in Request :
       \/ \E kind \in Kind : Receive(q, kind)
       \/ VerifyBundle(q) \/ Persist(q) \/ PersistFails(q) \/ FallBack(q)
       \/ Publish(q) \/ ListUpdates(q)
       \/ \E release \in Release, host \in Hosts : PrepareInstall(q, release, host)
       \/ DownloadEnds(q)

Spec == Init /\ [][Next]_vars

-----------------------------------------------------------------------------
(* Properties.                                                             *)

AtLeast(v, w) ==
  /\ v.root >= w.root /\ v.timestamp >= w.timestamp
  /\ v.snapshot >= w.snapshot /\ v.targets >= w.targets

\* A refresh that finds an unexpired view, in the bundle or in the last known
\* good repository, finds one at least as new in every role as any view a
\* refresh of the bundle has ever returned: no crash between the files, no
\* failed write and no older manager takes the catalog back behind what was
\* accepted.
FoundNotOlder ==
  [][\A q \in Request :
       op'[q].pc = "publish" /\ op[q].pc # "publish" /\ ~op'[q].view.expired
       => AtLeast(op'[q].view.from, accepted)]_vars

\* The last known good repository is never refused as rolled back: whatever
\* interrupts a refresh, the files it holds are at least as new as the
\* versions they are measured against.
FallbackNotRolledBack == Verify(known, now) # "rollback"

\* As soon as the accepted versions name the timestamp that is kept, its
\* whole chain is there.
RecordedIsComplete ==
  trusted.timestamp # 0 /\ known.timestamp = trusted.timestamp =>
    /\ known.root # 0
    /\ SnapshotOf(known) \in known.snapshots /\ TargetsOf(known) \in known.targets
    /\ CatalogOf(known) \in known.catalogs

\* What docs/registry.md says of a release's compatibility: from the minimum
\* to the optional maximum, of Aseprite and of its scripting API.
CompatibleWith(r, host) ==
  LET release == Releases[r] IN
  /\ ~Older(host.version, release.minimum)
  /\ release.maximum = None \/ ~Older(release.maximum, host.version)
  /\ host.api >= release.minimumApi
  /\ release.maximumApi = None \/ release.maximumApi >= host.api

\* What listUpdates offers from a view: only releases the catalog has not
\* withdrawn, above what is installed and compatible with the Aseprite that
\* asks; a preparation from the same view authorises each of them; and a
\* package with such a release is never left without one at least as new.
UpdatesAuthorized ==
  view # None /\ ~view.expired =>
    \A host \in Hosts, installed \in Installations :
      LET offered == AvailableUpdates(view.catalog, installed, host)
          Newer(r, s) == /\ Releases[r].package = Releases[s].package
                         /\ Releases[r].version >= Releases[s].version
          wanted == {r \in Catalogs[view.catalog].releases \ Catalogs[view.catalog].yanked :
                       /\ CompatibleWith(r, host)
                       /\ installed[Releases[r].package] # 0
                       /\ Releases[r].version > installed[Releases[r].package]}
      IN /\ offered \subseteq {r \in wanted : Authorizes(view, r, host)}
         /\ \A r \in wanted : \E s \in offered : Newer(s, r)

\* docs/registry.md: rollback is rejected "by persisting the highest accepted
\* versions".  What has been shown as valid is never followed by an older one.
NoRollbackShown == [][shown' >= shown]_vars
=============================================================================
