------------------------------- MODULE Sources -------------------------------
(***************************************************************************)
(* GitHub sources: an extension is resolved from a repository, a branch or *)
(* a release asset, installed, and looked up again from the source its     *)
(* receipt keeps.  GitHub changes between the requests of a resolution;    *)
(* each is made publicly first and then through gh.                        *)
(*                                                                         *)
(* The window lists the update that the last check has found until the     *)
(* next scan of the installed packages, whatever is installed meanwhile.   *)
(*                                                                         *)
(* One repository, one package and the manager, one resolution and one     *)
(* installation at a time.                                                 *)
(***************************************************************************)
EXTENDS Package

CONSTANTS
  Tag,          \* releases
  TagVersion,   \* the version a tag names, None for other tags
  Asset,        \* names of release assets with the extension's suffix
  ManagerAsset, \* the one of the manager
  ManagerName,  \* the manifest name of the manager
  Ref,          \* branches
  Hubs,         \* the states GitHub may be in
  FirstHubs,    \* the ones it may be in at first
  MaxChanges    \* bound: how often GitHub changes

NoUpload == <<>>

\* The repository: is it public, the files of its releases, the latest stable
\* release, the commits its branches are at, the default branch.  A commit
\* stands for its tree, an upload for its archive.
IsHub(h) ==
  /\ h.public \in BOOLEAN
  /\ DOMAIN h.assets = Tag
  /\ \A tag \in Tag :
       DOMAIN h.assets[tag] = Asset /\ \A asset \in Asset : IsTree(h.assets[tag][asset])
  /\ h.latest \in Tag \cup {None}
  /\ DOMAIN h.head = Ref /\ (\A ref \in Ref : IsTree(h.head[ref])) /\ h.default \in Ref

ASSUME HubAssumption == FirstHubs \subseteq Hubs /\ \A h \in Hubs : IsHub(h)
ASSUME TagAssumption ==
  TagVersion \in [Tag -> Version \cup {None}] /\ ManagerAsset \in Asset /\ ManagerName \in Name
ASSUME BoundAssumption == MaxChanges \in Nat

VARIABLES
  hub,       \* GitHub
  changes,   \* how often it has changed
  http,      \* the HTTP cache, by endpoint
  op,        \* the resolution under way
  seen,      \* history: what GitHub has been since the resolution began
  offer,     \* the update that is listed, its artifact in staging
  handed,    \* what the installer, then verifyInstall, is given
  installed  \* the receipt: source and package

vars == <<hub, changes, http, op, seen, offer, handed, installed>>

\* GitHubSource
Release(tag, asset) == [kind |-> "release", tag |-> tag, asset |-> asset]
Track(ref, commit) == [kind |-> "snapshot", ref |-> ref, commit |-> commit]

\* What of a source an update must not change.
Lineage(source) ==
  <<source.kind, IF source.kind = "release" THEN source.asset ELSE source.ref>>

ASSUME NoneAssumption == None \notin Tag \cup Asset \cup Ref

\* A resolution: what it is for, the receipt and the selection it started
\* from; how far it has come, whether gh is tried and whether it has given
\* access; what it has found; whether the cache stood in for GitHub.
Idle ==
  [pc |-> "idle", for |-> None, saved |-> None, select |-> None,
   via |-> "public", gh |-> FALSE, tag |-> None, asset |-> None, upload |-> NoUpload,
   ref |-> None, commit |-> NoUpload, source |-> None, package |-> NoUpload, stale |-> FALSE]

Json == {"repo", "latest", "tag", "commit"}
Downloads == {"asset", "zip"}
Endpoint ==
  {<<"repo">>, <<"latest">>} \cup {<<"tag", t>> : t \in Tag} \cup {<<"commit", r>> : r \in Ref}

TypeOK ==
  /\ hub \in Hubs /\ changes \in 0..MaxChanges
  /\ DOMAIN http = Endpoint
  /\ op.pc \in {"idle", "done"} \cup Json \cup Downloads
  /\ op.for \in {None, "install", "check", "prepare", "manager"}
  /\ op.via \in {"public", "gh"} /\ op.gh \in BOOLEAN /\ op.stale \in BOOLEAN
  /\ op.pc = "idle" => op = Idle
  /\ op.pc # "idle" => hub \in seen
  /\ op.pc = "done" => ValidExtension(op.package, None, None)

Init ==
  /\ hub \in FirstHubs /\ changes = 0
  /\ http = [e \in Endpoint |-> None]
  /\ op = Idle /\ seen = {}
  /\ offer = None /\ handed = None /\ installed = None

-----------------------------------------------------------------------------
(* GitHub, external.                                                       *)

Change ==
  /\ changes < MaxChanges
  /\ hub' \in Hubs \ {hub}
  /\ changes' = changes + 1
  /\ seen' = IF op.pc = "idle" THEN {} ELSE seen \cup {hub'}
  /\ UNCHANGED <<http, op, offer, handed, installed>>

\* What a request asks for, and GitHub's answer to it; None is NOT_FOUND.  An
\* asset is asked for publicly by its URL, through gh by the upload's id.
Asks(o) ==
  CASE o.pc = "tag" -> <<"tag", o.tag>>
    [] o.pc = "commit" -> <<"commit", o.ref>>
    [] OTHER -> <<o.pc>>

ReleaseAt(tag) == [tag |-> tag, assets |-> hub.assets[tag]]

Content(o) ==
  CASE o.pc = "repo" -> hub.default
    [] o.pc = "latest" -> IF hub.latest = None THEN None ELSE ReleaseAt(hub.latest)
    [] o.pc = "tag" -> ReleaseAt(o.tag)
    [] o.pc = "commit" -> hub.head[o.ref]
    [] o.pc = "asset" ->
         LET upload == hub.assets[o.tag][o.asset] IN
         IF upload = NoUpload \/ (o.via = "gh" /\ upload # o.upload) THEN None ELSE upload
    [] o.pc = "zip" -> o.commit

Answer(o) == IF o.via = "public" /\ ~hub.public THEN None ELSE Content(o)

-----------------------------------------------------------------------------
(* Resolution: GitHubClient.                                               *)

Access(o) == IF o.gh THEN "gh" ELSE "public"

\* allow_snapshot_after_release_lookup
NoRelease(o) ==
  IF o.select # None THEN Idle ELSE [o EXCEPT !.pc = "commit", !.via = Access(o)]

\* The assets of a release with the extension's suffix.
Matching(release) == {a \in Asset : release.assets[a] # NoUpload}

Fetch(o, release, asset) ==
  [o EXCEPT !.pc = "asset", !.tag = release.tag, !.asset = asset,
            !.upload = release.assets[asset]]

\* Slip: a selection that has disappeared is dropped.
SelectAsset_Another(o, release) ==
  IF Matching(release) = {} THEN NoRelease(o)
  ELSE IF o.select \in Matching(release) THEN Fetch(o, release, o.select)
  ELSE Fetch(o, release, CHOOSE a \in Matching(release) : TRUE)

\* Several assets and no selection: SelectionRequired; the window asks and
\* resolves again with the answer.
SelectAsset(o, release) ==
  IF Matching(release) = {} THEN NoRelease(o)
  ELSE IF o.select \in Matching(release) THEN Fetch(o, release, o.select)
  ELSE IF o.select = None /\ Cardinality(Matching(release)) = 1
       THEN Fetch(o, release, CHOOSE a \in Matching(release) : TRUE)
  ELSE Idle

\* What the request of a resolution has answered.
AfterRepo(o, branch) ==
  [o EXCEPT !.pc = "latest", !.ref = branch, !.gh = (o.via = "gh")]

AfterTag(o, release) ==
  IF o.asset \in Matching(release) THEN [Fetch(o, release, o.asset) EXCEPT !.via = "gh"]
  ELSE Idle

AfterCommit(o, commit) ==
  [o EXCEPT !.pc = "zip", !.commit = commit, !.gh = (@ \/ o.via = "gh")]

\* ensure_managed_github_source_kind, ensure_candidate_identity
SameKind(saved, source) == saved.source.kind = source.kind
SameName(saved, package) == package[ManifestFile].name = saved.package[ManifestFile].name

\* reject_self_update, and validate_manager_and_stage for the manager itself.
MayPrepare(o, package) == (o.for = "manager") = (package[ManifestFile].name = ManagerName)

\* The archive is validated; a candidate must be of the saved source.
Ready(o, source, package) ==
  IF /\ MayPrepare(o, package)
     /\ o.for \in {"check", "prepare"} => SameKind(o.saved, source)
     /\ o.for = "check" => SameName(o.saved, package)
  THEN [Idle EXCEPT !.pc = "done", !.for = o.for, !.saved = o.saved, !.stale = o.stale,
                    !.source = source, !.package = package]
  ELSE Idle

AfterAsset(o, archive) ==
  IF /\ ValidExtension(archive, None, TagVersion[o.tag])
     /\ o.for = "manager" => archive = o.upload
  THEN Ready(o, Release(o.tag, o.asset), archive)
  ELSE Idle

\* Slip: what is made of a repository is not validated.
AfterZip_Unchecked(o, tree) == Ready(o, Track(o.ref, o.commit), Snapshot(tree))

AfterZip(o, tree) ==
  IF Repackages(tree) THEN Ready(o, Track(o.ref, o.commit), Snapshot(tree)) ELSE Idle

After(o, answer) ==
  CASE o.pc = "repo" -> AfterRepo(o, answer)
    [] o.pc = "latest" -> SelectAsset(o, answer)
    [] o.pc = "tag" -> AfterTag(o, answer)
    [] o.pc = "commit" -> AfterCommit(o, answer)
    [] o.pc = "asset" -> AfterAsset(o, answer)
    [] o.pc = "zip" -> AfterZip(o, answer)

Requests == op.pc \in Json \cup Downloads

\* Slip: a cached answer is as good as GitHub's.
Fresh_CacheFirst(o) ==
  IF o.via = "public" /\ o.pc \in Json /\ http[Asks(o)] # None THEN http[Asks(o)] ELSE Answer(o)

\* get_json asks GitHub whether what it has is still current.
Fresh(o) == Answer(o)

Answered ==
  /\ Requests /\ Fresh(op) # None
  /\ http' = IF op.via = "public" /\ op.pc \in Json
             THEN [http EXCEPT ![Asks(op)] = Fresh(op)] ELSE http
  /\ op' = After(op, Fresh(op))
  /\ UNCHANGED <<hub, changes, seen, offer, handed, installed>>

\* The connection fails: the cached answer.
FromCache ==
  /\ Requests /\ op.via = "public" /\ op.pc \in Json
  /\ http[Asks(op)] # None
  /\ op' = After([op EXCEPT !.stale = TRUE], http[Asks(op)])
  /\ UNCHANGED <<hub, changes, http, seen, offer, handed, installed>>

\* gh is tried; for an asset whose upload is not known its release comes first.
TryGh(o) ==
  IF o.for = "manager" THEN Idle
  ELSE IF o.pc = "asset" /\ o.upload = NoUpload THEN [o EXCEPT !.pc = "tag"]
  ELSE [o EXCEPT !.via = "gh"]

NotFound ==
  /\ Requests /\ Answer(op) = None
  /\ op' = IF op.pc = "latest" THEN NoRelease(op)
           ELSE IF op.via = "public" THEN TryGh(op) ELSE Idle
  /\ UNCHANGED <<hub, changes, http, seen, offer, handed, installed>>

RateLimited ==
  /\ Requests /\ op.via = "public"
  /\ op' = TryGh(op)
  /\ UNCHANGED <<hub, changes, http, seen, offer, handed, installed>>

\* No connection and nothing cached, no gh, not signed in, an invalid answer.
\* Or the operation is cancelled and its result dropped.
RequestFails ==
  /\ op # Idle
  /\ op' = Idle
  /\ UNCHANGED <<hub, changes, http, seen, offer, handed, installed>>

-----------------------------------------------------------------------------
(* The requests of the window.                                             *)

\* An installation is over before the next operation of the user's begins.
Begin(o) ==
  /\ op = Idle
  /\ o.for # "check" => handed = None
  /\ op' = o /\ seen' = {hub}
  /\ UNCHANGED <<hub, changes, http, offer, handed, installed>>

\* resolveGitHub: a repository, with or without a selection, one of its
\* branches, or a release asset.
ResolveRepository(asset) ==
  Begin([Idle EXCEPT !.pc = "repo", !.for = "install", !.select = asset])
ResolveBranch(ref) == Begin([Idle EXCEPT !.pc = "commit", !.for = "install", !.ref = ref])
ResolveAsset(tag, asset) ==
  Begin([Idle EXCEPT !.pc = "asset", !.for = "install", !.tag = tag, !.asset = asset])

\* managed_github_resolution_url, github_asset_selection
SavedTarget(saved) ==
  IF saved.source.kind = "release"
  THEN [Idle EXCEPT !.pc = "repo", !.saved = saved, !.select = saved.source.asset]
  ELSE [Idle EXCEPT !.pc = "commit", !.saved = saved, !.ref = saved.source.ref]

\* listUpdates, after a scan that has cleared the list; and preparePackage with
\* a source instead of a resolution.
Resume(purpose) ==
  /\ installed # None
  /\ purpose = "check" => offer = None
  /\ Begin([SavedTarget(installed) EXCEPT !.for = purpose])

\* latest_manager_release and prepare_manager_release: only publicly.
ManagerUpdate ==
  Begin([Idle EXCEPT !.pc = "latest", !.for = "manager", !.select = ManagerAsset])

\* github_candidate_is_update
IsUpdate(saved, package) ==
  LET old == Rank[saved.package[ManifestFile].version]
      new == Rank[package[ManifestFile].version]
  IN /\ package # saved.package
     /\ \/ old = None \/ new = None
        \/ old # None /\ new # None /\ new > old
        \/ old = new /\ saved.source.kind = "snapshot"

Result(o) == [source |-> o.source, package |-> o.package, by |-> o.for, saved |-> o.saved]

\* The answer: something to install, or the new list.
Report ==
  /\ op.pc = "done"
  /\ op' = Idle /\ seen' = {}
  /\ \/ /\ op.for = "check"
        /\ offer' = IF IsUpdate(op.saved, op.package) THEN Result(op) ELSE None
        /\ UNCHANGED handed
     \/ /\ op.for # "check"
        /\ handed' = Result(op)
        /\ UNCHANGED offer
  /\ UNCHANGED <<hub, changes, http, installed>>

\* The user takes the listed update: preparePackage with its resolution.  It
\* stays listed.
Prepare ==
  /\ offer # None /\ handed = None
  /\ op.for \in {None, "check"}
  /\ handed' = offer
  /\ UNCHANGED <<hub, changes, http, op, seen, offer, installed>>

\* verifyInstall writes the receipt; the manager's is in SelfUpdate.
Install ==
  /\ handed # None /\ handed.by # "manager"
  /\ installed' = [source |-> handed.source, package |-> handed.package]
  /\ handed' = None
  /\ UNCHANGED <<hub, changes, http, op, seen, offer>>

\* The user declines, verifyInstall fails before the receipt, or the manager's
\* update goes its own way.
Decline ==
  /\ handed # None
  /\ handed' = None
  /\ UNCHANGED <<hub, changes, http, op, seen, offer, installed>>

\* At the user's wish, or when verifyInstall has answered that it has recorded
\* the package; a cancelled operation and an error are not followed by one.
\* The check of an earlier refresh is dropped; the list is a new one, without
\* updates, if the scan succeeds.
Refresh ==
  /\ op.for \in {None, "check"}
  /\ op' = Idle /\ seen' = {}
  /\ offer' \in {offer, None}
  /\ UNCHANGED <<hub, changes, http, handed, installed>>

Next ==
  \/ Change
  \/ Answered \/ FromCache \/ NotFound \/ RateLimited \/ RequestFails
  \/ \E asset \in Asset \cup {None} : ResolveRepository(asset)
  \/ \E ref \in Ref : ResolveBranch(ref)
  \/ \E tag \in Tag, asset \in Asset : ResolveAsset(tag, asset)
  \/ \E purpose \in {"check", "prepare"} : Resume(purpose)
  \/ ManagerUpdate
  \/ Report \/ Prepare \/ Install \/ Decline \/ Refresh

Spec == Init /\ [][Next]_vars

-----------------------------------------------------------------------------
(* Properties.                                                             *)

\* "Later checks do not silently switch lineage" (docs/security.md): whatever
\* becomes of the repository between the requests of a check and afterwards,
\* the update it has offered for a receipt is, once installed in the place of
\* that receipt, of the same asset or branch and the same package.
LineageKept ==
  [][installed' # installed /\ handed.by \in {"check", "prepare"} /\ handed.saved = installed =>
       /\ Lineage(installed'.source) = Lineage(installed.source)
       /\ handed.by = "check" => SameName(installed, installed'.package)]_vars

\* Without "in the place of that receipt" it is not so: a listed update
\* outlives the receipt it was found for.
ListedLineageKept ==
  [][installed' # installed /\ handed.by = "check" /\ SameName(installed, installed'.package) =>
       Lineage(installed'.source) = Lineage(installed.source)]_vars

\* What a source holds in a state of GitHub.
Holds(h, source, package) ==
  IF source.kind = "release" THEN h.assets[source.tag][source.asset] = package
  ELSE h.head[source.ref] = source.commit

\* A resolution comes to what its source has held at some moment since it
\* began, whatever has changed between its requests; a repository's release
\* has been the latest then.  An answer from the cache while the connection is
\* down is the exception.  It is the same when a check finds no update: "not
\* treated as proof that the package is current" (docs/architecture.md) is
\* what could not be looked up.
SourceHeld ==
  op.pc = "done" /\ ~op.stale =>
    /\ \E h \in seen : Holds(h, op.source, op.package)
    /\ op.source.kind = "snapshot" => op.package = Snapshot(op.source.commit)
    /\ op.source.kind = "release" /\ op.for # "install" =>
         \E h \in seen : h.latest = op.source.tag
    /\ op.for = "manager" => \E h \in seen :
         h.public /\ h.latest = op.source.tag /\ Holds(h, op.source, op.package)
=============================================================================
