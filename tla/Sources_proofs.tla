--------------------------- MODULE Sources_proofs ---------------------------
(***************************************************************************)
(* Proofs about where packages come from outside the catalog.              *)
(*                                                                         *)
(* Sources: every repository, however it changes.  A resolution carries    *)
(* with it what makes its result true: for what it has learnt there is a   *)
(* moment since it began at which GitHub was so (Evidence), and one that   *)
(* starts from a receipt asks for nothing but what the receipt names       *)
(* (Bound).                                                                *)
(*                                                                         *)
(* LocalSource: every folder, however it is edited.  What has been read    *)
(* was so at some moment of the request (Reads).                           *)
(*                                                                         *)
(* GitHubBrowser: lists and pages of any length.  What a load has found    *)
(* are the matches since the position where it began (Progress).           *)
(***************************************************************************)
EXTENDS Sources, LocalSource, GitHubBrowser, WellFoundedInduction, FiniteSetTheorems, TLAPS

Purpose == {"install", "check", "prepare", "manager"}

IsSource(source) ==
  \/ source.kind = "release" /\ source.tag \in Tag /\ source.asset \in Asset
  \/ source.kind = "snapshot" /\ source.ref \in Ref

NamedPackage(package) ==
  ValidExtension(package, None, None) /\ package[ManifestFile].name \in Name

\* What a resolution knows at each of its requests.
Asking(o) ==
  /\ o.pc = "repo" => o.for # "manager"
  /\ o.pc = "latest" => o.for = "manager" \/ o.ref \in Ref
  /\ o.pc \in {"commit", "zip"} => o.ref \in Ref /\ o.for # "manager"
  /\ o.pc \in {"tag", "asset"} => o.tag \in Tag /\ o.asset \in Asset
  /\ o.pc = "tag" => o.for = "install"
  /\ o.pc = "asset" /\ o.upload = NoUpload => o.for = "install"
  /\ o.pc = "zip" => IsTree(o.commit)

IsReceipt(r) ==
  r # None /\ IsSource(r.source) /\ NamedPackage(r.package)

\* A resolution for a receipt asks for nothing but its asset or its branch, the
\* manager's for nothing but the manager's, publicly.
Bound(o) ==
  /\ o.for \in {"check", "prepare"} =>
       /\ IsReceipt(o.saved)
       /\ o.saved.source.kind = "release" =>
            /\ o.pc \in {"repo", "latest", "asset", "done"}
            /\ o.pc # "done" => o.select = o.saved.source.asset
            /\ o.pc = "asset" => o.asset = o.saved.source.asset
       /\ o.saved.source.kind = "snapshot" =>
            /\ o.pc \in {"commit", "zip", "done"}
            /\ o.pc # "done" => o.ref = o.saved.source.ref
  /\ o.for = "manager" =>
       /\ o.pc \in {"latest", "asset", "done"} /\ o.via = "public"
       /\ o.pc = "latest" => o.select = ManagerAsset

\* What GitHub has been, of all that it has been, that makes the answers true.
Evidence(o, seenHubs) ==
  /\ o.pc = "zip" => \E h \in seenHubs : h.head[o.ref] = o.commit
  /\ o.pc = "asset" /\ o.for # "install" => \E h \in seenHubs :
       /\ h.latest = o.tag /\ h.assets[o.tag][o.asset] = o.upload
       /\ o.for = "manager" => h.public
  /\ o.pc = "done" =>
       /\ \E h \in seenHubs : Holds(h, o.source, o.package)
       /\ o.source.kind = "snapshot" => o.package = Snapshot(o.source.commit)
       /\ o.source.kind = "release" /\ o.for # "install" =>
            \E h \in seenHubs : h.latest = o.source.tag
       /\ o.for = "manager" => \E h \in seenHubs :
            h.public /\ h.latest = o.source.tag /\ Holds(h, o.source, o.package)

\* What it has come to.
Come(o) ==
  o.pc = "done" =>
    /\ IsSource(o.source) /\ NamedPackage(o.package)
    /\ o.for \in {"check", "prepare"} => Lineage(o.source) = Lineage(o.saved.source)
    /\ o.for = "check" => SameName(o.saved, o.package)

Resolution(o, seenHubs) ==
  /\ DOMAIN o = DOMAIN Idle
  /\ o.pc \in {"done"} \cup Json \cup Downloads
  /\ o.for \in Purpose /\ o.select \in Asset \cup {None}
  /\ o.via \in {"public", "gh"} /\ o.gh \in BOOLEAN /\ o.stale \in BOOLEAN
  /\ Asking(o) /\ Bound(o) /\ Come(o)
  /\ ~o.stale => Evidence(o, seenHubs)

\* What the cache holds of an endpoint.
Cached(e, reply) ==
  /\ e[1] = "repo" => reply \in Ref
  /\ e[1] \in {"latest", "tag"} => reply.tag \in Tag
  /\ e[1] = "commit" => IsTree(reply)

\* What is listed or handed to the installer is, if it was found for a receipt,
\* of its lineage, and for a check the package.
Found(x) ==
  /\ x.by \in Purpose /\ IsSource(x.source) /\ NamedPackage(x.package)
  /\ x.by \in {"check", "prepare"} => Lineage(x.source) = Lineage(x.saved.source)
  /\ x.by = "check" => SameName(x.saved, x.package)

Inv ==
  /\ TypeOK
  /\ op.pc # "idle" => Resolution(op, seen)
  /\ \A e \in Endpoint : http[e] # None => Cached(e, http[e])
  /\ offer # None => Found(offer)
  /\ handed # None => Found(handed)
  /\ installed # None => IsReceipt(installed)

-----------------------------------------------------------------------------
(* Resolutions.                                                            *)

LEMMA IdleIs ==
  /\ Idle.pc = "idle" /\ Idle.for = None /\ Idle.saved = None /\ Idle.select = None
  /\ Idle.via = "public" /\ Idle.gh = FALSE /\ Idle.upload = NoUpload /\ Idle.stale = FALSE
  /\ DOMAIN Idle = {"pc", "for", "saved", "select", "via", "gh", "tag", "asset", "upload",
                    "ref", "commit", "source", "package", "stale"}
BY DEF Idle

\* What is asked for, and how, is not what a resolution is about; nor does it
\* become wrong by being marked as stale.
LEMMA SameResolution ==
  ASSUME NEW o, NEW n, NEW S, Resolution(o, S),
         DOMAIN n = DOMAIN Idle,
         n.pc = o.pc, n.for = o.for, n.saved = o.saved, n.select = o.select,
         n.tag = o.tag, n.asset = o.asset, n.upload = o.upload, n.ref = o.ref,
         n.commit = o.commit, n.source = o.source, n.package = o.package,
         n.via \in {"public", "gh"}, o.for = "manager" => n.via = "public",
         n.gh \in BOOLEAN, n.stale \in {o.stale, TRUE}
  PROVE  Resolution(n, S)
<1>1. Asking(n) /\ Bound(n) /\ Come(n)
  BY DEF Resolution, Asking, Bound, Come
<1>2. ~n.stale => Evidence(n, S)
  BY DEF Resolution, Evidence
<1>3. n.stale \in BOOLEAN
  BY DEF Resolution
<1> QED
  BY <1>1, <1>2, <1>3 DEF Resolution

LEMMA StaleResolution ==
  ASSUME NEW o, NEW S, Resolution(o, S)
  PROVE  Resolution([o EXCEPT !.stale = TRUE], S)
<1> DEFINE n == [o EXCEPT !.stale = TRUE]
<1>1. DOMAIN o = DOMAIN Idle
  BY DEF Resolution
<1>2. /\ DOMAIN n = DOMAIN Idle /\ n.stale = TRUE
      /\ n.pc = o.pc /\ n.for = o.for /\ n.saved = o.saved /\ n.select = o.select
      /\ n.tag = o.tag /\ n.asset = o.asset /\ n.upload = o.upload /\ n.ref = o.ref
      /\ n.commit = o.commit /\ n.source = o.source /\ n.package = o.package
      /\ n.via = o.via /\ n.gh = o.gh
  BY <1>1, IdleIs
<1> HIDE DEF n
<1>3. /\ n.via \in {"public", "gh"} /\ (o.for = "manager" => n.via = "public") /\ n.gh \in BOOLEAN
  BY <1>2 DEF Resolution, Bound
<1> QED
  BY <1>2, <1>3, SameResolution DEF n

LEMMA ViaGh ==
  ASSUME NEW o, NEW S, Resolution(o, S), o.for # "manager"
  PROVE  Resolution([o EXCEPT !.via = "gh"], S)
<1> DEFINE n == [o EXCEPT !.via = "gh"]
<1>1. DOMAIN o = DOMAIN Idle
  BY DEF Resolution
<1>2. /\ DOMAIN n = DOMAIN Idle /\ n.stale = o.stale
      /\ n.pc = o.pc /\ n.for = o.for /\ n.saved = o.saved /\ n.select = o.select
      /\ n.tag = o.tag /\ n.asset = o.asset /\ n.upload = o.upload /\ n.ref = o.ref
      /\ n.commit = o.commit /\ n.source = o.source /\ n.package = o.package
      /\ n.via = "gh" /\ n.gh = o.gh
  BY <1>1, IdleIs
<1> HIDE DEF n
<1>3. n.gh \in BOOLEAN /\ n.stale \in {o.stale, TRUE}
  BY <1>2 DEF Resolution
<1> QED
  BY <1>2, <1>3, SameResolution DEF n

\* More that GitHub has been since makes nothing wrong.
LEMMA MoreSeen ==
  ASSUME NEW o, NEW S, NEW h, Resolution(o, S)
  PROVE  Resolution(o, S \cup {h})
BY DEF Resolution, Evidence

-----------------------------------------------------------------------------
(* Answers.                                                                *)

\* What an answer tells a resolution; h is what GitHub was.
Told(o, reply, S) ==
  /\ o.pc = "repo" => reply \in Ref
  /\ o.pc = "latest" =>
       /\ reply.tag \in Tag
       /\ ~o.stale => \E h \in S : /\ h.latest = reply.tag /\ h.assets[reply.tag] = reply.assets
                                   /\ o.via = "public" => h.public
  /\ o.pc = "tag" => reply.tag \in Tag
  /\ o.pc = "commit" => IsTree(reply) /\ (~o.stale => \E h \in S : h.head[o.ref] = reply)
  /\ o.pc = "asset" => IsTree(reply) /\ \E h \in S : h.assets[o.tag][o.asset] = reply
  /\ o.pc = "zip" => reply = o.commit

LEMMA AnswerTells ==
  ASSUME NEW o, NEW S, Resolution(o, S), o.pc # "done",
         hub \in Hubs, hub \in S, Answer(o) # None
  PROVE  Told(o, Answer(o), S) /\ (o.pc \in Json => Cached(Asks(o), Answer(o)))
<1>1. IsHub(hub)
  BY HubAssumption
<1>2. Answer(o) = Content(o) /\ (o.via = "public" => hub.public)
  BY DEF Answer
<1>3. CASE o.pc = "repo"
  <2>1. Content(o) = hub.default /\ Asks(o)[1] = "repo"
    BY <1>3 DEF Content, Asks
  <2> QED
    BY <1>1, <1>2, <1>3, <2>1 DEF IsHub, Told, Cached
<1>4. CASE o.pc = "latest"
  <2>1. Content(o) = (IF hub.latest = None THEN None ELSE ReleaseAt(hub.latest)) /\ Asks(o)[1] = "latest"
    BY <1>4 DEF Content, Asks
  <2>2. /\ hub.latest \in Tag /\ Answer(o).tag = hub.latest
        /\ Answer(o).assets = hub.assets[hub.latest]
    BY <1>1, <1>2, <2>1 DEF IsHub, ReleaseAt
  <2> QED
    BY <1>2, <1>4, <2>1, <2>2 DEF Told, Cached
<1>5. CASE o.pc = "tag"
  <2>1. Content(o) = ReleaseAt(o.tag) /\ Asks(o)[1] = "tag"
    BY <1>5 DEF Content, Asks
  <2>2. o.tag \in Tag /\ Answer(o).tag = o.tag
    BY <1>2, <1>5, <2>1 DEF Resolution, Asking, ReleaseAt
  <2> QED
    BY <1>5, <2>1, <2>2 DEF Told, Cached
<1>6. CASE o.pc = "commit"
  <2>1. Content(o) = hub.head[o.ref] /\ Asks(o)[1] = "commit"
    BY <1>6 DEF Content, Asks
  <2>2. IsTree(hub.head[o.ref])
    BY <1>1, <1>6 DEF Resolution, Asking, IsHub
  <2> QED
    BY <1>2, <1>6, <2>1, <2>2 DEF Told, Cached
<1>7. CASE o.pc = "asset"
  <2>1. Answer(o) = hub.assets[o.tag][o.asset]
    BY <1>2, <1>7 DEF Content
  <2>2. IsTree(hub.assets[o.tag][o.asset])
    BY <1>1, <1>7 DEF Resolution, Asking, IsHub
  <2> QED
    BY <1>7, <2>1, <2>2 DEF Told, Json
<1>8. CASE o.pc = "zip"
  BY <1>2, <1>8 DEF Content, Told, Json
<1> QED
  BY <1>3, <1>4, <1>5, <1>6, <1>7, <1>8 DEF Resolution, Json, Downloads

\* A cached answer tells a resolution that is marked as stale.
LEMMA CacheTells ==
  ASSUME NEW o, NEW S, Resolution(o, S), o.pc \in Json, o.stale,
         NEW reply, Cached(Asks(o), reply)
  PROVE  Told(o, reply, S)
<1>1. Asks(o)[1] = o.pc
  BY DEF Asks, Json
<1> QED
  BY <1>1 DEF Cached, Told, Json

LEMMA AsksEndpoint ==
  ASSUME NEW o, NEW S, Resolution(o, S), o.pc \in Json
  PROVE  Asks(o) \in Endpoint
BY DEF Resolution, Asking, Asks, Json, Endpoint

-----------------------------------------------------------------------------
(* What follows an answer.                                                 *)

Kept(o, S) == o = Idle \/ Resolution(o, S)

LEMMA AfterRepoKept ==
  ASSUME NEW o, NEW S, Resolution(o, S), o.pc = "repo", NEW branch \in Ref
  PROVE  Resolution(AfterRepo(o, branch), S)
<1> DEFINE n == AfterRepo(o, branch)
<1>1. DOMAIN o = DOMAIN Idle
  BY DEF Resolution
<1>2. /\ DOMAIN n = DOMAIN Idle /\ n.pc = "latest" /\ n.ref = branch /\ n.gh = (o.via = "gh")
      /\ n.for = o.for /\ n.saved = o.saved /\ n.select = o.select /\ n.via = o.via
      /\ n.stale = o.stale
  BY <1>1, IdleIs DEF AfterRepo
<1> HIDE DEF n
<1>3. Asking(n) /\ Come(n) /\ Evidence(n, S)
  BY <1>2 DEF Asking, Come, Evidence
<1>4. Bound(n)
  <2>1. n.for # "manager" /\ Bound(o)
    BY <1>2 DEF Resolution, Asking
  <2> QED
    BY <1>2, <2>1 DEF Bound
<1>5. n.pc \in Json /\ n.gh \in BOOLEAN
  BY <1>2 DEF Json
<1> QED
  BY <1>2, <1>3, <1>4, <1>5 DEF Resolution, n

LEMMA NoReleaseKept ==
  ASSUME NEW o, NEW S, Resolution(o, S), o.pc = "latest"
  PROVE  Kept(NoRelease(o), S)
<1>1. CASE o.select # None
  BY <1>1 DEF NoRelease, Kept
<1>2. CASE o.select = None
  <2> DEFINE n == [o EXCEPT !.pc = "commit", !.via = Access(o)]
  <2>1. DOMAIN o = DOMAIN Idle
    BY DEF Resolution
  <2>2. /\ DOMAIN n = DOMAIN Idle /\ n.pc = "commit" /\ n.via = Access(o) /\ n.ref = o.ref
        /\ n.for = o.for /\ n.saved = o.saved /\ n.select = o.select /\ n.gh = o.gh
        /\ n.stale = o.stale
    BY <2>1, IdleIs
  <2> HIDE DEF n
  <2>3. o.for = "install"
    <3>1. o.for # "manager"
      BY <1>2, TagAssumption, NoneAssumption DEF Resolution, Bound
    <3>2. o.for \notin {"check", "prepare"}
      BY <1>2, NoneAssumption DEF Resolution, Bound, IsReceipt, IsSource
    <3> QED
      BY <3>1, <3>2 DEF Resolution, Purpose
  <2>4. o.ref \in Ref
    BY <2>3 DEF Resolution, Asking
  <2>5. Asking(n) /\ Bound(n) /\ Come(n) /\ Evidence(n, S)
    BY <2>2, <2>3, <2>4 DEF Asking, Bound, Come, Evidence
  <2>6. n.pc \in Json /\ n.via \in {"public", "gh"}
    BY <2>2 DEF Json, Access
  <2>7. Resolution(n, S)
    BY <2>2, <2>5, <2>6 DEF Resolution
  <2> QED
    BY <1>2, <2>7 DEF NoRelease, Kept, n
<1> QED
  BY <1>1, <1>2

\* The asset of a receipt and the manager's are fetched from the release that
\* was the latest.
LEMMA FetchKept ==
  ASSUME NEW o, NEW S, Resolution(o, S), o.pc \in {"latest", "tag"},
         NEW release, Told(o, release, S) \/ o.for = "install", release.tag \in Tag,
         NEW asset \in Matching(release), o.for # "install" => asset = o.select
  PROVE  Resolution(Fetch(o, release, asset), S)
<1> DEFINE n == Fetch(o, release, asset)
<1>1. DOMAIN o = DOMAIN Idle
  BY DEF Resolution
<1>2. /\ DOMAIN n = DOMAIN Idle /\ n.pc = "asset" /\ n.tag = release.tag /\ n.asset = asset
      /\ n.upload = release.assets[asset]
      /\ n.for = o.for /\ n.saved = o.saved /\ n.select = o.select /\ n.via = o.via
      /\ n.gh = o.gh /\ n.stale = o.stale
  BY <1>1, IdleIs DEF Fetch
<1> HIDE DEF n
<1>3. asset \in Asset /\ release.assets[asset] # NoUpload
  BY DEF Matching
<1>4. Asking(n) /\ Come(n)
  BY <1>2, <1>3 DEF Asking, Come
<1>5. Bound(n)
  <2>1. o.for # "install" => o.pc = "latest"
    BY DEF Resolution, Asking
  <2> QED
    BY <1>2, <2>1 DEF Resolution, Bound
<1>6. ~n.stale => Evidence(n, S)
  <2> SUFFICES ASSUME ~o.stale, o.for # "install"
               PROVE  \E h \in S : /\ h.latest = n.tag /\ h.assets[n.tag][n.asset] = n.upload
                                   /\ n.for = "manager" => h.public
    BY <1>2 DEF Evidence
  <2>1. o.pc = "latest"
    BY DEF Resolution, Asking
  <2>2. PICK h \in S : /\ h.latest = release.tag /\ h.assets[release.tag] = release.assets
                       /\ o.via = "public" => h.public
    BY <2>1 DEF Told
  <2>3. o.for = "manager" => o.via = "public"
    BY DEF Resolution, Bound
  <2> QED
    BY <1>2, <2>2, <2>3
<1>7. n.pc \in Downloads
  BY <1>2 DEF Downloads
<1> QED
  BY <1>2, <1>4, <1>5, <1>6, <1>7 DEF Resolution, n

LEMMA SelectAssetKept ==
  ASSUME NEW o, NEW S, Resolution(o, S), o.pc = "latest", NEW release, Told(o, release, S)
  PROVE  Kept(SelectAsset(o, release), S)
<1>1. release.tag \in Tag
  BY DEF Told
<1>2. CASE Matching(release) = {}
  BY <1>2, NoReleaseKept DEF SelectAsset
<1>3. CASE Matching(release) # {} /\ o.select \in Matching(release)
  <2>1. Resolution(Fetch(o, release, o.select), S)
    BY <1>1, <1>3, FetchKept
  <2> QED
    BY <1>3, <2>1 DEF SelectAsset, Kept
<1>4. CASE /\ Matching(release) # {} /\ o.select \notin Matching(release)
           /\ o.select = None /\ Cardinality(Matching(release)) = 1
  <2> DEFINE asset == CHOOSE a \in Matching(release) : TRUE
  <2>1. asset \in Matching(release)
    BY <1>4
  <2>2. o.for = "install"
    <3>1. o.for # "manager"
      BY <1>4, TagAssumption, NoneAssumption DEF Resolution, Bound
    <3>2. o.for \notin {"check", "prepare"}
      BY <1>4, NoneAssumption DEF Resolution, Bound, IsReceipt, IsSource
    <3> QED
      BY <3>1, <3>2 DEF Resolution, Purpose
  <2> HIDE DEF asset
  <2>3. Resolution(Fetch(o, release, asset), S)
    BY <1>1, <2>1, <2>2, FetchKept
  <2> QED
    BY <1>4, <2>3 DEF SelectAsset, Kept, asset
<1>5. CASE /\ Matching(release) # {} /\ o.select \notin Matching(release)
           /\ ~(o.select = None /\ Cardinality(Matching(release)) = 1)
  BY <1>5 DEF SelectAsset, Kept
<1> QED
  BY <1>2, <1>3, <1>4, <1>5

LEMMA AfterTagKept ==
  ASSUME NEW o, NEW S, Resolution(o, S), o.pc = "tag",
         NEW release, Told(o, release, S)
  PROVE  Kept(AfterTag(o, release), S)
<1>1. CASE o.asset \notin Matching(release)
  BY <1>1 DEF AfterTag, Kept
<1>2. CASE o.asset \in Matching(release)
  <2> DEFINE n == Fetch(o, release, o.asset)
  <2>1. o.for = "install" /\ release.tag \in Tag
    BY DEF Resolution, Asking, Told
  <2>2. Resolution(n, S)
    BY <1>2, <2>1, FetchKept
  <2>3. n.for = "install"
    BY <2>1, IdleIs DEF Fetch, Resolution
  <2> HIDE DEF n
  <2>4. Resolution([n EXCEPT !.via = "gh"], S)
    BY <2>2, <2>3, ViaGh
  <2> QED
    BY <1>2, <2>4 DEF AfterTag, Kept, n
<1> QED
  BY <1>1, <1>2

LEMMA AfterCommitKept ==
  ASSUME NEW o, NEW S, Resolution(o, S), o.pc = "commit",
         NEW commit, Told(o, commit, S)
  PROVE  Resolution(AfterCommit(o, commit), S)
<1> DEFINE n == AfterCommit(o, commit)
<1>1. DOMAIN o = DOMAIN Idle
  BY DEF Resolution
<1>2. /\ DOMAIN n = DOMAIN Idle /\ n.pc = "zip" /\ n.commit = commit
      /\ n.gh = (o.gh \/ o.via = "gh")
      /\ n.for = o.for /\ n.saved = o.saved /\ n.select = o.select /\ n.via = o.via
      /\ n.ref = o.ref /\ n.stale = o.stale
  BY <1>1, IdleIs DEF AfterCommit
<1> HIDE DEF n
<1>3. o.ref \in Ref /\ o.for # "manager" /\ IsTree(commit)
  BY DEF Resolution, Asking, Told
<1>4. Asking(n) /\ Come(n)
  BY <1>2, <1>3 DEF Asking, Come
<1>5. Bound(n)
  BY <1>2, <1>3 DEF Resolution, Bound
<1>6. ~n.stale => Evidence(n, S)
  BY <1>2 DEF Told, Evidence
<1>7. n.pc \in Downloads /\ n.gh \in BOOLEAN
  BY <1>2 DEF Downloads, Resolution
<1> QED
  BY <1>2, <1>4, <1>5, <1>6, <1>7 DEF Resolution, n

\* What is ready is of the source it was looked up for, and GitHub has held it.
LEMMA ReadyKept ==
  ASSUME NEW o, NEW S, Resolution(o, S),
         NEW source, IsSource(source), NEW package, NamedPackage(package),
         o.for \in {"check", "prepare"} => Lineage(source) = Lineage(o.saved.source),
         ~o.stale =>
           /\ \E h \in S : Holds(h, source, package)
           /\ source.kind = "snapshot" => package = Snapshot(source.commit)
           /\ source.kind = "release" /\ o.for # "install" => \E h \in S : h.latest = source.tag
           /\ o.for = "manager" =>
                \E h \in S : h.public /\ h.latest = source.tag /\ Holds(h, source, package)
  PROVE  Kept(Ready(o, source, package), S)
<1> DEFINE n == [Idle EXCEPT !.pc = "done", !.for = o.for, !.saved = o.saved, !.stale = o.stale,
                             !.source = source, !.package = package]
<1>1. CASE Ready(o, source, package) = Idle
  BY <1>1 DEF Kept
<1>2. CASE Ready(o, source, package) # Idle
  <2>1. Ready(o, source, package) = n /\ (o.for = "check" => SameName(o.saved, package))
    BY <1>2 DEF Ready
  <2>2. /\ DOMAIN n = DOMAIN Idle /\ n.pc = "done" /\ n.for = o.for /\ n.saved = o.saved
        /\ n.stale = o.stale /\ n.source = source /\ n.package = package
        /\ n.select = None /\ n.via = "public" /\ n.gh = FALSE
    BY IdleIs
  <2> HIDE DEF n
  <2>3. o.for \in {"check", "prepare"} => IsReceipt(o.saved)
    BY DEF Resolution, Bound
  <2>4. Asking(n) /\ Bound(n)
    BY <2>2, <2>3 DEF Asking, Bound
  <2>5. Come(n)
    BY <2>1, <2>2, <2>3 DEF Come
  <2>6. ~n.stale => Evidence(n, S)
    BY <2>2 DEF Evidence
  <2>7. Resolution(n, S)
    BY <2>2, <2>4, <2>5, <2>6 DEF Resolution
  <2> QED
    BY <2>1, <2>7 DEF Kept
<1> QED
  BY <1>1, <1>2

\* A valid package has a name.
LEMMA ValidIsNamed ==
  ASSUME NEW tree, IsTree(tree), NEW name, NEW version, ValidExtension(tree, name, version)
  PROVE  NamedPackage(tree)
<1>1. ValidExtension(tree, None, None)
  BY DEF ValidExtension
<1>2. tree[ManifestFile].name \in Name
  BY DEF ValidExtension, Inspects, ValidManifest, IsTree, Manifests
<1> QED
  BY <1>1, <1>2 DEF NamedPackage

\* So has the snapshot of a repository.
LEMMA SnapshotIsNamed ==
  ASSUME NEW tree, IsTree(tree), Repackages(tree)
  PROVE  NamedPackage(Snapshot(tree))
<1>1. /\ ManifestFile \in DOMAIN tree /\ ValidManifest(tree[ManifestFile])
      /\ ManifestFile \in Collected(DOMAIN tree, Ignored(tree))
      /\ ValidExtension(Snapshot(tree), tree[ManifestFile].name, tree[ManifestFile].version)
  BY DEF Repackages, Snapshots, Collects
<1>2. ValidExtension(Snapshot(tree), None, None)
  BY <1>1 DEF ValidExtension
<1>3. Snapshot(tree)[ManifestFile] = tree[ManifestFile]
  BY <1>1 DEF Snapshot, Restrict
<1>4. tree[ManifestFile].name \in Name
  BY <1>1 DEF IsTree, Manifests, ValidManifest
<1> QED
  BY <1>2, <1>3, <1>4 DEF NamedPackage

LEMMA AfterAssetKept ==
  ASSUME NEW o, NEW S, Resolution(o, S), o.pc = "asset", NEW archive, Told(o, archive, S)
  PROVE  Kept(AfterAsset(o, archive), S)
<1> DEFINE source == Release(o.tag, o.asset)
<1>1. CASE ~(/\ ValidExtension(archive, None, TagVersion[o.tag])
             /\ o.for = "manager" => archive = o.upload)
  BY <1>1 DEF AfterAsset, Kept
<1>2. CASE /\ ValidExtension(archive, None, TagVersion[o.tag])
           /\ o.for = "manager" => archive = o.upload
  <2>1. /\ o.tag \in Tag /\ o.asset \in Asset /\ IsTree(archive)
        /\ \E h \in S : h.assets[o.tag][o.asset] = archive
    BY DEF Resolution, Asking, Told
  <2>2. source.kind = "release" /\ source.tag = o.tag /\ source.asset = o.asset
    BY DEF Release
  <2> HIDE DEF source
  <2>3. IsSource(source) /\ NamedPackage(archive)
    BY <1>2, <2>1, <2>2, ValidIsNamed DEF IsSource
  <2>4. o.for \in {"check", "prepare"} => Lineage(source) = Lineage(o.saved.source)
    BY <2>2 DEF Resolution, Bound, IsReceipt, IsSource, Lineage
  <2>5. \E h \in S : Holds(h, source, archive)
    BY <2>1, <2>2 DEF Holds
  <2>6. ~o.stale /\ o.for # "install" =>
          \E h \in S : /\ h.latest = source.tag
                       /\ o.for = "manager" => h.public /\ Holds(h, source, archive)
    BY <1>2, <2>2 DEF Resolution, Evidence, Holds
  <2>7. Kept(Ready(o, source, archive), S)
    BY <2>2, <2>3, <2>4, <2>5, <2>6, ReadyKept
  <2> QED
    BY <1>2, <2>7 DEF AfterAsset, source
<1> QED
  BY <1>1, <1>2

LEMMA AfterZipKept ==
  ASSUME NEW o, NEW S, Resolution(o, S), o.pc = "zip", NEW tree, Told(o, tree, S)
  PROVE  Kept(AfterZip(o, tree), S)
<1> DEFINE source == Track(o.ref, o.commit)
<1>1. CASE ~Repackages(tree)
  BY <1>1 DEF AfterZip, Kept
<1>2. CASE Repackages(tree)
  <2>1. o.ref \in Ref /\ o.for # "manager" /\ IsTree(o.commit) /\ tree = o.commit
    BY DEF Resolution, Asking, Told
  <2>2. source.kind = "snapshot" /\ source.ref = o.ref /\ source.commit = o.commit
    BY DEF Track
  <2> HIDE DEF source
  <2>3. IsSource(source) /\ NamedPackage(Snapshot(tree))
    BY <1>2, <2>1, <2>2, SnapshotIsNamed DEF IsSource
  <2>4. o.for \in {"check", "prepare"} => Lineage(source) = Lineage(o.saved.source)
    BY <2>2 DEF Resolution, Bound, IsReceipt, IsSource, Lineage
  <2>5. ~o.stale => \E h \in S : Holds(h, source, Snapshot(tree))
    BY <2>1, <2>2 DEF Resolution, Evidence, Holds
  <2>6. Kept(Ready(o, source, Snapshot(tree)), S)
    BY <2>1, <2>2, <2>3, <2>4, <2>5, ReadyKept
  <2> QED
    BY <1>2, <2>6 DEF AfterZip, source
<1> QED
  BY <1>1, <1>2

LEMMA AfterKept ==
  ASSUME NEW o, NEW S, Resolution(o, S), o.pc # "done", NEW reply, Told(o, reply, S)
  PROVE  Kept(After(o, reply), S)
<1>1. CASE o.pc = "repo"
  BY <1>1, AfterRepoKept DEF After, Told, Kept
<1>2. CASE o.pc = "latest"
  BY <1>2, SelectAssetKept DEF After
<1>3. CASE o.pc = "tag"
  BY <1>3, AfterTagKept DEF After
<1>4. CASE o.pc = "commit"
  BY <1>4, AfterCommitKept DEF After, Kept
<1>5. CASE o.pc = "asset"
  BY <1>5, AfterAssetKept DEF After
<1>6. CASE o.pc = "zip"
  BY <1>6, AfterZipKept DEF After
<1> QED
  BY <1>1, <1>2, <1>3, <1>4, <1>5, <1>6 DEF Resolution, Json, Downloads

LEMMA TryGhKept ==
  ASSUME NEW o, NEW S, Resolution(o, S), o.pc # "done"
  PROVE  Kept(TryGh(o), S)
<1>1. CASE o.for = "manager"
  BY <1>1 DEF TryGh, Kept
<1>2. CASE o.for # "manager" /\ o.pc = "asset" /\ o.upload = NoUpload
  <2> DEFINE n == [o EXCEPT !.pc = "tag"]
  <2>1. DOMAIN o = DOMAIN Idle /\ o.for = "install" /\ o.tag \in Tag /\ o.asset \in Asset
    BY <1>2 DEF Resolution, Asking
  <2>2. /\ DOMAIN n = DOMAIN Idle /\ n.pc = "tag" /\ n.tag = o.tag /\ n.asset = o.asset
        /\ n.for = o.for /\ n.select = o.select /\ n.via = o.via /\ n.gh = o.gh
        /\ n.stale = o.stale
    BY <2>1, IdleIs
  <2> HIDE DEF n
  <2>3. Asking(n) /\ Bound(n) /\ Come(n) /\ Evidence(n, S)
    BY <2>1, <2>2 DEF Asking, Bound, Come, Evidence
  <2>4. Resolution(n, S)
    BY <2>2, <2>3 DEF Resolution, Json
  <2> QED
    BY <1>2, <2>4 DEF TryGh, Kept, n
<1>3. CASE o.for # "manager" /\ ~(o.pc = "asset" /\ o.upload = NoUpload)
  BY <1>3, ViaGh DEF TryGh, Kept
<1> QED
  BY <1>1, <1>2, <1>3

-----------------------------------------------------------------------------
(* The invariant.                                                          *)

LEMMA InitInv == Init => Inv
<1> SUFFICES ASSUME Init PROVE Inv
  OBVIOUS
<1>1. hub \in Hubs /\ changes \in 0..MaxChanges /\ DOMAIN http = Endpoint
  BY HubAssumption, BoundAssumption DEF Init
<1>2. /\ op.pc = "idle" /\ op.for = None /\ op.via = "public"
      /\ op.gh = FALSE /\ op.stale = FALSE /\ op = Idle
  BY IdleIs DEF Init
<1>3. TypeOK
  BY <1>1, <1>2 DEF Init, TypeOK
<1> QED
  BY <1>2, <1>3 DEF Init, Inv

\* A request is answered, or is not.
LEMMA RequestInv ==
  ASSUME Inv, op.pc # "idle", Kept(op', seen),
         UNCHANGED <<hub, changes, seen, offer, handed, installed>>,
         DOMAIN http' = Endpoint, \A e \in Endpoint : http'[e] # None => Cached(e, http'[e])
  PROVE  Inv'
<1>1. TypeOK'
  <2>1. CASE op' = Idle
    BY <2>1, IdleIs DEF Inv, TypeOK
  <2>2. CASE Resolution(op', seen)
    <3>1. /\ op'.pc \in {"done"} \cup Json \cup Downloads /\ op'.for \in Purpose
          /\ op'.via \in {"public", "gh"} /\ op'.gh \in BOOLEAN /\ op'.stale \in BOOLEAN
          /\ op'.pc = "done" => ValidExtension(op'.package, None, None)
      BY <2>2 DEF Resolution, Come, NamedPackage
    <3>2. op'.pc # "idle"
      BY <3>1 DEF Json, Downloads
    <3> QED
      BY <3>1, <3>2 DEF Inv, TypeOK, Purpose
  <2> QED
    BY <2>1, <2>2 DEF Kept
<1>2. op'.pc # "idle" => Resolution(op', seen')
  BY IdleIs DEF Kept
<1> QED
  BY <1>1, <1>2 DEF Inv

\* What Inv says of a resolution that waits for an answer.
LEMMA Requesting ==
  ASSUME Inv, Requests
  PROVE  /\ op.pc # "idle" /\ op.pc # "done" /\ Resolution(op, seen)
         /\ hub \in Hubs /\ hub \in seen /\ DOMAIN http = Endpoint
BY DEF Inv, TypeOK, Requests, Json, Downloads

LEMMA AnsweredInv == ASSUME Inv, Answered PROVE Inv'
<1>1. Requests /\ Answer(op) # None /\ op' = After(op, Answer(op))
      /\ http' = (IF op.via = "public" /\ op.pc \in Json
                  THEN [http EXCEPT ![Asks(op)] = Answer(op)] ELSE http)
      /\ UNCHANGED <<hub, changes, seen, offer, handed, installed>>
  BY DEF Answered, Fresh
<1>2. /\ op.pc # "idle" /\ op.pc # "done" /\ Resolution(op, seen)
      /\ hub \in Hubs /\ hub \in seen /\ DOMAIN http = Endpoint
  BY <1>1, Requesting
<1>3. Told(op, Answer(op), seen) /\ (op.pc \in Json => Cached(Asks(op), Answer(op)))
  BY <1>1, <1>2, AnswerTells
<1>4. Kept(op', seen)
  BY <1>1, <1>2, <1>3, AfterKept
<1>5. DOMAIN http' = Endpoint /\ \A e \in Endpoint : http'[e] # None => Cached(e, http'[e])
  BY <1>1, <1>2, <1>3 DEF Inv
<1> QED
  BY <1>1, <1>2, <1>4, <1>5, RequestInv

LEMMA FromCacheInv == ASSUME Inv, FromCache PROVE Inv'
<1> DEFINE o == [op EXCEPT !.stale = TRUE]
<1>1. /\ Requests /\ op.pc \in Json /\ http[Asks(op)] # None /\ op' = After(o, http[Asks(op)])
      /\ UNCHANGED <<hub, changes, http, seen, offer, handed, installed>>
  BY DEF FromCache
<1>2. /\ op.pc # "idle" /\ op.pc # "done" /\ Resolution(op, seen)
      /\ DOMAIN http = Endpoint
  BY <1>1, Requesting
<1>3. Resolution(o, seen)
  BY <1>2, StaleResolution
<1>4. o.pc = op.pc /\ o.tag = op.tag /\ o.ref = op.ref /\ o.for = op.for /\ o.stale
  BY <1>2, IdleIs DEF Resolution
<1>5. Asks(o) = Asks(op)
  BY <1>4 DEF Asks
<1> HIDE DEF o
<1>6. Cached(Asks(o), http[Asks(o)])
  BY <1>1, <1>2, <1>5, AsksEndpoint DEF Inv
<1>7. Told(o, http[Asks(o)], seen)
  BY <1>1, <1>3, <1>4, <1>6, CacheTells
<1>8. Kept(op', seen)
  BY <1>1, <1>2, <1>3, <1>4, <1>5, <1>7, AfterKept
<1> QED
  BY <1>1, <1>2, <1>8, RequestInv DEF Inv

\* Neither access: the next one is tried, or another source, or none.
LEMMA UnansweredInv == ASSUME Inv, NotFound \/ RateLimited PROVE Inv'
<1>1. /\ Requests /\ op' \in {Idle, TryGh(op), NoRelease(op)}
      /\ op' = NoRelease(op) => op.pc = "latest" \/ op' \in {Idle, TryGh(op)}
      /\ UNCHANGED <<hub, changes, http, seen, offer, handed, installed>>
  BY DEF NotFound, RateLimited
<1>2. /\ op.pc # "idle" /\ op.pc # "done" /\ Resolution(op, seen)
      /\ DOMAIN http = Endpoint
  BY <1>1, Requesting
<1>3. Kept(Idle, seen) /\ Kept(TryGh(op), seen)
  BY <1>2, TryGhKept DEF Kept
<1>4. op.pc = "latest" => Kept(NoRelease(op), seen)
  BY <1>2, NoReleaseKept
<1>5. Kept(op', seen)
  BY <1>1, <1>3, <1>4
<1> QED
  BY <1>1, <1>2, <1>5, RequestInv DEF Inv

LEMMA ChangeInv == ASSUME Inv, Change PROVE Inv'
<1>1. /\ hub' \in Hubs /\ changes' \in 0..MaxChanges
      /\ seen' = (IF op.pc = "idle" THEN {} ELSE seen \cup {hub'})
      /\ UNCHANGED <<http, op, offer, handed, installed>>
  BY BoundAssumption DEF Inv, TypeOK, Change
<1>2. TypeOK'
  BY <1>1 DEF Inv, TypeOK
<1>3. op'.pc # "idle" => Resolution(op', seen')
  BY <1>1, MoreSeen DEF Inv
<1> QED
  BY <1>1, <1>2, <1>3 DEF Inv

\* A resolution begins.
LEMMA BeginInv ==
  ASSUME Inv, NEW o, Begin(o), Resolution(o, {hub})
  PROVE  Inv'
<1>1. /\ op' = o /\ seen' = {hub}
      /\ UNCHANGED <<hub, changes, http, offer, handed, installed>>
  BY DEF Begin
<1>2. /\ o.pc \in {"done"} \cup Json \cup Downloads /\ o.for \in Purpose
      /\ o.via \in {"public", "gh"} /\ o.gh \in BOOLEAN /\ o.stale \in BOOLEAN
      /\ o.pc = "done" => ValidExtension(o.package, None, None)
  BY DEF Resolution, Come, NamedPackage
<1>3. o.pc # "idle"
  BY <1>2 DEF Json, Downloads
<1>4. TypeOK'
  BY <1>1, <1>2, <1>3 DEF Inv, TypeOK, Purpose
<1> QED
  BY <1>1, <1>4 DEF Inv

LEMMA ResolveInv ==
  ASSUME Inv,
         \/ \E asset \in Asset \cup {None} : ResolveRepository(asset)
         \/ \E ref \in Ref : ResolveBranch(ref)
         \/ \E tag \in Tag, asset \in Asset : ResolveAsset(tag, asset)
  PROVE  Inv'
<1>1. ASSUME NEW asset \in Asset \cup {None}, ResolveRepository(asset) PROVE Inv'
  <2> DEFINE o == [Idle EXCEPT !.pc = "repo", !.for = "install", !.select = asset]
  <2>1. /\ DOMAIN o = DOMAIN Idle /\ o.pc = "repo" /\ o.for = "install" /\ o.select = asset
        /\ o.via = "public" /\ o.gh = FALSE /\ o.stale = FALSE
    BY IdleIs
  <2>2. Begin(o)
    BY <1>1 DEF ResolveRepository
  <2> HIDE DEF o
  <2>3. Resolution(o, {hub})
    BY <2>1 DEF Resolution, Asking, Bound, Come, Evidence, Purpose, Json
  <2> QED
    BY <2>2, <2>3, BeginInv
<1>2. ASSUME NEW ref \in Ref, ResolveBranch(ref) PROVE Inv'
  <2> DEFINE o == [Idle EXCEPT !.pc = "commit", !.for = "install", !.ref = ref]
  <2>1. /\ DOMAIN o = DOMAIN Idle /\ o.pc = "commit" /\ o.for = "install" /\ o.ref = ref
        /\ o.select = None /\ o.via = "public" /\ o.gh = FALSE /\ o.stale = FALSE
    BY IdleIs
  <2>2. Begin(o)
    BY <1>2 DEF ResolveBranch
  <2> HIDE DEF o
  <2>3. Resolution(o, {hub})
    BY <2>1 DEF Resolution, Asking, Bound, Come, Evidence, Purpose, Json
  <2> QED
    BY <2>2, <2>3, BeginInv
<1>3. ASSUME NEW tag \in Tag, NEW asset \in Asset, ResolveAsset(tag, asset) PROVE Inv'
  <2> DEFINE o == [Idle EXCEPT !.pc = "asset", !.for = "install", !.tag = tag, !.asset = asset]
  <2>1. /\ DOMAIN o = DOMAIN Idle /\ o.pc = "asset" /\ o.for = "install"
        /\ o.tag = tag /\ o.asset = asset
        /\ o.select = None /\ o.via = "public" /\ o.gh = FALSE /\ o.stale = FALSE
    BY IdleIs
  <2>2. Begin(o)
    BY <1>3 DEF ResolveAsset
  <2> HIDE DEF o
  <2>3. Resolution(o, {hub})
    BY <2>1 DEF Resolution, Asking, Bound, Come, Evidence, Purpose, Downloads
  <2> QED
    BY <2>2, <2>3, BeginInv
<1> QED
  BY <1>1, <1>2, <1>3

LEMMA ManagerUpdateInv == ASSUME Inv, ManagerUpdate PROVE Inv'
<1> DEFINE o == [Idle EXCEPT !.pc = "latest", !.for = "manager", !.select = ManagerAsset]
<1>1. /\ DOMAIN o = DOMAIN Idle /\ o.pc = "latest" /\ o.for = "manager"
      /\ o.select = ManagerAsset /\ o.via = "public" /\ o.gh = FALSE /\ o.stale = FALSE
  BY IdleIs
<1>2. Begin(o)
  BY DEF ManagerUpdate
<1> HIDE DEF o
<1>3. Resolution(o, {hub})
  BY <1>1, TagAssumption DEF Resolution, Asking, Bound, Come, Evidence, Purpose, Json
<1> QED
  BY <1>2, <1>3, BeginInv

\* A resolution from the receipt.
LEMMA ResumeInv ==
  ASSUME Inv, NEW purpose \in {"check", "prepare"}, Resume(purpose)
  PROVE  Inv'
<1> DEFINE o == [SavedTarget(installed) EXCEPT !.for = purpose]
<1>1. Begin(o) /\ IsReceipt(installed) /\ IsSource(installed.source)
  BY DEF Resume, Inv, IsReceipt
<1>2. CASE installed.source.kind = "release"
  <2>1. /\ DOMAIN o = DOMAIN Idle /\ o.pc = "repo" /\ o.for = purpose /\ o.saved = installed
        /\ o.select = installed.source.asset
        /\ o.via = "public" /\ o.gh = FALSE /\ o.stale = FALSE
    BY <1>2, IdleIs DEF SavedTarget
  <2>2. installed.source.asset \in Asset
    BY <1>1, <1>2 DEF IsSource
  <2> HIDE DEF o
  <2>3. Resolution(o, {hub})
    BY <1>1, <1>2, <2>1, <2>2 DEF Resolution, Asking, Bound, Come, Evidence, Purpose, Json
  <2> QED
    BY <1>1, <2>3, BeginInv
<1>3. CASE installed.source.kind = "snapshot"
  <2>1. /\ DOMAIN o = DOMAIN Idle /\ o.pc = "commit" /\ o.for = purpose /\ o.saved = installed
        /\ o.ref = installed.source.ref /\ o.select = None
        /\ o.via = "public" /\ o.gh = FALSE /\ o.stale = FALSE
    BY <1>3, IdleIs DEF SavedTarget
  <2>2. installed.source.ref \in Ref
    BY <1>1, <1>3 DEF IsSource
  <2> HIDE DEF o
  <2>3. Resolution(o, {hub})
    BY <1>1, <1>3, <2>1, <2>2 DEF Resolution, Asking, Bound, Come, Evidence, Purpose, Json
  <2> QED
    BY <1>1, <2>3, BeginInv
<1> QED
  BY <1>1, <1>2, <1>3 DEF IsSource

LEMMA ReportInv == ASSUME Inv, Report PROVE Inv'
<1> DEFINE x == Result(op)
<1>1. /\ op.pc = "done" /\ op' = Idle /\ seen' = {}
      /\ offer' \in {x, None, offer} /\ handed' \in {x, handed}
      /\ UNCHANGED <<hub, changes, http, installed>>
  BY DEF Report
<1>2. x.source = op.source /\ x.package = op.package /\ x.by = op.for /\ x.saved = op.saved
  BY DEF Result
<1> HIDE DEF x
<1>3. Resolution(op, seen)
  BY <1>1 DEF Inv
<1>4. Found(x)
  BY <1>1, <1>2, <1>3 DEF Found, Resolution, Come
<1>5. TypeOK'
  BY <1>1, IdleIs DEF Inv, TypeOK
<1> QED
  BY <1>1, <1>4, <1>5, IdleIs DEF Inv

\* The list and what is handed over come and go.
LEMMA OfferInv == ASSUME Inv, Prepare \/ Decline \/ Refresh \/ RequestFails PROVE Inv'
<1>1. /\ UNCHANGED <<hub, changes, http, installed>>
      /\ (op' = op /\ seen' = seen) \/ op' = Idle
      /\ offer' \in {offer, None} /\ handed' \in {offer, handed, None}
  BY DEF Prepare, Decline, Refresh, RequestFails
<1>2. TypeOK'
  BY <1>1, IdleIs DEF Inv, TypeOK
<1> QED
  BY <1>1, <1>2, IdleIs DEF Inv

LEMMA InstallInv == ASSUME Inv, Install PROVE Inv'
<1>1. /\ handed # None /\ Found(handed)
      /\ installed' = [source |-> handed.source, package |-> handed.package]
      /\ handed' = None /\ UNCHANGED <<hub, changes, http, op, seen, offer>>
  BY DEF Install, Inv
<1>2. TypeOK'
  BY <1>1 DEF Inv, TypeOK
<1>3. installed' # None => IsReceipt(installed')
  BY <1>1 DEF Found, IsReceipt
<1> QED
  BY <1>1, <1>2, <1>3 DEF Inv

LEMMA NextInv == Inv /\ [Next]_vars => Inv'
<1> SUFFICES ASSUME Inv, [Next]_vars PROVE Inv'
  OBVIOUS
<1>1. CASE Change
  BY <1>1, ChangeInv
<1>2. CASE Answered
  BY <1>2, AnsweredInv
<1>3. CASE FromCache
  BY <1>3, FromCacheInv
<1>4. CASE NotFound \/ RateLimited
  BY <1>4, UnansweredInv
<1>5. CASE \/ \E asset \in Asset \cup {None} : ResolveRepository(asset)
           \/ \E ref \in Ref : ResolveBranch(ref)
           \/ \E tag \in Tag, asset \in Asset : ResolveAsset(tag, asset)
  BY <1>5, ResolveInv
<1>6. CASE \E purpose \in {"check", "prepare"} : Resume(purpose)
  BY <1>6, ResumeInv
<1>7. CASE ManagerUpdate
  BY <1>7, ManagerUpdateInv
<1>8. CASE Report
  BY <1>8, ReportInv
<1>9. CASE Prepare \/ Decline \/ Refresh \/ RequestFails
  BY <1>9, OfferInv
<1>10. CASE Install
  BY <1>10, InstallInv
<1>11. CASE UNCHANGED vars
  BY <1>11 DEF vars, Inv, TypeOK
<1> QED
  BY <1>1, <1>2, <1>3, <1>4, <1>5, <1>6, <1>7, <1>8, <1>9, <1>10, <1>11 DEF Next

THEOREM Invariance == Spec => []Inv
BY InitInv, NextInv, PTL DEF Spec

-----------------------------------------------------------------------------
(* The properties.                                                         *)

\* Every variable has its type, and what a resolution comes to is a valid
\* extension.
THEOREM TypeCorrect == Spec => []TypeOK
<1>1. Inv => TypeOK
  BY DEF Inv
<1> QED
  BY <1>1, Invariance, PTL

\* What was found for a receipt, however the repository changed meanwhile, is of
\* its lineage when it is installed in its place.
THEOREM LineageIsKept == Spec => LineageKept
<1> DEFINE Step ==
      installed' # installed /\ handed.by \in {"check", "prepare"} /\ handed.saved = installed =>
        /\ Lineage(installed'.source) = Lineage(installed.source)
        /\ handed.by = "check" => SameName(installed, installed'.package)
<1>1. Inv /\ [Next]_vars => [Step]_vars
  <2> SUFFICES ASSUME Inv, Next, installed' # installed PROVE Step
    BY DEF vars
  <2>1. Install
    BY DEF Next, Change, Answered, FromCache, NotFound, RateLimited, RequestFails,
           ResolveRepository, ResolveBranch, ResolveAsset, Resume, ManagerUpdate, Begin,
           Report, Prepare, Decline, Refresh
  <2>2. /\ Found(handed)
        /\ installed' = [source |-> handed.source, package |-> handed.package]
    BY <2>1 DEF Install, Inv
  <2> QED
    BY <2>2 DEF Found
<1> QED
  BY <1>1, Invariance, PTL DEF Spec, LineageKept

\* What a resolution comes to, its source has held since it began; a check's
\* and the manager's release has been the latest one then.
THEOREM SourceWasHeld == Spec => []SourceHeld
<1>1. Inv => SourceHeld
  <2> SUFFICES ASSUME Inv, op.pc = "done", ~op.stale PROVE SourceHeld
    BY DEF SourceHeld
  <2>1. Evidence(op, seen)
    BY DEF Inv, Resolution
  <2> QED
    BY <2>1 DEF Evidence, SourceHeld
<1> QED
  BY <1>1, Invariance, PTL

-----------------------------------------------------------------------------
(* Linked folders: the invariant of LocalSource.                           *)

\* What a request has read, its files held at some moment since it began.
Reads ==
  /\ request.pc \in {"manifest", "ignore", "walk"} => request.read = <<>>
  /\ request.pc \in {"ignore", "walk", "read"} =>
       request.manifest \in held[ManifestFile] \ {None} /\ ValidManifest(request.manifest)
  /\ request.pc \in {"walk", "read"} =>
       \/ request.ignored \in held[IgnoreFile] \ {None}
       \/ request.ignored = {} /\ None \in held[IgnoreFile]
  /\ request.pc = "read" =>
       /\ \E files \in SUBSET File :
            /\ \A f \in files : held[f] \ {None} # {}
            /\ \A f \in File \ files : None \in held[f]
            /\ Collects(files, request.ignored)
            /\ request.todo \cup DOMAIN request.read = Collected(files, request.ignored)
       /\ request.read = [f \in DOMAIN request.read |-> request.read[f]]
       /\ \A f \in DOMAIN request.read : request.read[f] \in held[f] \ {None}
       /\ NoNative(DOMAIN request.read)

FolderInv ==
  /\ DOMAIN folder \subseteq File /\ \A f \in DOMAIN folder : folder[f] # None
  /\ DOMAIN request = DOMAIN NoRequest /\ DOMAIN held = File
  /\ request.pc \in {"idle", "manifest", "ignore", "walk", "read"}
  /\ request.pc # "idle" => \A f \in File : At(folder, f) \in held[f]
  /\ Reads
  /\ SnapshotTrue

\* A folder that was left alone is what was seen of it at any moment.
LEMMA QuietIs ==
  ASSUME Quiet, NEW f \in File, NEW c \in held[f]
  PROVE  /\ held[f] = {c}
         /\ f \in DOMAIN Then <=> c # None
         /\ c # None => Then[f] = c
<1>1. held[f] = {c}
  BY DEF Quiet
<1>2. (CHOOSE content \in held[f] : TRUE) = c
  BY <1>1
<1>3. DOMAIN Then = {g \in File : held[g] # {None}}
  BY DEF Then
<1>4. f \in DOMAIN Then => Then[f] = c
  BY <1>2 DEF Then
<1> QED
  BY <1>1, <1>3, <1>4

LEMMA QuietFolder ==
  ASSUME Quiet, FolderInv, request.pc # "idle"
  PROVE  DOMAIN Then = DOMAIN folder /\ \A f \in DOMAIN folder : Then[f] = folder[f]
<1>1. ASSUME NEW f \in File
      PROVE  /\ f \in DOMAIN Then <=> f \in DOMAIN folder
             /\ f \in DOMAIN folder => Then[f] = folder[f]
  <2>1. At(folder, f) \in held[f] /\ (f \in DOMAIN folder => folder[f] # None)
    BY DEF FolderInv
  <2>2. At(folder, f) # None <=> f \in DOMAIN folder
    BY <2>1 DEF At
  <2>3. f \in DOMAIN folder => At(folder, f) = folder[f]
    BY DEF At
  <2> QED
    BY <2>1, <2>2, <2>3, QuietIs
<1>2. DOMAIN Then \subseteq File /\ DOMAIN folder \subseteq File
  BY DEF Then, FolderInv
<1> QED
  BY <1>1, <1>2

LEMMA FilesAre == ManifestFile \in File /\ IgnoreFile \in File
BY FileAssumption

\* What is read of a folder that is left alone is its snapshot, so far.
LEMMA QuietReads ==
  ASSUME Quiet, FolderInv, request.pc = "read"
  PROVE  /\ ManifestFile \in DOMAIN Then /\ ValidManifest(Then[ManifestFile])
         /\ request.manifest = Then[ManifestFile]
         /\ Collects(DOMAIN Then, Ignored(Then))
         /\ request.todo \cup DOMAIN request.read = DOMAIN Snapshot(Then)
         /\ \A f \in DOMAIN request.read : request.read[f] = Snapshot(Then)[f]
<1>1. PICK files \in SUBSET File :
        /\ \A f \in files : held[f] \ {None} # {}
        /\ \A f \in File \ files : None \in held[f]
        /\ Collects(files, request.ignored)
        /\ request.todo \cup DOMAIN request.read = Collected(files, request.ignored)
  BY DEF FolderInv, Reads
<1>2. files = DOMAIN Then
  <2>1. ASSUME NEW f \in File PROVE f \in files <=> f \in DOMAIN Then
    <3>1. CASE f \in files
      <4>1. PICK c \in held[f] : c # None
        BY <1>1, <3>1
      <4> QED
        BY <3>1, <4>1, QuietIs
    <3>2. CASE f \notin files
      BY <1>1, <3>2, QuietIs
    <3> QED
      BY <3>1, <3>2
  <2>2. DOMAIN Then \subseteq File
    BY DEF Then
  <2> QED
    BY <2>1, <2>2
<1>3. /\ ManifestFile \in DOMAIN Then /\ request.manifest = Then[ManifestFile]
      /\ ValidManifest(request.manifest)
  <2>1. request.manifest \in held[ManifestFile] \ {None} /\ ValidManifest(request.manifest)
    BY DEF FolderInv, Reads
  <2> QED
    BY <2>1, FilesAre, QuietIs
<1>4. request.ignored = Ignored(Then)
  <2>1. CASE request.ignored \in held[IgnoreFile] \ {None}
    BY <2>1, FilesAre, QuietIs DEF Ignored
  <2>2. CASE request.ignored = {} /\ None \in held[IgnoreFile]
    BY <2>2, FilesAre, QuietIs DEF Ignored
  <2> QED
    BY <2>1, <2>2 DEF FolderInv, Reads
<1>5. /\ DOMAIN Snapshot(Then) = Collected(DOMAIN Then, Ignored(Then))
      /\ \A f \in DOMAIN Snapshot(Then) : Snapshot(Then)[f] = Then[f]
  BY DEF Snapshot, Restrict
<1>6. ASSUME NEW f \in DOMAIN request.read PROVE request.read[f] = Snapshot(Then)[f]
  <2>1. request.read[f] \in held[f] \ {None} /\ f \in DOMAIN Snapshot(Then)
    BY <1>1, <1>2, <1>4, <1>5 DEF FolderInv, Reads
  <2>2. f \in File
    BY <1>1, <1>2, <1>5, <2>1 DEF Collected
  <2> QED
    BY <1>5, <2>1, <2>2, QuietIs
<1> QED
  BY <1>1, <1>2, <1>3, <1>4, <1>5, <1>6

\* A request that has read everything: what it has packaged.
LEMMA ReadIs ==
  ASSUME FolderInv, request.pc = "read", request.todo = {}
  PROVE  /\ Packaged(request) => ValidExtension(request.read, None, None)
         /\ \A f \in DOMAIN request.read : request.read[f] \in held[f]
         /\ \A f \in File \ (Dropped \cup UNION (held[IgnoreFile] \ {None})) :
              None \notin held[f] => f \in DOMAIN request.read
         /\ Quiet => /\ request.read = Snapshot(Then)
                     /\ request.manifest = Then[ManifestFile]
                     /\ Packaged(request) <=> Snapshots(Then)
<1>1. Packaged(request) => ValidExtension(request.read, None, None)
  BY DEF Packaged, ValidExtension
<1>2. \A f \in DOMAIN request.read : request.read[f] \in held[f]
  BY DEF FolderInv, Reads
<1>3. ASSUME NEW f \in File \ (Dropped \cup UNION (held[IgnoreFile] \ {None})), None \notin held[f]
      PROVE  f \in DOMAIN request.read
  <2>1. PICK files \in SUBSET File :
          /\ \A g \in File \ files : None \in held[g]
          /\ request.todo \cup DOMAIN request.read = Collected(files, request.ignored)
    BY DEF FolderInv, Reads
  <2>2. f \in files
    BY <1>3, <2>1
  <2>3. f \notin request.ignored
    BY <1>3 DEF FolderInv, Reads
  <2> QED
    BY <1>3, <2>1, <2>2, <2>3 DEF Collected
<1>4. ASSUME Quiet
      PROVE  /\ request.read = Snapshot(Then)
             /\ request.manifest = Then[ManifestFile]
             /\ Packaged(request) <=> Snapshots(Then)
  <2>1. /\ ManifestFile \in DOMAIN Then /\ ValidManifest(Then[ManifestFile])
        /\ request.manifest = Then[ManifestFile]
        /\ Collects(DOMAIN Then, Ignored(Then))
        /\ DOMAIN request.read = DOMAIN Snapshot(Then)
        /\ \A f \in DOMAIN request.read : request.read[f] = Snapshot(Then)[f]
    BY <1>4, QuietReads
  <2>2. request.read = [f \in DOMAIN request.read |-> request.read[f]]
    BY DEF FolderInv, Reads
  <2>3. Snapshot(Then) = [f \in DOMAIN Snapshot(Then) |-> Snapshot(Then)[f]]
    BY DEF Snapshot, Restrict
  <2>4. request.read = Snapshot(Then)
    BY <2>1, <2>2, <2>3
  <2> QED
    BY <2>1, <2>4 DEF Packaged, Snapshots
<1> QED
  BY <1>1, <1>2, <1>3, <1>4

NoRequestIs ==
  /\ NoRequest.pc = "idle" /\ NoRequest.read = <<>>
  /\ DOMAIN NoRequest = {"pc", "for", "saved", "manifest", "ignored", "todo", "read"}

LEMMA NoRequestHolds == NoRequestIs
BY DEF NoRequest, NoRequestIs

\* What is said of the last request stays true as long as nothing else is said
\* and no request is under way.
LEMMA StillTrue ==
  ASSUME SnapshotTrue,
         \/ request'.pc # "idle"
         \/ request.pc = "idle" /\ UNCHANGED <<held, answer>>
         \/ answer'.verdict \in {None, "failed"}
  PROVE  SnapshotTrue'
<1>1. CASE request'.pc # "idle" \/ answer'.verdict \in {None, "failed"}
  BY <1>1 DEF SnapshotTrue
<1>2. CASE request.pc = "idle" /\ UNCHANGED <<held, answer>> /\ request'.pc = "idle"
  <2>1. Quiet' = Quiet /\ Then' = Then
    BY <1>2 DEF Quiet, Then
  <2> QED
    BY <1>2, <2>1 DEF SnapshotTrue
<1> QED
  BY <1>1, <1>2

\* What has been read stays read, however the folder is edited.
LEMMA ReadsGrow ==
  ASSUME Reads, request' = request, \A f \in File : held[f] \subseteq held'[f]
  PROVE  Reads'
<1>1. request'.pc \in {"ignore", "walk", "read"} =>
        request'.manifest \in held'[ManifestFile] \ {None} /\ ValidManifest(request'.manifest)
  BY FilesAre DEF Reads
<1>2. request'.pc \in {"walk", "read"} =>
        \/ request'.ignored \in held'[IgnoreFile] \ {None}
        \/ request'.ignored = {} /\ None \in held'[IgnoreFile]
  BY FilesAre DEF Reads
<1>3. ASSUME request'.pc = "read"
      PROVE  \E files \in SUBSET File :
               /\ \A f \in files : held'[f] \ {None} # {}
               /\ \A f \in File \ files : None \in held'[f]
               /\ Collects(files, request'.ignored)
               /\ request'.todo \cup DOMAIN request'.read = Collected(files, request'.ignored)
  <2>1. PICK files \in SUBSET File :
          /\ \A f \in files : held[f] \ {None} # {}
          /\ \A f \in File \ files : None \in held[f]
          /\ Collects(files, request.ignored)
          /\ request.todo \cup DOMAIN request.read = Collected(files, request.ignored)
    BY <1>3 DEF Reads
  <2>2. \A f \in files : held'[f] \ {None} # {}
    BY <2>1
  <2>3. \A f \in File \ files : None \in held'[f]
    BY <2>1
  <2> QED
    BY <2>1, <2>2, <2>3
<1>4. ASSUME request'.pc = "read", NEW f \in DOMAIN request.read
      PROVE  request.read[f] \in held'[f] \ {None}
  <2>1. f \in File /\ request.read[f] \in held[f] \ {None}
    BY <1>4 DEF Reads, Collected
  <2> QED
    BY <2>1
<1> QED
  BY <1>1, <1>2, <1>3, <1>4 DEF Reads

\* The author's step: a file comes to hold something.
LEMMA HoldInv ==
  ASSUME FolderInv, NEW f \in File, NEW content, Hold(f, content),
         DOMAIN folder' \subseteq File, \A g \in DOMAIN folder' : folder'[g] # None,
         \A g \in File \ {f} : At(folder', g) = At(folder, g), At(folder', f) = content,
         UNCHANGED <<request, staging, answer, update, given, receipt>>
  PROVE  FolderInv'
<1>1. /\ DOMAIN held = File
      /\ held' = (IF request.pc = "idle" THEN held ELSE [held EXCEPT ![f] = @ \cup {content}])
  BY DEF FolderInv, Hold
<1>2. DOMAIN held' = File /\ \A g \in File : held[g] \subseteq held'[g]
  BY <1>1
<1>3. ASSUME request'.pc # "idle", NEW g \in File PROVE At(folder', g) \in held'[g]
  <2>1. At(folder, g) \in held[g]
    BY <1>3 DEF FolderInv
  <2> QED
    BY <1>1, <1>3, <2>1
<1>4. Reads'
  BY <1>2, ReadsGrow DEF FolderInv
<1>5. SnapshotTrue'
  BY <1>1, StillTrue DEF FolderInv
<1>6. \A g \in File : At(folder, g)' = At(folder', g)
  BY DEF At
<1> QED
  BY <1>2, <1>3, <1>4, <1>5, <1>6 DEF FolderInv

LEMMA EditInv == ASSUME FolderInv, NEW f \in File, Edit(f) PROVE FolderInv'
<1>1. PICK content \in Contents[f] :
        /\ folder' = [g \in DOMAIN folder \cup {f} |-> IF g = f THEN content ELSE folder[g]]
        /\ Hold(f, content)
  BY DEF Edit, Put
<1>2. content # None
  BY ContentsAssumption
<1>3. DOMAIN folder' \subseteq File /\ \A g \in DOMAIN folder' : folder'[g] # None
  BY <1>1, <1>2 DEF FolderInv
<1>4. (\A g \in File \ {f} : At(folder', g) = At(folder, g)) /\ At(folder', f) = content
  BY <1>1 DEF At
<1> QED
  BY <1>1, <1>3, <1>4, HoldInv DEF Edit

LEMMA DeleteInv == ASSUME FolderInv, NEW f \in File, Delete(f) PROVE FolderInv'
<1>1. folder' = [g \in DOMAIN folder \ {f} |-> folder[g]] /\ Hold(f, None)
  BY DEF Delete, Restrict
<1>2. DOMAIN folder' \subseteq File /\ \A g \in DOMAIN folder' : folder'[g] # None
  BY <1>1 DEF FolderInv
<1>3. (\A g \in File \ {f} : At(folder', g) = At(folder, g)) /\ At(folder', f) = None
  BY <1>1 DEF At
<1> QED
  BY <1>1, <1>2, <1>3, HoldInv DEF Delete

\* A step that leaves the folder and the request alone.
LEMMA AsideInv ==
  ASSUME FolderInv, UNCHANGED <<folder, request, held, answer>>
  PROVE  FolderInv'
<1>1. Reads'
  BY ReadsGrow DEF FolderInv
<1>2. SnapshotTrue'
  BY StillTrue DEF FolderInv
<1> QED
  BY <1>1, <1>2 DEF FolderInv, At

\* No request is under way afterwards.
LEMMA OverInv ==
  ASSUME FolderInv, request' = NoRequest, UNCHANGED <<folder, held>>, SnapshotTrue'
  PROVE  FolderInv'
<1>1. request'.pc = "idle"
  BY NoRequestHolds DEF NoRequestIs
<1>2. Reads'
  BY <1>1 DEF Reads
<1> QED
  BY <1>1, <1>2 DEF FolderInv

LEMMA FolderRefreshInv == ASSUME FolderInv, FolderRefresh PROVE FolderInv'
<1>1. CASE request.for = "check"
  <2>1. request' = NoRequest /\ answer'.verdict = None /\ UNCHANGED <<folder, held>>
    BY <1>1 DEF FolderRefresh, NoAnswer
  <2>2. SnapshotTrue'
    BY <2>1, StillTrue DEF FolderInv
  <2> QED
    BY <2>1, <2>2, OverInv
<1>2. CASE request.for # "check"
  <2>1. UNCHANGED <<folder, request, held, answer>>
    BY <1>2 DEF FolderRefresh
  <2> QED
    BY <2>1, AsideInv
<1> QED
  BY <1>1, <1>2

LEMMA BeginSnapshotInv == ASSUME FolderInv, NEW purpose, BeginSnapshot(purpose) PROVE FolderInv'
<1>1. /\ request' = [NoRequest EXCEPT !.pc = "manifest", !.for = purpose, !.saved = receipt]
      /\ held' = [f \in File |-> {At(folder, f)}] /\ UNCHANGED folder
  BY DEF BeginSnapshot
<1>2. DOMAIN request' = DOMAIN NoRequest /\ request'.pc = "manifest" /\ request'.read = <<>>
  BY <1>1, NoRequestHolds DEF NoRequestIs
<1>3. Reads'
  BY <1>2 DEF Reads
<1>4. SnapshotTrue'
  BY <1>2, StillTrue DEF FolderInv
<1>5. \A f \in File : At(folder, f)' \in held'[f]
  BY <1>1 DEF At
<1> QED
  BY <1>1, <1>2, <1>3, <1>4, <1>5 DEF FolderInv

\* A request goes on.
LEMMA GoInv ==
  ASSUME FolderInv, NEW o, Go(o), request.pc # "idle", DOMAIN o = DOMAIN NoRequest,
         o.pc \in {"ignore", "walk", "read"}, Reads'
  PROVE  FolderInv'
<1>1. request' = o /\ UNCHANGED <<folder, held, answer>>
  BY DEF Go
<1>2. request'.pc # "idle"
  BY <1>1
<1>3. SnapshotTrue'
  BY <1>2, StillTrue DEF FolderInv
<1> QED
  BY <1>1, <1>2, <1>3 DEF FolderInv, At

\* A request ends with something true.
LEMMA EndInv ==
  ASSUME FolderInv, NEW verdict, NEW tree, End(verdict, tree),
         verdict # "refused" =>
           /\ ValidExtension(tree, None, None)
           /\ \A f \in DOMAIN tree : tree[f] \in held[f]
           /\ \A f \in File \ (Dropped \cup UNION (held[IgnoreFile] \ {None})) :
                None \notin held[f] => f \in DOMAIN tree,
         Quiet =>
           /\ verdict = "refused" <=>
                ~Snapshots(Then) \/ (request.for = "check"
                   /\ Then[ManifestFile].name # request.saved[ManifestFile].name)
           /\ verdict = "offer" => Snapshot(Then) # request.saved
           /\ verdict = "same" => Snapshot(Then) = request.saved
  PROVE  FolderInv'
<1>1. /\ request' = NoRequest /\ UNCHANGED <<folder, held>>
      /\ answer'.verdict = verdict /\ answer'.for = request.for
      /\ answer'.saved = request.saved /\ answer'.tree = tree
  BY DEF End
<1>2. Quiet' = Quiet /\ Then' = Then
  BY <1>1 DEF Quiet, Then
<1>3. SnapshotTrue'
  BY <1>1, <1>2 DEF SnapshotTrue
<1> QED
  BY <1>1, <1>3, OverInv

LEMMA RefuseInv ==
  ASSUME FolderInv, Refuse, Quiet => ~Snapshots(Then)
  PROVE  FolderInv'
BY EndInv DEF Refuse

LEMMA ReadManifestInv == ASSUME FolderInv, ReadManifest PROVE FolderInv'
<1>1. CASE ManifestFile \in DOMAIN folder /\ ValidManifest(folder[ManifestFile])
  <2> DEFINE o == [request EXCEPT !.pc = "ignore", !.manifest = folder[ManifestFile]]
  <2>1. Go(o) /\ request.pc # "idle" /\ UNCHANGED held /\ request' = o
    BY <1>1 DEF ReadManifest, Go
  <2>2. /\ DOMAIN o = DOMAIN NoRequest /\ o.pc = "ignore"
        /\ o.manifest = folder[ManifestFile] /\ o.read = request.read
    BY NoRequestHolds DEF FolderInv, NoRequestIs
  <2> HIDE DEF o
  <2>3. folder[ManifestFile] \in held[ManifestFile] \ {None}
    BY <1>1, <2>1, FilesAre DEF FolderInv, At
  <2>4. request.read = <<>>
    BY DEF ReadManifest, FolderInv, Reads
  <2>5. Reads'
    BY <1>1, <2>1, <2>2, <2>3, <2>4 DEF Reads
  <2> QED
    BY <2>1, <2>2, <2>5, GoInv
<1>2. CASE ~(ManifestFile \in DOMAIN folder /\ ValidManifest(folder[ManifestFile]))
  <2>1. Refuse /\ request.pc # "idle"
    BY <1>2 DEF ReadManifest
  <2>2. Quiet => ~Snapshots(Then)
    BY <1>2, <2>1, QuietFolder DEF Snapshots
  <2> QED
    BY <2>1, <2>2, RefuseInv
<1> QED
  BY <1>1, <1>2

LEMMA ReadIgnoreInv == ASSUME FolderInv, ReadIgnore PROVE FolderInv'
<1> DEFINE o == [request EXCEPT !.pc = "walk", !.ignored = Ignored(folder)]
<1>1. Go(o) /\ request.pc = "ignore" /\ UNCHANGED held /\ request' = o
  BY DEF ReadIgnore, Go
<1>2. /\ DOMAIN o = DOMAIN NoRequest /\ o.pc = "walk" /\ o.ignored = Ignored(folder)
      /\ o.manifest = request.manifest /\ o.read = request.read
  BY NoRequestHolds DEF FolderInv, NoRequestIs
<1> HIDE DEF o
<1>3. At(folder, IgnoreFile) \in held[IgnoreFile]
  BY <1>1, FilesAre DEF FolderInv
<1>4. \/ Ignored(folder) \in held[IgnoreFile] \ {None}
      \/ Ignored(folder) = {} /\ None \in held[IgnoreFile]
  BY <1>3 DEF FolderInv, At, Ignored
<1>5. Reads'
  BY <1>1, <1>2, <1>4 DEF FolderInv, Reads
<1> QED
  BY <1>1, <1>2, <1>5, GoInv

LEMMA WalkInv == ASSUME FolderInv, Walk PROVE FolderInv'
<1>1. CASE Collects(DOMAIN folder, request.ignored)
  <2> DEFINE o == [request EXCEPT !.pc = "read", !.todo = Collected(DOMAIN folder, request.ignored)]
  <2>1. Go(o) /\ request.pc = "walk" /\ UNCHANGED held /\ request' = o
    BY <1>1 DEF Walk, Go
  <2>2. /\ DOMAIN o = DOMAIN NoRequest /\ o.pc = "read" /\ o.ignored = request.ignored
        /\ o.manifest = request.manifest /\ o.read = request.read
        /\ o.todo = Collected(DOMAIN folder, request.ignored)
    BY NoRequestHolds DEF FolderInv, NoRequestIs
  <2> HIDE DEF o
  <2>3. request.read = <<>>
    BY <2>1 DEF FolderInv, Reads
  <2>4. DOMAIN request.read = {} /\ request.read = [f \in DOMAIN request.read |-> request.read[f]]
    BY <2>3
  <2>5. DOMAIN folder \in SUBSET File
    BY DEF FolderInv
  <2>6. /\ \A f \in DOMAIN folder : held[f] \ {None} # {}
        /\ \A f \in File \ DOMAIN folder : None \in held[f]
    <3>1. \A f \in File : At(folder, f) \in held[f]
      BY <2>1 DEF FolderInv
    <3> QED
      BY <2>5, <3>1 DEF At, FolderInv
  <2>7. o.todo \cup DOMAIN o.read = Collected(DOMAIN folder, o.ignored)
    BY <2>2, <2>4
  <2>8. NoNative({})
    BY DEF NoNative
  <2>9. \E files \in SUBSET File :
          /\ \A f \in files : held[f] \ {None} # {}
          /\ \A f \in File \ files : None \in held[f]
          /\ Collects(files, o.ignored)
          /\ o.todo \cup DOMAIN o.read = Collected(files, o.ignored)
    BY <1>1, <2>2, <2>5, <2>6, <2>7
  <2>10. Reads'
    <3>1. /\ request.manifest \in held[ManifestFile] \ {None} /\ ValidManifest(request.manifest)
          /\ \/ request.ignored \in held[IgnoreFile] \ {None}
             \/ request.ignored = {} /\ None \in held[IgnoreFile]
      BY <2>1 DEF FolderInv, Reads
    <3> QED
      BY <2>1, <2>2, <2>4, <2>8, <2>9, <3>1 DEF Reads
  <2> QED
    BY <2>1, <2>2, <2>10, GoInv
<1>2. CASE ~Collects(DOMAIN folder, request.ignored)
  <2>1. Refuse /\ request.pc = "walk"
    BY <1>2 DEF Walk
  <2>2. ASSUME Quiet PROVE ~Snapshots(Then)
    <3>1. DOMAIN Then = DOMAIN folder
      BY <2>1, <2>2, QuietFolder
    <3>2. request.ignored = Ignored(Then)
      BY <2>1, <2>2, FilesAre, QuietIs DEF FolderInv, Reads, Ignored
    <3> QED
      BY <1>2, <3>1, <3>2 DEF Snapshots
  <2> QED
    BY <2>1, <2>2, RefuseInv
<1> QED
  BY <1>1, <1>2

\* There is a next file.
LEMMA NextFileIs ==
  ASSUME NEW todo \in SUBSET File, todo # {}
  PROVE  NextFile(todo) \in todo
<1> DEFINE T == {Order[f] : f \in todo}
<1>1. T \subseteq Nat /\ T # {}
  BY OrderAssumption
<1>2. PICK x \in T : \A y \in T : ~(<<y, x>> \in OpToRel(<, Nat))
  BY <1>1, NatLessThanWellFounded, WFMin
<1>3. \A y \in T : ~(y < x)
  BY <1>1, <1>2 DEF OpToRel
<1>4. PICK f \in todo : x = Order[f]
  OBVIOUS
<1>5. \A g \in todo : Order[f] <= Order[g]
  BY <1>1, <1>3, <1>4
<1> QED
  BY <1>5 DEF NextFile

LEMMA ReadFileInv == ASSUME FolderInv, ReadFile PROVE FolderInv'
<1> DEFINE f == NextFile(request.todo)
<1>1. request.pc = "read" /\ request.todo # {}
  BY DEF ReadFile
<1>2. PICK files \in SUBSET File :
        /\ \A g \in files : held[g] \ {None} # {}
        /\ \A g \in File \ files : None \in held[g]
        /\ Collects(files, request.ignored)
        /\ request.todo \cup DOMAIN request.read = Collected(files, request.ignored)
  BY <1>1 DEF FolderInv, Reads
<1>3. f \in request.todo /\ f \in File
  BY <1>1, <1>2, NextFileIs DEF Collected
<1>4. CASE f \in DOMAIN folder /\ NoNative({f})
  <2> DEFINE read == Put(request.read, f, folder[f])
             o == [request EXCEPT !.todo = request.todo \ {f}, !.read = read]
  <2>1. Go(o) /\ UNCHANGED held /\ request' = o
    BY <1>4 DEF ReadFile, Go
  <2>2. /\ DOMAIN o = DOMAIN NoRequest /\ o.pc = "read" /\ o.ignored = request.ignored
        /\ o.manifest = request.manifest /\ o.read = read /\ o.todo = request.todo \ {f}
    BY <1>1, NoRequestHolds DEF FolderInv, NoRequestIs
  <2> HIDE DEF o
  <2>3. read = [g \in DOMAIN request.read \cup {f} |->
                  IF g = f THEN folder[f] ELSE request.read[g]]
    BY DEF Put
  <2> HIDE DEF read
  <2>4. folder[f] \in held[f] \ {None}
    BY <1>1, <1>3, <1>4 DEF FolderInv, At
  <2>5. /\ DOMAIN read = DOMAIN request.read \cup {f}
        /\ read = [g \in DOMAIN read |-> read[g]]
        /\ \A g \in DOMAIN read : read[g] \in held[g] \ {None}
    BY <1>1, <2>3, <2>4 DEF FolderInv, Reads
  <2>6. NoNative(DOMAIN read)
    BY <1>1, <1>4, <2>5 DEF FolderInv, Reads, NoNative
  <2>7. o.todo \cup DOMAIN o.read = request.todo \cup DOMAIN request.read
    BY <1>3, <2>2, <2>5
  <2>8. Reads'
    <3>1. /\ request.manifest \in held[ManifestFile] \ {None} /\ ValidManifest(request.manifest)
          /\ \/ request.ignored \in held[IgnoreFile] \ {None}
             \/ request.ignored = {} /\ None \in held[IgnoreFile]
      BY <1>1 DEF FolderInv, Reads
    <3> QED
      BY <1>2, <2>1, <2>2, <2>5, <2>6, <2>7, <3>1 DEF Reads
  <2> QED
    BY <1>1, <2>1, <2>2, <2>8, GoInv
<1>5. CASE ~(f \in DOMAIN folder /\ NoNative({f}))
  <2>1. Refuse
    BY <1>5 DEF ReadFile
  <2>2. ASSUME Quiet PROVE ~Snapshots(Then)
    <3>1. DOMAIN Then = DOMAIN folder
      BY <1>1, <2>2, QuietFolder
    <3>2. f \in DOMAIN Snapshot(Then)
      BY <1>1, <1>3, <2>2, QuietReads
    <3>3. DOMAIN Snapshot(Then) \subseteq DOMAIN Then
      BY DEF Snapshot, Restrict, Collected
    <3>4. ~NoNative({f})
      BY <1>5, <3>1, <3>2, <3>3
    <3>5. ~NoNative(DOMAIN Snapshot(Then))
      BY <3>2, <3>4 DEF NoNative
    <3> QED
      BY <3>5 DEF Snapshots, ValidExtension, Inspects
  <2> QED
    BY <2>1, <2>2, RefuseInv
<1> QED
  BY <1>4, <1>5

LEMMA FinishInv == ASSUME FolderInv, Finish PROVE FolderInv'
<1>1. request.pc = "read" /\ request.todo = {}
  BY DEF Finish
<1>2. /\ Packaged(request) => ValidExtension(request.read, None, None)
      /\ \A f \in DOMAIN request.read : request.read[f] \in held[f]
      /\ \A f \in File \ (Dropped \cup UNION (held[IgnoreFile] \ {None})) :
           None \notin held[f] => f \in DOMAIN request.read
      /\ Quiet => /\ request.read = Snapshot(Then)
                  /\ request.manifest = Then[ManifestFile]
                  /\ Packaged(request) <=> Snapshots(Then)
  BY <1>1, ReadIs
<1>3. CASE ~Packaged(request)
  BY <1>2, <1>3, RefuseInv DEF Finish
<1>4. CASE Packaged(request) /\ request.for # "check"
  <2>1. End("ready", request.read)
    BY <1>4 DEF Finish
  <2> QED
    BY <1>2, <1>4, <2>1, EndInv
<1>5. CASE Packaged(request) /\ request.for = "check" /\ ~SameNamed(request)
  <2>1. End("refused", <<>>)
    BY <1>5 DEF Finish
  <2>2. Quiet => Then[ManifestFile].name # request.saved[ManifestFile].name
    BY <1>2, <1>5 DEF SameNamed
  <2> QED
    BY <1>5, <2>1, <2>2, EndInv
<1>6. CASE Packaged(request) /\ request.for = "check" /\ SameNamed(request)
  <2>1. Quiet => Then[ManifestFile].name = request.saved[ManifestFile].name /\ Snapshots(Then)
    BY <1>2, <1>6 DEF SameNamed
  <2>2. CASE Changed(request)
    <3>1. End("offer", request.read)
      BY <1>6, <2>2 DEF Finish
    <3>2. Quiet => Snapshot(Then) # request.saved
      BY <1>2, <2>2 DEF Changed
    <3> QED
      BY <1>2, <1>6, <2>1, <3>1, <3>2, EndInv
  <2>3. CASE ~Changed(request)
    <3>1. End("same", request.read)
      BY <1>6, <2>3 DEF Finish
    <3>2. Quiet => Snapshot(Then) = request.saved
      BY <1>2, <2>3 DEF Changed
    <3> QED
      BY <1>2, <1>6, <2>1, <3>1, <3>2, EndInv
  <2> QED
    BY <2>2, <2>3
<1> QED
  BY <1>3, <1>4, <1>5, <1>6

LEMMA ReadFailsInv == ASSUME FolderInv, ReadFails PROVE FolderInv'
<1>1. request' = NoRequest /\ UNCHANGED <<folder, held>> /\ answer'.verdict = "failed"
  BY DEF ReadFails, End
<1>2. SnapshotTrue'
  BY <1>1, StillTrue DEF FolderInv
<1> QED
  BY <1>1, <1>2, OverInv

LEMMA FolderInitInv == FolderInit => FolderInv
<1> SUFFICES ASSUME FolderInit PROVE FolderInv
  OBVIOUS
<1>1. DOMAIN folder \subseteq File /\ \A f \in DOMAIN folder : folder[f] # None
  BY FirstAssumption, ContentsAssumption DEF FolderInit
<1>2. DOMAIN request = DOMAIN NoRequest /\ DOMAIN held = File /\ request.pc = "idle"
  BY NoRequestHolds DEF FolderInit, NoRequestIs
<1>3. Reads
  BY <1>2 DEF Reads
<1>4. answer.verdict = None
  BY DEF FolderInit, NoAnswer
<1>5. SnapshotTrue
  BY <1>4 DEF SnapshotTrue
<1> QED
  BY <1>1, <1>2, <1>3, <1>5 DEF FolderInv

LEMMA FolderNextInv == FolderInv /\ [FolderNext]_folderVars => FolderInv'
<1> SUFFICES ASSUME FolderInv, [FolderNext]_folderVars PROVE FolderInv'
  OBVIOUS
<1>1. ASSUME NEW f \in File, Edit(f) \/ Delete(f) PROVE FolderInv'
  BY <1>1, EditInv, DeleteInv
<1>2. CASE OtherStages \/ PrepareOffer \/ InstallSnapshot \/ DeclineSnapshot \/ UNCHANGED folderVars
  BY <1>2, AsideInv DEF OtherStages, PrepareOffer, InstallSnapshot, DeclineSnapshot, folderVars
<1>3. ASSUME NEW purpose \in {"link", "prepare", "check"}, BeginSnapshot(purpose) PROVE FolderInv'
  BY <1>3, BeginSnapshotInv
<1>4. CASE ReadManifest
  BY <1>4, ReadManifestInv
<1>5. CASE ReadIgnore
  BY <1>5, ReadIgnoreInv
<1>6. CASE Walk
  BY <1>6, WalkInv
<1>7. CASE ReadFile
  BY <1>7, ReadFileInv
<1>8. CASE ReadFails
  BY <1>8, ReadFailsInv
<1>9. CASE Finish
  BY <1>9, FinishInv
<1>10. CASE FolderRefresh
  BY <1>10, FolderRefreshInv
<1> QED
  BY <1>1, <1>2, <1>3, <1>4, <1>5, <1>6, <1>7, <1>8, <1>9, <1>10 DEF FolderNext

\* A snapshot of a folder that is being edited holds only what its files held
\* and lacks nothing that was there all the time; when nobody edits, the
\* verdict is exact.
THEOREM SnapshotIsTrue == FolderSpec => []SnapshotTrue
<1>1. FolderInv => SnapshotTrue
  BY DEF FolderInv
<1> QED
  BY <1>1, FolderInitInv, FolderNextInv, PTL DEF FolderSpec

-----------------------------------------------------------------------------
(* Sequences in order (GitHubBrowser).  Induction goes by the least         *)
(* number that is a counterexample.                                         *)

\* Some numbers have a least one.
LEMMA LeastIs ==
  ASSUME NEW T \in SUBSET Nat, T # {}
  PROVE  \E x \in T : \A y \in T : x <= y
<1>1. PICK x \in T : \A y \in T : ~(<<y, x>> \in OpToRel(<, Nat))
  BY NatLessThanWellFounded, WFMin
<1>2. \A y \in T : ~(y < x)
  BY <1>1 DEF OpToRel
<1> QED
  BY <1>2

\* One sequence in order after another.
LEMMA OrderJoin ==
  ASSUME NEW A \in SUBSET Nat, NEW B \in SUBSET Nat, \A x \in A, y \in B : x < y,
         NEW s \in Seq(Nat), NEW r \in Seq(Nat), InOrder(s, A), InOrder(r, B)
  PROVE  s \o r \in Seq(Nat) /\ InOrder(s \o r, A \cup B)
<1> DEFINE j == s \o r
<1>1. /\ Len(s) \in Nat /\ Len(r) \in Nat
      /\ j \in Seq(Nat) /\ DOMAIN j = 1..(Len(s) + Len(r))
  OBVIOUS
<1>2. /\ \A i \in 1..Len(s) : i \in DOMAIN j /\ j[i] = s[i]
      /\ \A i \in 1..Len(r) : Len(s) + i \in DOMAIN j /\ j[Len(s) + i] = r[i]
  OBVIOUS
<1> HIDE DEF j
<1>3. ASSUME NEW i \in DOMAIN j
      PROVE  i \in 1..Len(s) \/ \E k \in 1..Len(r) : i = Len(s) + k
  <2>1. i \in 1..Len(s) \/ (i - Len(s) \in 1..Len(r) /\ i = Len(s) + (i - Len(s)))
    BY <1>1
  <2> QED
    BY <2>1
<1>4. /\ Range(s) = A /\ \A x, y \in 1..Len(s) : x < y => s[x] < s[y]
      /\ Range(r) = B /\ \A x, y \in 1..Len(r) : x < y => r[x] < r[y]
  BY DEF InOrder
<1>5. /\ \A i \in 1..Len(s) : s[i] \in A
      /\ \A i \in 1..Len(r) : r[i] \in B
  BY <1>4 DEF Range
<1>6. \A i \in DOMAIN j : j[i] \in A \cup B
  BY <1>2, <1>3, <1>5
<1>7. ASSUME NEW x \in A \cup B PROVE \E i \in DOMAIN j : j[i] = x
  <2>1. CASE x \in A
    <3>1. PICK i \in 1..Len(s) : s[i] = x
      BY <1>4, <2>1 DEF Range
    <3> QED
      BY <1>2, <3>1
  <2>2. CASE x \in B
    <3>1. PICK i \in 1..Len(r) : r[i] = x
      BY <1>4, <2>2 DEF Range
    <3> QED
      BY <1>2, <3>1
  <2> QED
    BY <2>1, <2>2
<1>8. Range(j) = A \cup B
  BY <1>6, <1>7 DEF Range
<1>9. ASSUME NEW x \in DOMAIN j, NEW y \in DOMAIN j, x < y PROVE j[x] < j[y]
  <2>1. CASE x \in 1..Len(s) /\ y \in 1..Len(s)
    BY <1>2, <1>4, <1>9, <2>1
  <2>2. CASE x \in 1..Len(s) /\ \E k \in 1..Len(r) : y = Len(s) + k
    <3>1. j[x] \in A /\ j[y] \in B
      BY <1>2, <1>5, <2>2
    <3> QED
      BY <3>1
  <2>3. CASE \E k \in 1..Len(r) : x = Len(s) + k
    <3>1. PICK k \in 1..Len(r) : x = Len(s) + k
      BY <2>3
    <3>2. y \notin 1..Len(s)
      BY <1>1, <1>9, <3>1
    <3>3. PICK h \in 1..Len(r) : y = Len(s) + h
      BY <1>3, <3>2
    <3>4. k < h
      BY <1>1, <1>9, <3>1, <3>3
    <3> QED
      BY <1>2, <1>4, <3>1, <3>3, <3>4
  <2> QED
    BY <1>3, <2>1, <2>2, <2>3
<1> QED
  BY <1>1, <1>8, <1>9 DEF InOrder, j

\* The first ones of a sequence in order.
LEMMA OrderPrefix ==
  ASSUME NEW S \in SUBSET Nat, NEW s \in Seq(Nat), InOrder(s, S), NEW n \in 1..Len(s)
  PROVE  /\ SubSeq(s, 1, n) \in Seq(Nat) /\ Len(SubSeq(s, 1, n)) = n
         /\ InOrder(SubSeq(s, 1, n), {x \in S : x <= s[n]})
<1> DEFINE p == SubSeq(s, 1, n)
<1>1. p \in Seq(Nat) /\ Len(p) = n /\ \A i \in 1..n : p[i] = s[i]
  OBVIOUS
<1>2. Range(s) = S /\ \A x, y \in 1..Len(s) : x < y => s[x] < s[y]
  BY DEF InOrder
<1>3. \A i \in 1..Len(s) : s[i] \in S /\ s[i] \in Nat
  BY <1>2 DEF Range
<1> HIDE DEF p
<1>4. \A i \in 1..n : p[i] \in S /\ p[i] <= s[n]
  BY <1>1, <1>2, <1>3
<1>5. ASSUME NEW x \in S, x <= s[n] PROVE \E i \in 1..n : p[i] = x
  <2>1. PICK i \in 1..Len(s) : s[i] = x
    BY <1>2 DEF Range
  <2>2. ~(n < i)
    BY <1>2, <1>3, <1>5, <2>1
  <2> QED
    BY <1>1, <2>1, <2>2
<1>6. Range(p) = {x \in S : x <= s[n]}
  <2>1. DOMAIN p = 1..n
    BY <1>1
  <2> QED
    BY <1>4, <1>5, <2>1 DEF Range
<1>7. ASSUME NEW x \in 1..n, NEW y \in 1..n, x < y PROVE p[x] < p[y]
  <2>1. x \in 1..Len(s) /\ y \in 1..Len(s)
    OBVIOUS
  <2> QED
    BY <1>1, <1>2, <1>7, <2>1
<1> QED
  BY <1>1, <1>6, <1>7 DEF InOrder, p

\* Where two sequences in order first differ, the one is not behind the other.
LEMMA OrderAhead ==
  ASSUME NEW S \in SUBSET Nat, NEW s \in Seq(Nat), NEW r \in Seq(Nat),
         InOrder(s, S), InOrder(r, S), NEW i \in 1..Len(s),
         \A j \in 1..(i - 1) : j <= Len(r) /\ r[j] = s[j]
  PROVE  i <= Len(r) /\ r[i] <= s[i]
<1>1. /\ Range(s) = S /\ \A x, y \in 1..Len(s) : x < y => s[x] < s[y]
      /\ Range(r) = S /\ \A x, y \in 1..Len(r) : x < y => r[x] < r[y]
  BY DEF InOrder
<1>2. /\ \A x \in 1..Len(s) : s[x] \in S /\ s[x] \in Nat
      /\ \A x \in 1..Len(r) : r[x] \in Nat
  BY <1>1 DEF Range
<1>3. PICK k \in 1..Len(r) : r[k] = s[i]
  BY <1>1, <1>2 DEF Range
<1>4. ~(k < i)
  <2> SUFFICES ASSUME k < i PROVE FALSE
    OBVIOUS
  <2>1. k \in 1..(i - 1)
    OBVIOUS
  <2>2. r[k] = s[k] /\ s[k] < s[i] /\ s[k] \in Nat
    BY <1>1, <1>2, <2>1
  <2> QED
    BY <1>3, <2>2
<1>5. i \in 1..Len(r) /\ (i < k \/ i = k)
  BY <1>3, <1>4
<1> QED
  BY <1>1, <1>2, <1>3, <1>5

\* There is but one way to put numbers in order.
LEMMA OrderUnique ==
  ASSUME NEW S \in SUBSET Nat, NEW s \in Seq(Nat), NEW r \in Seq(Nat),
         InOrder(s, S), InOrder(r, S)
  PROVE  s = r
<1> DEFINE Same(i) == i <= Len(s) /\ i <= Len(r) /\ s[i] = r[i]
           T == {i \in Nat \ {0} : (i <= Len(s) \/ i <= Len(r)) /\ ~Same(i)}
<1>1. CASE T = {}
  <2>1. \A i \in Nat \ {0} : i <= Len(s) \/ i <= Len(r) => Same(i)
    BY <1>1
  <2>2. Len(s) \in Nat /\ Len(r) \in Nat
    OBVIOUS
  <2>3. Len(s) <= Len(r)
    BY <2>1, <2>2
  <2>4. Len(r) <= Len(s)
    BY <2>1, <2>2
  <2>5. Len(s) = Len(r) /\ \A i \in 1..Len(s) : s[i] = r[i]
    BY <2>1, <2>2, <2>3, <2>4
  <2> QED
    BY <2>5
<1>2. CASE T # {}
  <2>1. PICK i \in T : \A j \in T : i <= j
    BY <1>2, LeastIs
  <2>2. \A j \in 1..(i - 1) : j \notin T
    BY <2>1
  <2>3. \A j \in 1..(i - 1) : Same(j)
    <3>1. i \in Nat \ {0} /\ (i <= Len(s) \/ i <= Len(r))
      OBVIOUS
    <3> QED
      BY <2>2, <3>1
  <2>4. i \in 1..Len(s) \/ i \in 1..Len(r)
    OBVIOUS
  <2>5. i <= Len(s) /\ i <= Len(r)
    BY <2>3, <2>4, OrderAhead
  <2>6. r[i] <= s[i] /\ s[i] <= r[i]
    BY <2>3, <2>5, OrderAhead
  <2>7. s[i] \in Nat /\ r[i] \in Nat
    BY <2>5
  <2> QED
    BY <2>5, <2>6, <2>7
<1> QED
  BY <1>1, <1>2

\* A greatest number comes last.
LEMMA OrderMore ==
  ASSUME NEW k \in Nat \ {0}, NEW B \in SUBSET (1..(k - 1)),
         NEW s \in [1..Cardinality(B) -> B], InOrder(s, B)
  PROVE  \E r \in [1..Cardinality(B \cup {k}) -> B \cup {k}] : InOrder(r, B \cup {k})
<1>1. k - 1 \in Int /\ B \in SUBSET Nat /\ k \notin B /\ \A x \in B : x < k
  OBVIOUS
<1>2. IsFiniteSet(B)
  <2>1. IsFiniteSet(1..(k - 1))
    BY <1>1, FS_Interval
  <2> QED
    BY <2>1, FS_Subset
<1>3. Cardinality(B) \in Nat /\ Cardinality(B \cup {k}) = Cardinality(B) + 1
  BY <1>1, <1>2, FS_CardinalityType, FS_AddElement
<1>4. s \in Seq(Nat) /\ Len(s) = Cardinality(B)
  <2>1. s \in [1..Cardinality(B) -> Nat]
    BY <1>1
  <2> QED
    BY <1>3, <2>1
<1>5. InOrder(<<k>>, {k}) /\ <<k>> \in Seq(Nat) /\ Len(<<k>>) = 1
  BY DEF InOrder, Range
<1> DEFINE r == s \o <<k>>
<1>6. r \in Seq(Nat) /\ InOrder(r, B \cup {k})
  BY <1>1, <1>4, <1>5, OrderJoin
<1>7. Len(r) = Cardinality(B \cup {k})
  BY <1>3, <1>4, <1>5
<1> HIDE DEF r
<1>8. DOMAIN r = 1..Cardinality(B \cup {k}) /\ r = [i \in DOMAIN r |-> r[i]]
  BY <1>6, <1>7
<1>9. \A i \in DOMAIN r : r[i] \in B \cup {k}
  BY <1>6 DEF InOrder, Range
<1>10. r \in [1..Cardinality(B \cup {k}) -> B \cup {k}]
  BY <1>8, <1>9
<1> QED
  BY <1>6, <1>10

\* And there is one way to put numbers up to a bound in order.
LEMMA OrderExists ==
  ASSUME NEW n \in Nat, NEW S \in SUBSET (1..n)
  PROVE  \E s \in [1..Cardinality(S) -> S] : InOrder(s, S)
<1> DEFINE Some(A) == \E s \in [1..Cardinality(A) -> A] : InOrder(s, A)
           T == {k \in Nat : ~(\A A \in SUBSET (1..k) : Some(A))}
<1>1. Some({})
  <2>1. <<>> \in [1..Cardinality({}) -> {}]
    BY FS_EmptySet
  <2>2. InOrder(<<>>, {})
    BY DEF InOrder, Range
  <2> QED
    BY <2>1, <2>2
<1>2. ASSUME NEW k \in Nat \ {0}, NEW B \in SUBSET (1..(k - 1)), Some(B) PROVE Some(B \cup {k})
  BY <1>2, OrderMore
<1> HIDE DEF Some
<1>3. CASE T = {}
  <2>1. \A A \in SUBSET (1..n) : Some(A)
    BY <1>3
  <2> QED
    BY <2>1 DEF Some
<1>4. CASE T # {}
  <2>1. PICK k \in T : \A j \in T : k <= j
    BY <1>4, LeastIs
  <2>2. k \in Nat /\ k - 1 \notin T
    BY <2>1
  <2>3. PICK A \in SUBSET (1..k) : ~Some(A)
    BY <2>1
  <2>4. k # 0
    <3> SUFFICES ASSUME k = 0 PROVE FALSE
      OBVIOUS
    <3>1. A = {}
      OBVIOUS
    <3> QED
      BY <1>1, <2>3, <3>1
  <2>5. k - 1 \in Nat /\ \A B \in SUBSET (1..(k - 1)) : Some(B)
    BY <2>2, <2>4
  <2>6. CASE k \in A
    <3>1. A \ {k} \in SUBSET (1..(k - 1)) /\ A = (A \ {k}) \cup {k}
      BY <2>2, <2>6
    <3> QED
      BY <1>2, <2>2, <2>3, <2>4, <2>5, <3>1
  <2>7. CASE k \notin A
    <3>1. A \in SUBSET (1..(k - 1))
      BY <2>2, <2>7
    <3> QED
      BY <2>3, <2>5, <3>1
  <2> QED
    BY <2>6, <2>7
<1> QED
  BY <1>3, <1>4

-----------------------------------------------------------------------------
(* Pages of repositories: the inductive invariant (GitHubBrowser).          *)

\* GitHub fills its raw pages, and a scan ends with one: the constants of
\* github.rs make it a hundred repositories, and so the one raw page.
WholePages == FullPages /\ \E n \in Nat : ScanLimit = n * RawSize

\* How far a load has come that began after a position.
Progress(l, from) ==
  LET list == listing[l.query] IN
  /\ DOMAIN l = DOMAIN Free
  /\ l.query \in Query /\ l.page \in Nat \ {0} /\ from \in 0..Len(list)
  /\ l.pc \in {"scan", "found", "failed"}
  /\ l.pc = "scan" =>
       /\ l.at \in from..Len(list) /\ l.scanned = l.at - from
       /\ l.scanned < ScanLimit /\ \E n \in Nat : l.scanned = n * RawSize
       /\ l.found \in Seq(Nat) /\ InOrder(l.found, Hits(list, from, l.at))
  /\ l.pc = "found" =>
       /\ l.last \in from..Len(list) /\ l.scanned = l.last - from
       /\ l.found \in Seq(Nat) /\ InOrder(l.found, Hits(list, from, l.last))
       /\ ~HasNextPage(l) => l.last = Len(list)

\* The current load is for the last search, and begins where its page does.
Goes(l, from) ==
  /\ l.query = search
  /\ IF l.page = 1 THEN from = 0 ELSE l.page \in DOMAIN cursors /\ from = cursors[l.page]

BrowserInv ==
  /\ listing \in Listings /\ search \in Query
  /\ page \in Nat \ {0} /\ pages \in {page, page + 1}
  /\ \A n \in DOMAIN cursors : n \in Nat /\ cursors[n] \in 1..Len(listing[search])
  /\ DOMAIN load = Load /\ current \in Load \cup {Nil}
  /\ current # Nil => load[current] # Free
  /\ \A t \in Load : load[t] # Free =>
       \E from \in Nat : Progress(load[t], from) /\ (t = current => Goes(load[t], from))
  /\ NothingSkipped

\* Every list is a sequence of repositories.
LEMMA ListIs ==
  ASSUME listing \in Listings, NEW q \in Query
  PROVE  listing[q] \in Seq(Node) /\ Len(listing[q]) \in Nat
<1>1. listing \in [Query -> Seq(Node)]
  BY ListingAssumption
<1>2. listing[q] \in Seq(Node)
  BY <1>1
<1> QED
  BY <1>2

LEMMA HitsAre ==
  ASSUME NEW list, NEW from \in Nat, NEW to \in Nat
  PROVE  Hits(list, from, to) \in SUBSET (1..to) /\ Hits(list, from, to) \in SUBSET Nat
BY DEF Hits

\* Matches are the matches, in order.
LEMMA MatchesAre ==
  ASSUME NEW list, NEW from \in Nat, NEW to \in Nat
  PROVE  /\ Matches(list, from, to) \in Seq(Nat)
         /\ InOrder(Matches(list, from, to), Hits(list, from, to))
<1> DEFINE hits == Hits(list, from, to)
           m == Matches(list, from, to)
<1>1. hits \in SUBSET (1..to) /\ hits \in SUBSET Nat
  BY HitsAre
<1>2. \E s \in [1..Cardinality(hits) -> hits] : InOrder(s, hits)
  BY <1>1, OrderExists
<1>3. m \in [1..Cardinality(hits) -> hits] /\ InOrder(m, hits)
  BY <1>2 DEF Matches
<1>4. Cardinality(hits) \in Nat
  <2>1. IsFiniteSet(1..to)
    BY FS_Interval
  <2> QED
    BY <1>1, <2>1, FS_Subset, FS_CardinalityType
<1> HIDE DEF hits, m
<1>5. m \in Seq(Nat)
  <2>1. m \in [1..Cardinality(hits) -> Nat]
    BY <1>1, <1>3
  <2> QED
    BY <1>4, <2>1
<1> QED
  BY <1>3, <1>5 DEF hits, m

\* A sequence of the matches in order is the matches.
LEMMA MatchesIs ==
  ASSUME NEW list, NEW from \in Nat, NEW to \in Nat,
         NEW s \in Seq(Nat), InOrder(s, Hits(list, from, to))
  PROVE  s = Matches(list, from, to)
BY HitsAre, MatchesAre, OrderUnique

\* Parts of a list that meet.
LEMMA HitsJoin ==
  ASSUME NEW list, NEW from \in Nat, NEW at \in Nat, NEW to \in Nat, from <= at, at <= to
  PROVE  /\ Hits(list, from, to) = Hits(list, from, at) \cup Hits(list, at, to)
         /\ \A x \in Hits(list, from, at), y \in Hits(list, at, to) : x < y
BY DEF Hits

\* What was found before a position, and what is found after it.
LEMMA FoundJoin ==
  ASSUME NEW list, NEW from \in Nat, NEW at \in Nat, NEW to \in Nat, from <= at, at <= to,
         NEW s \in Seq(Nat), InOrder(s, Hits(list, from, at)),
         NEW r \in Seq(Nat), InOrder(r, Hits(list, at, to))
  PROVE  s \o r \in Seq(Nat) /\ InOrder(s \o r, Hits(list, from, to))
<1>1. /\ Hits(list, from, to) = Hits(list, from, at) \cup Hits(list, at, to)
      /\ \A x \in Hits(list, from, at), y \in Hits(list, at, to) : x < y
  BY HitsJoin
<1>2. Hits(list, from, at) \in SUBSET Nat /\ Hits(list, at, to) \in SUBSET Nat
  BY HitsAre
<1> QED
  BY <1>1, <1>2, OrderJoin

\* The least of some numbers is one of them.
LEMMA MinIs ==
  ASSUME NEW T \in SUBSET Nat, T # {}
  PROVE  Min(T) \in T
BY LeastIs DEF Min

\* A full raw page ends the list or has all its repositories.
LEMMA RawEndIs ==
  ASSUME NEW list \in Seq(Node), NEW at \in 0..Len(list), FullPages, NEW end \in RawEnds(list, at)
  PROVE  end \in at..Len(list) /\ end <= at + RawSize /\ (end = Len(list) \/ end = at + RawSize)
<1> DEFINE full == Min({Len(list), at + RawSize})
<1>1. Len(list) \in Nat /\ at \in Nat /\ RawSize \in Nat
  BY SizeAssumption
<1>2. {Len(list), at + RawSize} \in SUBSET Nat
  BY <1>1
<1>3. full = Len(list) \/ full = at + RawSize
  BY <1>2, MinIs
<1>4. full <= Len(list) /\ full <= at + RawSize
  <2>1. PICK x \in {Len(list), at + RawSize} : \A y \in {Len(list), at + RawSize} : x <= y
    BY <1>2, LeastIs
  <2> QED
    BY <2>1 DEF Min
<1>5. end = full
  BY DEF RawEnds
<1> QED
  BY <1>1, <1>3, <1>4, <1>5

\* A scan goes through its raw page to the end, or it has enough.
LEMMA ScanEndIs ==
  ASSUME NEW l, l.at \in Nat, NEW end \in Nat, l.at <= end
  PROVE  LET stop == ScanEnd(l, end) IN
         /\ stop \in l.at..end
         /\ stop # end => \/ Len(l.found) + Len(Matches(listing[l.query], l.at, stop)) > PageSize
                          \/ l.scanned + (stop - l.at) >= ScanLimit
<1> DEFINE Enough(k) == \/ Len(l.found) + Len(Matches(listing[l.query], l.at, k)) > PageSize
                        \/ l.scanned + (k - l.at) >= ScanLimit
           T == {end} \cup {k \in (l.at + 1)..end : Enough(k)}
<1>1. ScanEnd(l, end) = Min(T)
  BY DEF ScanEnd
<1> HIDE DEF Enough
<1>2. T \in SUBSET Nat /\ T # {}
  OBVIOUS
<1>3. Min(T) \in T
  BY <1>2, MinIs
<1>4. Min(T) \in l.at..end /\ (Min(T) # end => Enough(Min(T)))
  BY <1>3
<1> QED
  BY <1>1, <1>4 DEF Enough

\* Between two multiples of a size is at least the size.
LEMMA MultiplesApart ==
  ASSUME NEW size \in Nat, NEW m \in Nat, NEW n \in Nat, m * size < n * size
  PROVE  m * size + size <= n * size /\ (m + 1) * size = m * size + size
<1>1. (m + 1) * size = m * size + size
  OBVIOUS
<1>2. m < n
  <2> SUFFICES ASSUME n <= m PROVE FALSE
    OBVIOUS
  <2>1. m * size = n * size + (m - n) * size
    OBVIOUS
  <2>2. (m - n) * size >= 0
    OBVIOUS
  <2> QED
    BY <2>1, <2>2
<1>3. n * size = (m + 1) * size + (n - (m + 1)) * size
  OBVIOUS
<1>4. (n - (m + 1)) * size >= 0
  BY <1>2
<1> QED
  BY <1>1, <1>3, <1>4

-----------------------------------------------------------------------------
(* The scan.                                                               *)

\* Only a load that has gone on, and goes on where it should, is new.
LEMMA LoadInv ==
  ASSUME BrowserInv, NEW t \in Load, NEW o, load' = [load EXCEPT ![t] = o],
         UNCHANGED <<listing, search, page, pages, shown, cursors, current, shownFor>>,
         IF o = Free THEN t # current
         ELSE \E from \in Nat : Progress(o, from) /\ (t = current => Goes(o, from))
  PROVE  BrowserInv'
<1>1. /\ DOMAIN load' = Load /\ load'[t] = o
      /\ \A r \in Load \ {t} : load'[r] = load[r]
  BY DEF BrowserInv
<1>2. current' # Nil => load'[current'] # Free
  BY <1>1 DEF BrowserInv
<1>3. NothingSkipped'
  BY DEF BrowserInv, NothingSkipped
<1>4. ASSUME NEW r \in Load, load'[r] # Free
      PROVE  (\E from \in Nat : Progress(load[r], from) /\ (r = current => Goes(load[r], from)))'
  <2>1. PICK l : l = load'[r]
    OBVIOUS
  <2>2. PICK from \in Nat : Progress(l, from) /\ (r = current => Goes(l, from))
    BY <1>1, <1>4, <2>1 DEF BrowserInv
  <2>3. Progress(l, from)' /\ (r = current' => Goes(l, from)')
    BY <2>2 DEF Progress, Goes
  <2> QED
    BY <2>1, <2>3
<1> QED
  BY <1>1, <1>2, <1>3, <1>4 DEF BrowserInv

\* A raw page brings a load on by what it has gone through of it.
LEMMA ScanProgress ==
  ASSUME WholePages, listing \in Listings, NEW l, NEW from \in Nat,
         Progress(l, from), l.pc = "scan",
         NEW list, list = listing[l.query], NEW end \in RawEnds(list, l.at),
         NEW o, DOMAIN o = DOMAIN Free, o.query = l.query, o.page = l.page,
         o.at = end, o.last = ScanEnd(l, end), o.more <=> end < Len(list),
         o.found = l.found \o Matches(list, l.at, o.last),
         o.scanned = l.scanned + (o.last - l.at),
         Len(o.found) > PageSize \/ o.scanned >= ScanLimit \/ ~(end < Len(list)) => o.pc = "found",
         ~(Len(o.found) > PageSize \/ o.scanned >= ScanLimit \/ ~(end < Len(list))) => o.pc = "scan"
  PROVE  Progress(o, from)
<1>1. /\ l.query \in Query /\ l.page \in Nat \ {0}
      /\ from \in 0..Len(list) /\ l.at \in from..Len(list) /\ l.scanned = l.at - from
      /\ l.scanned < ScanLimit /\ \E n \in Nat : l.scanned = n * RawSize
      /\ l.found \in Seq(Nat) /\ InOrder(l.found, Hits(list, from, l.at))
  BY DEF Progress
<1>2. list \in Seq(Node) /\ Len(list) \in Nat
  BY <1>1, ListIs
<1>3. PageSize \in Nat /\ RawSize \in Nat /\ ScanLimit \in Nat
  BY SizeAssumption
<1>4. end \in l.at..Len(list) /\ end <= l.at + RawSize /\ (end = Len(list) \/ end = l.at + RawSize)
  BY <1>1, <1>2, RawEndIs DEF WholePages
<1> DEFINE m == Matches(list, l.at, o.last)
<1>5. /\ o.last \in l.at..end
      /\ o.last # end => Len(l.found) + Len(m) > PageSize \/ o.scanned >= ScanLimit
  <2>1. l.at \in Nat /\ end \in Nat /\ l.at <= end
    BY <1>1, <1>2, <1>4
  <2> QED
    BY <2>1, ScanEndIs
<1>6. o.last \in Nat /\ l.at \in Nat /\ from <= l.at /\ l.at <= o.last
  BY <1>1, <1>2, <1>4, <1>5
<1>7. m \in Seq(Nat) /\ InOrder(m, Hits(list, l.at, o.last))
  BY <1>6, MatchesAre
<1>8. o.found = l.found \o m
  OBVIOUS
<1> HIDE DEF m
<1>9. o.found \in Seq(Nat) /\ InOrder(o.found, Hits(list, from, o.last))
  BY <1>1, <1>6, <1>7, <1>8, FoundJoin
<1>10. Len(o.found) = Len(l.found) + Len(m) /\ Len(o.found) \in Nat
  BY <1>1, <1>7, <1>8
<1>11. o.scanned = o.last - from /\ o.scanned \in Nat
  BY <1>1, <1>6
<1>12. PICK n \in Nat, whole \in Nat :
          /\ l.scanned = n * RawSize /\ ScanLimit = whole * RawSize
          /\ l.scanned + RawSize <= ScanLimit /\ (n + 1) * RawSize = l.scanned + RawSize
  <2>1. PICK n \in Nat : l.scanned = n * RawSize
    BY <1>1
  <2>2. PICK whole \in Nat : ScanLimit = whole * RawSize
    BY DEF WholePages
  <2>3. n * RawSize < whole * RawSize
    BY <1>1, <2>1, <2>2
  <2>4. n * RawSize + RawSize <= whole * RawSize /\ (n + 1) * RawSize = n * RawSize + RawSize
    BY <1>3, <2>3, MultiplesApart
  <2> QED
    BY <2>1, <2>2, <2>4
<1> DEFINE done == Len(o.found) > PageSize \/ o.scanned >= ScanLimit \/ ~(end < Len(list))
<1>13. CASE done
  <2>1. o.pc = "found"
    BY <1>13
  <2>2. o.last \in from..Len(list)
    BY <1>1, <1>2, <1>4, <1>5, <1>6
  <2>3. ASSUME ~HasNextPage(o) PROVE o.last = Len(list)
    <3>1. ~(Len(o.found) > PageSize) /\ ~(o.scanned >= ScanLimit /\ end < Len(list))
      BY <2>3 DEF HasNextPage, FoundAnother, Bounded
    <3>2. end = Len(list)
      <4>1. ~(end < Len(list))
        BY <1>13, <3>1
      <4> QED
        BY <1>1, <1>2, <1>4, <4>1
    <3>3. o.last = end
      <4> SUFFICES ASSUME o.last # end PROVE FALSE
        OBVIOUS
      <4>1. o.scanned >= ScanLimit
        BY <1>5, <1>10, <3>1
      <4>2. o.last - l.at < RawSize /\ l.scanned \in Nat
        BY <1>1, <1>2, <1>3, <1>4, <1>5, <1>6
      <4>3. l.scanned + RawSize <= ScanLimit
        BY <1>12
      <4>4. o.scanned = l.scanned + (o.last - l.at)
        OBVIOUS
      <4> QED
        BY <1>3, <1>6, <4>1, <4>2, <4>3, <4>4
    <3> QED
      BY <3>2, <3>3
  <2> QED
    BY <1>1, <1>9, <1>11, <2>1, <2>2, <2>3 DEF Progress
<1>14. CASE ~done
  <2>1. o.pc = "scan" /\ ~(o.scanned >= ScanLimit) /\ end < Len(list)
    BY <1>14
  <2>2. o.last = end
    BY <1>5, <1>10, <1>14
  <2>3. end = l.at + RawSize /\ end \in from..Len(list) /\ o.scanned < ScanLimit
    BY <1>1, <1>2, <1>3, <1>4, <1>11, <2>1
  <2>4. o.scanned = (n + 1) * RawSize
    <3>1. o.last - l.at = RawSize
      BY <1>3, <1>6, <2>2, <2>3
    <3> QED
      BY <1>12, <3>1
  <2>5. n + 1 \in Nat
    OBVIOUS
  <2> QED
    BY <1>1, <1>9, <1>11, <2>1, <2>2, <2>3, <2>4, <2>5 DEF Progress
<1> QED
  BY <1>13, <1>14

LEMMA ScanInv ==
  ASSUME WholePages, BrowserInv, NEW t \in Load, ScanRawPage(t)
  PROVE  BrowserInv'
<1>1. load[t].pc = "scan" /\ load[t] # Free
  BY DEF ScanRawPage, Free
<1>2. PICK from \in Nat : Progress(load[t], from) /\ (t = current => Goes(load[t], from))
  BY <1>1 DEF BrowserInv
<1> DEFINE l == load[t]
           list == listing[l.query]
           Scan(end, stop) ==
             LET found == l.found \o Matches(list, l.at, stop)
                 scanned == l.scanned + (stop - l.at)
                 more == end < Len(list)
                 done == Len(found) > PageSize \/ scanned >= ScanLimit \/ ~more
             IN [l EXCEPT !.pc = IF done THEN "found" ELSE "scan", !.at = end,
                          !.scanned = scanned, !.found = found, !.last = stop, !.more = more]
<1>3. PICK end \in RawEnds(list, l.at) : load' = [load EXCEPT ![t] = Scan(end, ScanEnd(l, end))]
  BY DEF ScanRawPage
<1> DEFINE o == Scan(end, ScanEnd(l, end))
<1>4. /\ DOMAIN o = DOMAIN Free /\ o.query = l.query /\ o.page = l.page
      /\ o.at = end /\ o.last = ScanEnd(l, end) /\ (o.more <=> end < Len(list))
      /\ o.found = l.found \o Matches(list, l.at, o.last)
      /\ o.scanned = l.scanned + (o.last - l.at)
      /\ Len(o.found) > PageSize \/ o.scanned >= ScanLimit \/ ~(end < Len(list)) => o.pc = "found"
      /\ ~(Len(o.found) > PageSize \/ o.scanned >= ScanLimit \/ ~(end < Len(list))) => o.pc = "scan"
  <2>1. DOMAIN l = DOMAIN Free
    BY <1>2 DEF Progress
  <2>2. DOMAIN Free = {"pc", "query", "page", "at", "scanned", "found", "last", "more"}
    BY DEF Free
  <2>3. DOMAIN o = DOMAIN l
    OBVIOUS
  <2> HIDE DEF l, list
  <2>4. o.query = l.query /\ o.page = l.page /\ o.at = end /\ o.last = ScanEnd(l, end)
    BY <2>1, <2>2
  <2>5. o.more <=> end < Len(list)
    BY <2>1, <2>2
  <2>6. /\ o.found = l.found \o Matches(list, l.at, ScanEnd(l, end))
        /\ o.scanned = l.scanned + (ScanEnd(l, end) - l.at)
    BY <2>1, <2>2
  <2>7. o.pc = IF \/ Len(l.found \o Matches(list, l.at, ScanEnd(l, end))) > PageSize
                  \/ l.scanned + (ScanEnd(l, end) - l.at) >= ScanLimit \/ ~(end < Len(list))
               THEN "found" ELSE "scan"
    BY <2>1, <2>2
  <2> QED
    BY <2>1, <2>3, <2>4, <2>5, <2>6, <2>7
<1>5. Progress(o, from)
  <2>1. listing \in Listings /\ Progress(l, from) /\ l.pc = "scan" /\ list = listing[l.query]
    BY <1>1, <1>2 DEF BrowserInv
  <2> HIDE DEF o, l, list
  <2> QED
    BY <1>4, <2>1, ScanProgress
<1>6. o # Free
  BY <1>4 DEF Free
<1>7. t = current => Goes(o, from)
  BY <1>2, <1>4 DEF Goes
<1>8. UNCHANGED <<listing, search, page, pages, shown, cursors, current, shownFor>>
  BY DEF ScanRawPage
<1> QED
  BY <1>3, <1>5, <1>6, <1>7, <1>8, LoadInv

LEMMA ScanFailsInv ==
  ASSUME BrowserInv, NEW t \in Load, ScanFails(t)
  PROVE  BrowserInv'
<1>1. load[t].pc = "scan" /\ load[t] # Free
  BY DEF ScanFails, Free
<1>2. PICK from \in Nat : Progress(load[t], from) /\ (t = current => Goes(load[t], from))
  BY <1>1 DEF BrowserInv
<1> DEFINE o == [load[t] EXCEPT !.pc = "failed"]
<1>3. /\ DOMAIN o = DOMAIN load[t] /\ o.pc = "failed"
      /\ o.query = load[t].query /\ o.page = load[t].page
  BY <1>2 DEF Progress, Free
<1>4. load' = [load EXCEPT ![t] = o]
  BY DEF ScanFails
<1> HIDE DEF o
<1>5. Progress(o, from) /\ o # Free /\ (t = current => Goes(o, from))
  BY <1>2, <1>3 DEF Progress, Goes, Free
<1> QED
  BY <1>4, <1>5, LoadInv DEF ScanFails

-----------------------------------------------------------------------------
(* The window.                                                             *)

\* Nothing is shown for certain while a load goes on; the new one begins
\* where its page does.
LEMMA BeginLoadInv ==
  ASSUME BrowserInv, NEW t \in Load, NEW query \in Query, NEW number \in Nat \ {0}, NEW cursor,
         BeginLoad(t, query, cursor, number), UNCHANGED listing, search' = query,
         cursor # Nil => cursor \in 1..Len(listing[query]),
         \A n \in DOMAIN cursors' : n \in Nat /\ cursors'[n] \in 1..Len(listing[query]),
         IF number = 1 THEN cursor = Nil ELSE number \in DOMAIN cursors' /\ cursor = cursors'[number],
         page' \in Nat \ {0}, pages' \in {page', page' + 1}
  PROVE  BrowserInv'
<1> DEFINE from == IF cursor = Nil THEN 0 ELSE cursor
           o == [Free EXCEPT !.pc = "scan", !.query = query, !.page = number, !.at = from]
<1>1. /\ load' = [load EXCEPT ![t] = o] /\ load[t] = Free /\ current' = t
      /\ DOMAIN load = Load
  BY DEF BeginLoad, BrowserInv
<1>2. /\ DOMAIN load' = Load /\ load'[t] = o
      /\ \A r \in Load \ {t} : load'[r] = load[r]
  BY <1>1
<1>3. /\ DOMAIN o = DOMAIN Free /\ o.pc = "scan" /\ o.query = query /\ o.page = number
      /\ o.at = from /\ o.scanned = 0 /\ o.found = <<>>
  BY DEF Free
<1> HIDE DEF o
<1>4. o # Free
  BY <1>3 DEF Free
<1>5. from \in 0..Len(listing[query]) /\ from \in Nat /\ Len(listing[query]) \in Nat
  BY ListIs DEF BrowserInv
<1>6. Progress(o, from)
  <2>1. 0 \in Nat /\ 0 = 0 * RawSize /\ 0 < ScanLimit
    BY SizeAssumption
  <2>2. InOrder(<<>>, Hits(listing[query], from, from)) /\ <<>> \in Seq(Nat)
    <3>1. Hits(listing[query], from, from) = {}
      BY <1>5 DEF Hits
    <3> QED
      BY <3>1 DEF InOrder, Range
  <2>3. o.at \in from..Len(listing[query]) /\ o.scanned = o.at - from
    BY <1>3, <1>5
  <2>4. \E n \in Nat : o.scanned = n * RawSize
    BY <1>3, <2>1
  <2> QED
    BY <1>3, <1>5, <2>1, <2>2, <2>3, <2>4 DEF Progress
<1>7. Nil \notin Load /\ Nil \notin Nat
  BY NilAssumption
<1>8. ASSUME NEW r \in Load, load'[r] # Free
      PROVE  (\E k \in Nat : Progress(load[r], k) /\ (r = current => Goes(load[r], k)))'
  <2>1. CASE r = t
    <3>1. Progress(o, from)'
      BY <1>6 DEF Progress
    <3>2. Goes(o, from)'
      <4>1. cursor # Nil => number # 1
        OBVIOUS
      <4>2. number # 1 => cursor # Nil
        BY <1>7
      <4> QED
        BY <1>3, <4>1, <4>2 DEF Goes
    <3> QED
      BY <1>2, <1>5, <2>1, <3>1, <3>2
  <2>2. CASE r # t
    <3>1. PICK l : l = load'[r]
      OBVIOUS
    <3>2. PICK k \in Nat : Progress(l, k)
      BY <1>2, <1>8, <2>2, <3>1 DEF BrowserInv
    <3>3. Progress(l, k)'
      BY <3>2 DEF Progress
    <3> QED
      BY <1>1, <2>2, <3>1, <3>3
  <2> QED
    BY <2>1, <2>2
<1>9. NothingSkipped'
  BY <1>1, <1>7 DEF NothingSkipped
<1> QED
  BY <1>1, <1>2, <1>4, <1>8, <1>9 DEF BrowserInv

LEMMA SearchInv ==
  ASSUME BrowserInv, NEW t \in Load, NEW query \in Query, Search(t, query)
  PROVE  BrowserInv'
<1>1. DOMAIN cursors' = {} /\ page' = 1 /\ pages' = 1
  BY DEF Search
<1> QED
  BY <1>1, BeginLoadInv DEF Search

LEMMA MoveInv ==
  ASSUME BrowserInv, NEW t \in Load, NEW target \in {page - 1, page + 1}, Move(t, target)
  PROVE  BrowserInv'
<1> DEFINE cursor == IF target = 1 THEN Nil ELSE cursors[target]
<1>1. target \in Nat \ {0} /\ search \in Query /\ Nil \notin Nat
  BY NilAssumption DEF Move, BrowserInv
<1>2. /\ \A n \in DOMAIN cursors : n \in Nat /\ cursors[n] \in 1..Len(listing[search])
      /\ page \in Nat \ {0} /\ pages \in {page, page + 1}
  BY DEF BrowserInv
<1>3. target # 1 => target \in DOMAIN cursors
  BY DEF Move
<1>4. /\ BeginLoad(t, search, cursor, target)
      /\ UNCHANGED <<listing, search, page, pages, shown, cursors, shownFor>>
  BY DEF Move
<1>5. cursor # Nil => cursor \in 1..Len(listing[search])
  BY <1>2, <1>3
<1>6. IF target = 1 THEN cursor = Nil ELSE target \in DOMAIN cursors' /\ cursor = cursors'[target]
  BY <1>3, <1>4
<1> HIDE DEF cursor
<1> QED
  BY <1>1, <1>2, <1>4, <1>5, <1>6, BeginLoadInv

\* When a load is over, no other is the current one.
LEMMA LoadOverInv ==
  ASSUME BrowserInv, NEW t \in Load, load' = [load EXCEPT ![t] = Free], current' = Nil,
         UNCHANGED <<listing, search>>,
         page' \in Nat \ {0}, pages' \in {page', page' + 1},
         \A n \in DOMAIN cursors' : n \in Nat /\ cursors'[n] \in 1..Len(listing[search]),
         NothingSkipped'
  PROVE  BrowserInv'
<1>1. /\ DOMAIN load' = Load /\ load'[t] = Free
      /\ \A r \in Load \ {t} : load'[r] = load[r]
  BY DEF BrowserInv
<1>2. ASSUME NEW r \in Load, load'[r] # Free
      PROVE  (\E k \in Nat : Progress(load[r], k) /\ (r = current => Goes(load[r], k)))'
  <2>1. PICK l : l = load'[r]
    OBVIOUS
  <2>2. PICK k \in Nat : Progress(l, k)
    BY <1>1, <1>2, <2>1 DEF BrowserInv
  <2>3. Progress(l, k)'
    BY <2>2 DEF Progress
  <2> QED
    BY <2>1, <2>3, NilAssumption
<1> QED
  BY <1>1, <1>2 DEF BrowserInv

LEMMA ShowErrorInv ==
  ASSUME BrowserInv, NEW t \in Load, ShowError(t)
  PROVE  BrowserInv'
<1>1. NothingSkipped'
  BY DEF ShowError, NothingSkipped
<1>2. /\ load' = [load EXCEPT ![t] = Free] /\ current' = Nil
      /\ UNCHANGED <<listing, search, cursors>>
      /\ page' \in Nat \ {0} /\ pages' \in {page', page' + 1}
  BY DEF ShowError
<1>3. \A n \in DOMAIN cursors' : n \in Nat /\ cursors'[n] \in 1..Len(listing[search])
  BY <1>2 DEF BrowserInv
<1> QED
  BY <1>1, <1>2, <1>3, LoadOverInv

LEMMA IgnoreInv ==
  ASSUME BrowserInv, NEW t \in Load, Ignore(t)
  PROVE  BrowserInv'
BY LoadInv DEF Ignore, Accepted

\* What a load has found are the matches up to its end cursor, or up to the
\* end of the list.
LEMMA PageIs ==
  ASSUME listing \in Listings, NEW l, NEW from \in Nat, Progress(l, from), l.pc = "found",
         NEW list, list = listing[l.query],
         NEW to, to = IF HasNextPage(l) THEN EndCursor(l) ELSE Len(list)
  PROVE  /\ to \in from..Len(list)
         /\ HasNextPage(l) => EndCursor(l) \in 1..Len(list)
         /\ ~HasNextPage(l) => EndCursor(l) = Nil
         /\ Repositories(l) \in Seq(Nat) /\ InOrder(Repositories(l), Hits(list, from, to))
<1> DEFINE found == l.found
           last == l.last
<1>1. /\ from \in 0..Len(list) /\ last \in from..Len(list) /\ l.scanned = last - from
      /\ found \in Seq(Nat) /\ InOrder(found, Hits(list, from, last))
      /\ ~HasNextPage(l) => last = Len(list)
  BY DEF Progress
<1>2. Len(list) \in Nat
  BY ListIs DEF Progress
<1>3. PageSize \in Nat /\ PageSize > 0 /\ ScanLimit \in Nat /\ ScanLimit > 0
  BY SizeAssumption
<1>4. FoundAnother(l) <=> Len(found) > PageSize
  BY DEF FoundAnother
<1>5. Repositories(l) = SubSeq(found, 1, Min({PageSize, Len(found)}))
  BY DEF Repositories
<1> HIDE DEF found
<1>6. Len(found) \in Nat /\ Min({PageSize, Len(found)}) \in {PageSize, Len(found)}
  <2>1. Len(found) \in Nat
    BY <1>1
  <2>2. {PageSize, Len(found)} \in SUBSET Nat
    BY <1>3, <2>1
  <2> QED
    BY <2>1, <2>2, MinIs
<1>7. \A y \in {PageSize, Len(found)} : Min({PageSize, Len(found)}) <= y
  <2>1. \E x \in {PageSize, Len(found)} : \A y \in {PageSize, Len(found)} : x <= y
    BY <1>3, <1>6
  <2> QED
    BY <2>1 DEF Min
<1>8. CASE FoundAnother(l)
  <2>1. EndCursor(l) = found[PageSize] /\ HasNextPage(l) /\ to = found[PageSize]
    BY <1>8 DEF EndCursor, HasNextPage, found
  <2>2. PageSize \in 1..Len(found) /\ Min({PageSize, Len(found)}) = PageSize
    BY <1>3, <1>4, <1>6, <1>7, <1>8
  <2>3. found[PageSize] \in Hits(list, from, last)
    BY <1>1, <2>2 DEF InOrder, Range
  <2>4. to \in (from + 1)..last /\ to \in Nat
    BY <1>1, <1>2, <2>1, <2>3 DEF Hits
  <2>5. {x \in Hits(list, from, last) : x <= to} = Hits(list, from, to)
    BY <1>1, <1>2, <2>4 DEF Hits
  <2>6. Hits(list, from, last) \in SUBSET Nat
    BY <1>1, <1>2, HitsAre
  <2>7. /\ SubSeq(found, 1, PageSize) \in Seq(Nat)
        /\ InOrder(SubSeq(found, 1, PageSize), Hits(list, from, to))
    BY <1>1, <2>1, <2>2, <2>5, <2>6, OrderPrefix
  <2>8. to \in from..Len(list) /\ to \in 1..Len(list)
    BY <1>1, <1>2, <2>4
  <2> QED
    BY <1>5, <2>1, <2>2, <2>7, <2>8
<1>9. CASE ~FoundAnother(l)
  <2>1. Min({PageSize, Len(found)}) = Len(found)
    BY <1>3, <1>4, <1>6, <1>7, <1>9
  <2>2. SubSeq(found, 1, Len(found)) = found
    BY <1>1
  <2>3. Repositories(l) = found
    BY <1>5, <2>1, <2>2
  <2>4. to = last
    BY <1>1, <1>9 DEF HasNextPage, EndCursor
  <2>5. HasNextPage(l) => EndCursor(l) \in 1..Len(list)
    <3>1. ASSUME HasNextPage(l) PROVE l.scanned >= ScanLimit /\ EndCursor(l) = last
      BY <1>9, <3>1 DEF HasNextPage, Bounded, EndCursor
    <3>2. l.scanned >= ScanLimit => last \in 1..Len(list)
      BY <1>1, <1>2, <1>3
    <3> QED
      BY <3>1, <3>2
  <2>6. ~HasNextPage(l) => EndCursor(l) = Nil
    BY DEF HasNextPage, EndCursor
  <2> QED
    BY <1>1, <2>3, <2>4, <2>5, <2>6
<1> QED
  BY <1>8, <1>9

LEMMA ShowPageInv ==
  ASSUME BrowserInv, NEW t \in Load, ShowPage(t)
  PROVE  BrowserInv'
<1> DEFINE l == load[t]
           list == listing[l.query]
           next == HasNextPage(l)
           to == IF next THEN EndCursor(l) ELSE Len(list)
<1>1. /\ l.pc = "found" /\ l # Free /\ t = current
      /\ shown' = Repositories(l) /\ page' = l.page /\ shownFor' = l.query
      /\ pages' = IF next THEN l.page + 1 ELSE l.page
      /\ load' = [load EXCEPT ![t] = Free] /\ current' = Nil
      /\ UNCHANGED <<listing, search>>
  BY DEF ShowPage, Accepted, Free
<1>2. PICK from \in Nat : Progress(l, from) /\ Goes(l, from)
  BY <1>1 DEF BrowserInv
<1>3. /\ l.page \in Nat \ {0} /\ l.query = search
      /\ IF l.page = 1 THEN from = 0 ELSE l.page \in DOMAIN cursors /\ from = cursors[l.page]
  BY <1>2 DEF Progress, Goes
<1>4. /\ listing \in Listings /\ search \in Query /\ list \in Seq(Node) /\ Len(list) \in Nat
      /\ \A n \in DOMAIN cursors : n \in Nat /\ cursors[n] \in 1..Len(list)
  BY <1>3, ListIs DEF BrowserInv
<1>5. /\ to \in from..Len(list)
      /\ next => EndCursor(l) \in 1..Len(list)
      /\ ~next => EndCursor(l) = Nil
      /\ Repositories(l) \in Seq(Nat) /\ InOrder(Repositories(l), Hits(list, from, to))
  <2> HIDE DEF l, list, to
  <2>1. list = listing[l.query] /\ to = IF HasNextPage(l) THEN EndCursor(l) ELSE Len(list)
    BY DEF list, to
  <2> QED
    BY <1>1, <1>2, <1>4, <2>1, PageIs
<1>6. EndCursor(l) # Nil <=> next
  BY <1>4, <1>5, NilAssumption
<1>7. Repositories(l) = Matches(list, from, to)
  BY <1>4, <1>5, MatchesIs
<1>8. cursors' = IF next THEN [n \in DOMAIN cursors \cup {l.page + 1} |->
                                 IF n = l.page + 1 THEN EndCursor(l) ELSE cursors[n]]
                 ELSE Restrict(cursors, DOMAIN cursors \ {l.page + 1})
  BY <1>6 DEF ShowPage
<1> HIDE DEF l, list, next, to
<1>9. /\ l.page \in DOMAIN cursors => l.page \in DOMAIN cursors' /\ cursors'[l.page] = cursors[l.page]
      /\ next => cursors'[l.page + 1] = EndCursor(l)
      /\ \A n \in DOMAIN cursors' : n \in Nat /\ cursors'[n] \in 1..Len(list)
  BY <1>3, <1>4, <1>5, <1>8 DEF Restrict
<1>10. NothingSkipped'
  <2>1. shownFor' = search' /\ listing'[search'] = list
    BY <1>1, <1>3 DEF list
  <2>2. page' # 1 => page' \in DOMAIN cursors'
    BY <1>1, <1>3, <1>9
  <2>3. (IF page' = 1 THEN 0 ELSE cursors'[page']) = from
    BY <1>1, <1>3, <1>9
  <2>4. (IF page' < pages' THEN cursors'[page' + 1] ELSE Len(list)) = to
    BY <1>1, <1>3, <1>9 DEF to
  <2>5. from <= to /\ shown' = Matches(list, from, to)
    BY <1>1, <1>4, <1>5, <1>7
  <2> QED
    BY <2>1, <2>2, <2>3, <2>4, <2>5 DEF NothingSkipped
<1>11. /\ page' \in Nat \ {0} /\ pages' \in {page', page' + 1}
       /\ \A n \in DOMAIN cursors' : n \in Nat /\ cursors'[n] \in 1..Len(listing[search])
  BY <1>1, <1>3, <1>9 DEF list
<1> QED
  BY <1>1, <1>10, <1>11, LoadOverInv

-----------------------------------------------------------------------------

LEMMA BrowserInitInv == BrowserInit => BrowserInv
<1> SUFFICES ASSUME BrowserInit PROVE BrowserInv
  OBVIOUS
<1>1. DOMAIN cursors = {} /\ DOMAIN load = Load /\ \A t \in Load : load[t] = Free
  BY DEF BrowserInit
<1> QED
  BY <1>1 DEF BrowserInit, BrowserInv, NothingSkipped

LEMMA BrowserNextInv == WholePages /\ BrowserInv /\ [BrowserNext]_browserVars => BrowserInv'
<1> SUFFICES ASSUME WholePages, BrowserInv, [BrowserNext]_browserVars PROVE BrowserInv'
  OBVIOUS
<1>1. CASE UNCHANGED browserVars
  BY <1>1 DEF browserVars, BrowserInv, NothingSkipped, Progress, Goes
<1>2. ASSUME NEW t \in Load, NEW query \in Query, Search(t, query) PROVE BrowserInv'
  BY <1>2, SearchInv
<1>3. ASSUME NEW t \in Load, NEW target \in {page - 1, page + 1}, Move(t, target) PROVE BrowserInv'
  BY <1>3, MoveInv
<1>4. ASSUME NEW t \in Load, ScanRawPage(t) PROVE BrowserInv'
  BY <1>4, ScanInv
<1>5. ASSUME NEW t \in Load, ScanFails(t) PROVE BrowserInv'
  BY <1>5, ScanFailsInv
<1>6. ASSUME NEW t \in Load, ShowPage(t) PROVE BrowserInv'
  BY <1>6, ShowPageInv
<1>7. ASSUME NEW t \in Load, ShowError(t) PROVE BrowserInv'
  BY <1>7, ShowErrorInv
<1>8. ASSUME NEW t \in Load, Ignore(t) PROVE BrowserInv'
  BY <1>8, IgnoreInv
<1> QED
  BY <1>1, <1>2, <1>3, <1>4, <1>5, <1>6, <1>7, <1>8 DEF BrowserNext

\* Pages in a row show each match once, whatever loads were abandoned, as long
\* as GitHub fills its raw pages: for lists of any length and pages of any size.
THEOREM NothingIsSkipped == ASSUME WholePages PROVE BrowserSpec => []NothingSkipped
<1>1. BrowserInv => NothingSkipped
  BY DEF BrowserInv
<1>2. BrowserInv /\ [BrowserNext]_browserVars => BrowserInv'
  BY BrowserNextInv
<1> QED
  BY <1>1, <1>2, BrowserInitInv, PTL DEF BrowserSpec
=============================================================================
