--------------------------- MODULE Catalog_proofs ---------------------------
(***************************************************************************)
(* Proofs about Catalog, for all repositories, clocks and requests.        *)
(*                                                                         *)
(* The last known good repository is written by refreshes of the bundle    *)
(* only, and all refreshes of a session persist the same bundle (Session): *)
(* whatever was written before a crash is at least as new as the versions  *)
(* that were accepted then (Forward), and the accepted versions, written   *)
(* last, always name files that are there (Complete).                      *)
(***************************************************************************)
EXTENDS Catalog, FiniteSetTheorems, WellFoundedInduction, TLAPS

\* All persisting requests write what the bundle was verified to be, each
\* the files up to its own.
Session ==
  /\ ~up => op = [q \in Request |-> Idle]
  /\ \A q \in Request : op[q].pc = "persist" =>
       /\ bundle.root # 0 /\ bundle.timestamp # 0
       /\ op[q].found = VersionsOf(bundle)
       /\ AtLeast(op[q].found, trusted)
       /\ op[q].file > 0 => known.root = op[q].found.root
       /\ op[q].file > 1 => known.timestamp = op[q].found.timestamp
       /\ op[q].file > 2 => op[q].found.snapshot \in known.snapshots
       /\ op[q].file > 3 => op[q].found.targets \in known.targets
       /\ op[q].file > 4 => CatalogOf(bundle) \in known.catalogs

\* What is kept is not behind what is recorded.
Forward ==
  /\ known.roots = {}
  /\ known.root >= trusted.root /\ known.timestamp >= trusted.timestamp
  /\ known.timestamp # 0 =>
       SnapshotOf(known) >= trusted.snapshot /\ TargetsOf(known) >= trusted.targets

\* What is recorded is there.
Complete ==
  trusted.timestamp # 0 =>
    LET s == Timestamps[trusted.timestamp].refers
        g == Snapshots[s].refers
    IN /\ trusted.timestamp \in TimestampVersion
       /\ trusted.root # 0
       /\ s \in known.snapshots /\ g \in known.targets
       /\ TargetsFiles[g].refers \in known.catalogs

\* What was handed out is recorded.
Recorded ==
  /\ AtLeast(trusted, accepted)
  /\ \A q \in Request :
       op[q].pc = "publish" =>
         /\ op[q].view \in View
         /\ ~op[q].view.expired => op[q].view.from \in Versions
                                   /\ op[q].view.from.timestamp \in TimestampVersion
         /\ ~op[q].view.cached =>
              op[q].view.from \in Versions /\ AtLeast(trusted, op[q].view.from)

Inv == TypeOK /\ Session /\ Forward /\ Complete /\ Recorded

-----------------------------------------------------------------------------
(* Verification.                                                           *)

\* There is a last root, and it is not before root.json.
LEMMA FinalRootIs ==
  ASSUME NEW repo \in Repository, repo.root # 0
  PROVE  FinalRoot(repo) \in Reached(repo) /\ FinalRoot(repo) >= repo.root
<1> DEFINE bound == repo.root + MaxRotations
           T == {bound - n : n \in Reached(repo)}
<1>1. repo.root \in RootVersion /\ repo.root \in Nat /\ bound \in Nat
  <2>1. repo.root \in RootVersion
    BY DEF Repository
  <2>2. repo.root \in Nat
    BY <2>1, VersionsAssumption
  <2> QED
    BY <2>1, <2>2, BoundAssumption
<1>2. \A n \in Reached(repo) : n \in Nat /\ repo.root <= n /\ n <= bound
  BY <1>1, VersionsAssumption DEF Reached
<1>3. T \subseteq Nat
  BY <1>1, <1>2
<1>4. repo.root \in Reached(repo)
  BY <1>1, BoundAssumption DEF Reached
<1>5. T # {}
  BY <1>4
<1>6. PICK x \in T : \A y \in T : ~(<<y, x>> \in OpToRel(<, Nat))
  BY <1>3, <1>5, NatLessThanWellFounded, WFMin
<1>7. \A y \in T : ~(y < x)
  BY <1>3, <1>6 DEF OpToRel
<1>8. PICK n \in Reached(repo) : x = bound - n
  OBVIOUS
<1>9. \A m \in Reached(repo) : m <= n
  <2> TAKE m \in Reached(repo)
  <2>1. bound - m \in T
    OBVIOUS
  <2>2. ~(bound - m < bound - n)
    BY <1>7, <1>8, <2>1
  <2>3. m \in Nat /\ n \in Nat
    BY <1>2
  <2> QED
    BY <1>1, <2>2, <2>3
<1>10. FinalRoot(repo) \in Reached(repo)
  BY <1>9 DEF FinalRoot
<1> QED
  BY <1>2, <1>10

\* The last known good repository has no chain of roots.
LEMMA FinalRootAlone ==
  ASSUME NEW repo \in Repository, repo.root # 0, repo.roots = {}
  PROVE  FinalRoot(repo) = repo.root
<1>1. repo.root \in Nat /\ FinalRoot(repo) \in Reached(repo) /\ FinalRoot(repo) >= repo.root
  BY FinalRootIs, VersionsAssumption DEF Repository
<1>2. FinalRoot(repo) \in Nat
  BY <1>1, VersionsAssumption DEF Reached
<1>3. \A k \in (repo.root + 1)..FinalRoot(repo) : FALSE
  BY <1>1 DEF Reached
<1> QED
  BY <1>1, <1>2, <1>3

\* The versions of a repository that has a root and a timestamp.
LEMMA VersionsAre ==
  ASSUME NEW repo \in Repository, repo.root # 0, repo.timestamp # 0
  PROVE  /\ VersionsOf(repo) \in Versions
         /\ VersionsOf(repo).root \in RootVersion
         /\ VersionsOf(repo).timestamp \in TimestampVersion
         /\ VersionsOf(repo).timestamp = repo.timestamp
         /\ VersionsOf(repo).snapshot = SnapshotOf(repo)
         /\ VersionsOf(repo).targets = TargetsOf(repo)
         /\ SnapshotOf(repo) \in SnapshotVersion
         /\ TargetsOf(repo) \in TargetsVersion
         /\ CatalogOf(repo) \in CatalogHash
<1>1. FinalRoot(repo) \in RootVersion
  BY FinalRootIs DEF Reached
<1>2. repo.timestamp \in TimestampVersion
  BY DEF Repository
<1>3. /\ SnapshotOf(repo) \in SnapshotVersion /\ TargetsOf(repo) \in TargetsVersion
      /\ CatalogOf(repo) \in CatalogHash
  BY <1>2, MetadataAssumption DEF SnapshotOf, TargetsOf, CatalogOf
<1> QED
  BY <1>1, <1>2, <1>3, VersionsAssumption DEF VersionsOf, Versions

Codes == {"ok", "io", "signature", "rollback", "expired", "invalid"}

\* Every verdict is a code, and a repository that passes is at least as new
\* as what was accepted.
LEMMA VerifyIs ==
  ASSUME NEW repo \in Repository, NEW t, trusted \in Versions
  PROVE  /\ Verify(repo, t) \in Codes
         /\ Verify(repo, t) = "ok" =>
              repo.root # 0 /\ repo.timestamp # 0 /\ AtLeast(VersionsOf(repo), trusted)
<1>1. Verify(repo, t) \in Codes
  BY DEF Verify, RootCheck, TimestampCheck, SnapshotCheck, TargetsCheck, CatalogCheck,
         HeaderCheck, Codes
<1>2. ASSUME Verify(repo, t) = "ok"
      PROVE  repo.root # 0 /\ repo.timestamp # 0 /\ AtLeast(VersionsOf(repo), trusted)
  <2>1. repo.root # 0 /\ ~(FinalRoot(repo) < trusted.root)
    BY <1>2 DEF Verify, RootCheck
  <2>2. repo.timestamp # 0 /\ ~(repo.timestamp < trusted.timestamp)
    BY <1>2 DEF Verify, TimestampCheck, HeaderCheck
  <2>3. ~(SnapshotOf(repo) < trusted.snapshot)
    BY <1>2 DEF Verify, SnapshotCheck, HeaderCheck
  <2>4. ~(TargetsOf(repo) < trusted.targets)
    BY <1>2 DEF Verify, TargetsCheck, HeaderCheck
  <2>5. VersionsOf(repo) \in Versions
    BY <2>1, <2>2, VersionsAre
  <2> QED
    BY <2>1, <2>2, <2>3, <2>4, <2>5 DEF AtLeast, VersionsOf, Versions
<1> QED
  BY <1>1, <1>2

LEMMA AtLeastTransitive ==
  ASSUME NEW u \in Versions, NEW v \in Versions, NEW w \in Versions,
         AtLeast(u, v), AtLeast(v, w)
  PROVE  AtLeast(u, w)
BY DEF AtLeast, Versions

LEMMA AtLeastReflexive ==
  ASSUME NEW v \in Versions
  PROVE  AtLeast(v, v)
BY DEF AtLeast, Versions

-----------------------------------------------------------------------------
(* The invariant.                                                          *)

LEMMA InitInv == Init => Inv
<1> SUFFICES ASSUME Init PROVE Inv
  OBVIOUS
<1>1. NoVersions \in Versions
  BY DEF NoVersions, Versions
<1>2. Idle \in OpState
  BY DEF Idle, OpState
<1>3. EmptyRepository \in Repository
  BY DEF EmptyRepository, Repository
<1>4. TypeOK
  <2>1. op \in [Request -> OpState]
    BY <1>2 DEF Init
  <2>2. bundle \in Repository /\ known \in Repository
    BY <1>3, BundleAssumption DEF Init, Released
  <2>3. now \in 0..MaxTime
    BY BoundAssumption DEF Init
  <2>4. catalog \in CatalogHash \cup {None} /\ view \in View \cup {None} /\ up \in BOOLEAN
    BY DEF Init
  <2>5. trusted \in Versions /\ accepted \in Versions /\ shown \in TimestampVersion \cup {0}
    BY <1>1 DEF Init
  <2> QED
    BY <2>1, <2>2, <2>3, <2>4, <2>5 DEF TypeOK
<1>5. Session
  BY DEF Init, Session, Idle
<1>6. Forward /\ Complete
  BY DEF Init, Forward, Complete, EmptyRepository, NoVersions
<1>7. Recorded
  BY <1>1, AtLeastReflexive DEF Init, Recorded, Idle
<1> QED
  BY <1>4, <1>5, <1>6, <1>7 DEF Inv

\* A step that leaves the files alone, and the requests that persist or
\* publish where they are.
LEMMA FilesAlone ==
  ASSUME Inv, TypeOK', UNCHANGED <<bundle, known, trusted, accepted>>,
         ~up' => op' = [q \in Request |-> Idle],
         \A q \in Request :
           op'[q].pc \in {"persist", "publish"} => op'[q] = op[q]
  PROVE  Inv'
<1>1. Session'
  BY DEF Inv, Session, VersionsOf, FinalRoot, Reached, SnapshotOf, TargetsOf, CatalogOf
<1>2. Forward' /\ Complete'
  BY DEF Inv, Forward, Complete, SnapshotOf, TargetsOf
<1>3. Recorded'
  BY DEF Inv, Recorded
<1> QED
  BY <1>1, <1>2, <1>3 DEF Inv

LEMMA TickInv == ASSUME Inv, Tick PROVE Inv'
<1>1. TypeOK'
  BY BoundAssumption DEF Inv, TypeOK, Tick
<1> QED
  BY <1>1, FilesAlone DEF Tick, Inv, Session

LEMMA HelperStartsInv == ASSUME Inv, HelperStarts PROVE Inv'
<1>1. TypeOK'
  BY DEF Inv, TypeOK, HelperStarts
<1> QED
  BY <1>1, FilesAlone DEF HelperStarts, Inv, Session

LEMMA HelperEndsInv == ASSUME Inv, HelperEnds PROVE Inv'
<1>1. Idle \in OpState
  BY DEF Idle, OpState
<1>2. TypeOK'
  BY <1>1 DEF Inv, TypeOK, HelperEnds
<1>3. \A q \in Request : op'[q] = Idle
  BY DEF HelperEnds
<1>4. Idle.pc = "idle"
  BY DEF Idle
<1> QED
  BY <1>2, <1>3, <1>4, FilesAlone DEF HelperEnds

\* The bundle changes while nothing persists it.
LEMMA ManagerReplacedInv == ASSUME Inv, ManagerReplaced PROVE Inv'
<1>1. PICK b \in Bundles : bundle' \in {b, [b EXCEPT !.timestamp = 0]}
  BY DEF ManagerReplaced, Released
<1>2. b \in Repository /\ [b EXCEPT !.timestamp = 0] \in Repository
  BY BundleAssumption DEF Repository
<1>3. TypeOK'
  BY <1>1, <1>2 DEF Inv, TypeOK, ManagerReplaced
<1>4. \A q \in Request : op[q].pc = "idle"
  BY DEF Inv, Session, ManagerReplaced, Idle
<1>5. Session'
  BY <1>4 DEF Inv, Session, ManagerReplaced
<1>6. Forward' /\ Complete' /\ Recorded'
  BY DEF Inv, Forward, Complete, Recorded, ManagerReplaced, SnapshotOf, TargetsOf
<1> QED
  BY <1>3, <1>5, <1>6 DEF Inv

\* A request moves, up is unchanged, and it neither persists nor publishes
\* afterwards, or is as it was.
LEMMA OneMoves ==
  ASSUME Inv, NEW q \in Request, NEW new \in OpState, op[q] # Idle \/ up,
         op' = [op EXCEPT ![q] = new], new.pc \notin {"persist", "publish"},
         UNCHANGED <<bundle, known, catalog, trusted, now, up, accepted, shown>>,
         view' \in View \cup {None}
  PROVE  Inv'
<1>1. op \in [Request -> OpState] /\ op' \in [Request -> OpState]
  BY DEF Inv, TypeOK
<1>2. TypeOK'
  BY <1>1 DEF Inv, TypeOK
<1>3. up
  BY DEF Inv, Session
<1>4. \A r \in Request : op'[r].pc \in {"persist", "publish"} => op'[r] = op[r]
  BY <1>1
<1> QED
  BY <1>2, <1>3, <1>4, FilesAlone

LEMMA ReceiveInv ==
  ASSUME Inv, NEW q \in Request, NEW kind \in Kind, Receive(q, kind)
  PROVE  Inv'
<1> DEFINE new == IF kind = "refresh" \/ view = None
                  THEN [Idle EXCEPT !.pc = "verify", !.kind = kind]
                  ELSE [Idle EXCEPT !.pc = "decide", !.kind = kind, !.view = view]
<1>1. view \in View \cup {None}
  BY DEF Inv, TypeOK
<1>2. new \in OpState /\ new.pc \in {"verify", "decide"}
  <2>1. \A pc \in {"verify", "decide"} :
          [Idle EXCEPT !.pc = pc] \in OpState /\ [Idle EXCEPT !.pc = pc].pc = pc
    BY DEF Idle, OpState
  <2>2. \A o \in OpState : [o EXCEPT !.kind = kind] \in OpState /\ [o EXCEPT !.kind = kind].pc = o.pc
    BY DEF OpState, Kind
  <2>3. \A o \in OpState : [o EXCEPT !.view = view] \in OpState /\ [o EXCEPT !.view = view].pc = o.pc
    BY <1>1 DEF OpState
  <2>4. CASE kind = "refresh" \/ view = None
    <3>1. new = [[Idle EXCEPT !.pc = "verify"] EXCEPT !.kind = kind]
      BY <2>4
    <3> QED
      BY <2>1, <2>2, <3>1
  <2>5. CASE ~(kind = "refresh" \/ view = None)
    <3>1. new = [[[Idle EXCEPT !.pc = "decide"] EXCEPT !.kind = kind] EXCEPT !.view = view]
      BY <2>5
    <3> QED
      BY <2>1, <2>2, <2>3, <3>1
  <2> QED
    BY <2>4, <2>5
<1>3. op' = [op EXCEPT ![q] = new]
  BY DEF Receive
<1> HIDE DEF new
<1> QED
  BY <1>1, <1>2, <1>3, OneMoves DEF Receive

LEMMA EndsInv ==
  ASSUME Inv, NEW q \in Request,
         op[q].pc # "idle", op' = [op EXCEPT ![q] = Idle],
         UNCHANGED <<bundle, known, catalog, trusted, now, up, view, accepted, shown>>
  PROVE  Inv'
<1>1. Idle \in OpState /\ Idle.pc = "idle"
  BY DEF Idle, OpState
<1>2. view \in View \cup {None}
  BY DEF Inv, TypeOK
<1> QED
  BY <1>1, <1>2, OneMoves

LEMMA PrepareInstallInv ==
  ASSUME Inv, NEW q \in Request, NEW release \in Release, NEW host \in Hosts,
         PrepareInstall(q, release, host)
  PROVE  Inv'
<1>1. CASE ~Authorizes(op[q].view, release, host)
  BY <1>1, EndsInv DEF PrepareInstall
<1>2. CASE Authorizes(op[q].view, release, host)
  <2> DEFINE new == [op[q] EXCEPT !.pc = "download"]
  <2>1. op[q] \in OpState /\ view \in View \cup {None}
    BY DEF Inv, TypeOK
  <2>2. new \in OpState /\ new.pc = "download"
    BY <2>1 DEF OpState
  <2>3. op[q] # Idle
    BY DEF PrepareInstall, Idle
  <2> HIDE DEF new
  <2>4. op' = [op EXCEPT ![q] = new]
    BY <1>2 DEF PrepareInstall, new
  <2> QED
    BY <2>1, <2>2, <2>3, <2>4, OneMoves DEF PrepareInstall
<1> QED
  BY <1>1, <1>2

\* A request that verified the bundle persists what is at least as new as
\* the accepted versions.
LEMMA VerifyBundleInv == ASSUME Inv, NEW q \in Request, VerifyBundle(q) PROVE Inv'
<1>1. /\ op \in [Request -> OpState] /\ op[q] \in OpState /\ bundle \in Repository
      /\ trusted \in Versions
  BY DEF Inv, TypeOK
<1>2. up
  BY DEF Inv, Session, VerifyBundle, Idle
<1>3. CASE Verify(bundle, now) = "ok"
  <2> DEFINE new == [op[q] EXCEPT !.pc = "persist", !.found = VersionsOf(bundle), !.file = 0]
  <2>1. op' = [op EXCEPT ![q] = new]
    BY <1>3 DEF VerifyBundle
  <2>2. bundle.root # 0 /\ bundle.timestamp # 0 /\ AtLeast(VersionsOf(bundle), trusted)
    BY <1>1, <1>3, VerifyIs
  <2>3. VersionsOf(bundle) \in Versions
    BY <1>1, <2>2, VersionsAre
  <2>4. new \in OpState /\ new.pc = "persist" /\ new.found = VersionsOf(bundle)
        /\ new.file = 0
    <3> DEFINE v == VersionsOf(bundle)
    <3> HIDE DEF v
    <3>1. v \in Versions
      BY <2>3 DEF v
    <3>2. [op[q] EXCEPT !.pc = "persist"] \in OpState
      BY <1>1 DEF OpState
    <3>3. \A o \in OpState : [o EXCEPT !.found = v] \in OpState
                             /\ [o EXCEPT !.found = v].pc = o.pc
                             /\ [o EXCEPT !.found = v].found = v
      BY <3>1 DEF OpState
    <3>4. \A o \in OpState : [o EXCEPT !.file = 0] \in OpState
                             /\ [o EXCEPT !.file = 0].pc = o.pc
                             /\ [o EXCEPT !.file = 0].found = o.found
                             /\ [o EXCEPT !.file = 0].file = 0
      BY DEF OpState
    <3>5. [op[q] EXCEPT !.pc = "persist"].pc = "persist"
      BY <1>1 DEF OpState
    <3>6. new = [[[op[q] EXCEPT !.pc = "persist"] EXCEPT !.found = v] EXCEPT !.file = 0]
      BY DEF v
    <3> QED
      BY <3>2, <3>3, <3>4, <3>5, <3>6 DEF v
  <2> HIDE DEF new
  <2>5. TypeOK'
    BY <1>1, <2>1, <2>4 DEF Inv, TypeOK, VerifyBundle
  <2>6. op'[q] = new /\ \A r \in Request \ {q} : op'[r] = op[r]
    BY <1>1, <2>1
  <2>7. UNCHANGED <<bundle, known, catalog, trusted, now, up, view, accepted, shown>>
    BY DEF VerifyBundle
  <2>8. VersionsOf(bundle)' = VersionsOf(bundle) /\ CatalogOf(bundle)' = CatalogOf(bundle)
    BY <2>7 DEF VersionsOf, FinalRoot, Reached, SnapshotOf, TargetsOf, CatalogOf
  <2>9. Session'
    BY <1>2, <2>2, <2>4, <2>6, <2>7, <2>8 DEF Inv, Session
  <2>10. Forward' /\ Complete' /\ Recorded'
    BY <2>4, <2>6, <2>7 DEF Inv, Forward, Complete, Recorded, SnapshotOf, TargetsOf
  <2> QED
    BY <2>5, <2>9, <2>10 DEF Inv
<1>4. CASE Verify(bundle, now) # "ok"
  <2> DEFINE new == [op[q] EXCEPT !.pc = "fallback", !.error = Verify(bundle, now)]
  <2>1. op' = [op EXCEPT ![q] = new]
    BY <1>4 DEF VerifyBundle
  <2>2. Verify(bundle, now) \in Codes
    BY <1>1, VerifyIs
  <2>3. new \in OpState /\ new.pc = "fallback" /\ view \in View \cup {None}
    BY <1>1, <2>2 DEF OpState, Codes, Inv, TypeOK
  <2> HIDE DEF new
  <2> QED
    BY <1>2, <2>1, <2>3, OneMoves DEF VerifyBundle
<1> QED
  BY <1>3, <1>4

LEMMA FallBackInv == ASSUME Inv, NEW q \in Request, FallBack(q) PROVE Inv'
<1>1. /\ op \in [Request -> OpState] /\ op[q] \in OpState /\ known \in Repository
      /\ trusted \in Versions /\ catalog \in CatalogHash \cup {None}
  BY DEF Inv, TypeOK
<1>2. up
  BY DEF Inv, Session, FallBack, Idle
<1>3. ASSUME NEW v \in View, op' = [op EXCEPT ![q] = [op[q] EXCEPT !.pc = "publish", !.view = v]],
             ~v.expired => v.from \in Versions /\ v.from.timestamp \in TimestampVersion,
             v.cached
      PROVE  Inv'
  <2> DEFINE new == [op[q] EXCEPT !.pc = "publish", !.view = v]
  <2>1. new \in OpState /\ new.pc = "publish" /\ new.view = v
    BY <1>1 DEF OpState
  <2>2. op'[q] = new /\ \A r \in Request \ {q} : op'[r] = op[r]
    BY <1>1, <1>3
  <2>3. op' \in [Request -> OpState]
    BY <1>1, <1>3, <2>1
  <2> HIDE DEF new
  <2>4. UNCHANGED <<bundle, known, catalog, trusted, now, up, view, accepted, shown>>
    BY DEF FallBack
  <2>5. TypeOK'
    BY <2>3, <2>4 DEF Inv, TypeOK
  <2>6. VersionsOf(bundle)' = VersionsOf(bundle) /\ CatalogOf(bundle)' = CatalogOf(bundle)
    BY <2>4 DEF VersionsOf, FinalRoot, Reached, SnapshotOf, TargetsOf, CatalogOf
  <2>7. Session'
    BY <1>2, <2>1, <2>2, <2>4, <2>6 DEF Inv, Session
  <2>8. Forward' /\ Complete'
    BY <2>4 DEF Inv, Forward, Complete, SnapshotOf, TargetsOf
  <2>9. Recorded'
    BY <1>3, <2>1, <2>2, <2>4 DEF Inv, Recorded
  <2> QED
    BY <2>5, <2>7, <2>8, <2>9 DEF Inv
<1>4. CASE Verify(known, now) = "ok"
  <2>1. known.root # 0 /\ known.timestamp # 0
    BY <1>1, <1>4, VerifyIs
  <2>2. /\ VersionsOf(known) \in Versions /\ VersionsOf(known).timestamp \in TimestampVersion
        /\ CatalogOf(known) \in CatalogHash
    BY <1>1, <2>1, VersionsAre
  <2>3. CachedView \in View /\ CachedView.from = VersionsOf(known) /\ CachedView.cached
    BY <2>2 DEF CachedView, View
  <2> QED
    BY <1>3, <1>4, <2>2, <2>3 DEF FallBack
<1>5. CASE Verify(known, now) # "ok" /\ "expired" \in {op[q].error, Verify(known, now)}
  <2>1. ExpiredView \in View /\ ExpiredView.expired /\ ExpiredView.cached
    BY <1>1 DEF ExpiredView, View
  <2> QED
    BY <1>3, <1>5, <2>1 DEF FallBack
<1>6. CASE Verify(known, now) # "ok" /\ "expired" \notin {op[q].error, Verify(known, now)}
  BY <1>6, EndsInv DEF FallBack
<1> QED
  BY <1>4, <1>5, <1>6

\* Accepting: what is handed out was recorded by the file before.
LEMMA PublishInv == ASSUME Inv, NEW q \in Request, Publish(q) PROVE Inv'
<1>1. /\ op \in [Request -> OpState] /\ op[q] \in OpState
      /\ op[q].pc = "publish" /\ op[q].view \in View
      /\ trusted \in Versions
  BY DEF Inv, TypeOK, Recorded, Publish
<1>2. up
  BY DEF Inv, Session, Publish, Idle
<1> DEFINE new == IF op[q].kind = "refresh" THEN Idle
                  ELSE [op[q] EXCEPT !.pc = "decide", !.found = None, !.file = 0, !.error = "ok"]
<1>3. new \in OpState /\ new.pc \in {"idle", "decide"}
  <2>1. Idle \in OpState /\ Idle.pc = "idle"
    BY DEF Idle, OpState
  <2>2. \A o \in OpState : /\ [o EXCEPT !.pc = "decide"] \in OpState
                           /\ [o EXCEPT !.pc = "decide"].pc = "decide"
    BY DEF OpState
  <2>3. \A o \in OpState : /\ [o EXCEPT !.found = None] \in OpState
                           /\ [o EXCEPT !.found = None].pc = o.pc
    BY DEF OpState
  <2>4. \A o \in OpState : /\ [o EXCEPT !.file = 0] \in OpState
                           /\ [o EXCEPT !.file = 0].pc = o.pc
    BY DEF OpState
  <2>5. \A o \in OpState : /\ [o EXCEPT !.error = "ok"] \in OpState
                           /\ [o EXCEPT !.error = "ok"].pc = o.pc
    BY DEF OpState
  <2>6. CASE op[q].kind = "refresh"
    BY <2>1, <2>6
  <2>7. CASE op[q].kind # "refresh"
    <3> DEFINE o1 == [op[q] EXCEPT !.pc = "decide"]
               o2 == [o1 EXCEPT !.found = None]
               o3 == [o2 EXCEPT !.file = 0]
    <3>1. o1 \in OpState /\ o1.pc = "decide"
      BY <1>1, <2>2
    <3> HIDE DEF o1
    <3>2. o2 \in OpState /\ o2.pc = "decide"
      BY <2>3, <3>1
    <3> HIDE DEF o2
    <3>3. o3 \in OpState /\ o3.pc = "decide"
      BY <2>4, <3>2
    <3> HIDE DEF o3
    <3>4. [o3 EXCEPT !.error = "ok"] \in OpState /\ [o3 EXCEPT !.error = "ok"].pc = "decide"
      BY <2>5, <3>3
    <3> QED
      BY <2>7, <3>4 DEF o1, o2, o3
  <2> QED
    BY <2>6, <2>7
<1>4. op' = [op EXCEPT ![q] = new]
  BY DEF Publish
<1> HIDE DEF new
<1>5. op'[q] = new /\ (\A r \in Request \ {q} : op'[r] = op[r]) /\ op' \in [Request -> OpState]
  BY <1>1, <1>3, <1>4
<1>6. accepted' = (IF op[q].view.cached THEN accepted ELSE op[q].view.from)
      /\ shown' = (IF op[q].view.expired THEN shown ELSE op[q].view.from.timestamp)
      /\ view' = op[q].view
      /\ UNCHANGED <<bundle, known, catalog, trusted, now, up>>
  BY DEF Publish
<1>7. accepted' \in Versions /\ AtLeast(trusted, accepted')
  BY <1>1, <1>6 DEF Inv, TypeOK, Recorded
<1>8. shown' \in TimestampVersion \cup {0}
  BY <1>1, <1>6 DEF Inv, TypeOK, Recorded
<1>9. TypeOK'
  BY <1>1, <1>5, <1>6, <1>7, <1>8 DEF Inv, TypeOK
<1>10. VersionsOf(bundle)' = VersionsOf(bundle) /\ CatalogOf(bundle)' = CatalogOf(bundle)
  BY <1>6 DEF VersionsOf, FinalRoot, Reached, SnapshotOf, TargetsOf, CatalogOf
<1>11. Session'
  BY <1>2, <1>3, <1>5, <1>6, <1>10 DEF Inv, Session
<1>12. Forward' /\ Complete'
  BY <1>6 DEF Inv, Forward, Complete, SnapshotOf, TargetsOf
<1>13. AtLeast(trusted, accepted)'
  BY <1>6, <1>7 DEF AtLeast
<1>14. Recorded'
  BY <1>3, <1>5, <1>6, <1>13 DEF Inv, Recorded
<1> QED
  BY <1>9, <1>11, <1>12, <1>14 DEF Inv

\* One more file: those below stay, and the last one records only what the
\* others hold.
LEMMA PersistInv == ASSUME Inv, NEW q \in Request, Persist(q) PROVE Inv'
<1> DEFINE v == op[q].found
           hash == TargetsFiles[v.targets].refers
<1>1. /\ op \in [Request -> OpState] /\ op[q] \in OpState
      /\ bundle \in Repository /\ known \in Repository
      /\ trusted \in Versions /\ accepted \in Versions
  BY DEF Inv, TypeOK
<1>2. /\ up /\ op[q].pc = "persist" /\ op[q].file \in 0..6
      /\ bundle.root # 0 /\ bundle.timestamp # 0 /\ v = VersionsOf(bundle)
      /\ AtLeast(v, trusted)
  BY <1>1 DEF Inv, Session, Persist, Idle, OpState
<1>3. /\ v \in Versions /\ v.root \in RootVersion /\ v.timestamp \in TimestampVersion
      /\ v.snapshot = Timestamps[v.timestamp].refers /\ v.snapshot \in SnapshotVersion
      /\ v.targets = Snapshots[v.snapshot].refers /\ v.targets \in TargetsVersion
      /\ hash = CatalogOf(bundle) /\ hash \in CatalogHash
  BY <1>1, <1>2, VersionsAre DEF SnapshotOf, TargetsOf, CatalogOf
<1>4. v.root # 0 /\ v.timestamp # 0
  BY <1>3, VersionsAssumption
<1>5. /\ known' = [known EXCEPT
            !.root = IF op[q].file = 0 THEN v.root ELSE @,
            !.timestamp = IF op[q].file = 1 THEN v.timestamp ELSE @,
            !.snapshots = IF op[q].file = 2 THEN @ \cup {v.snapshot} ELSE @,
            !.targets = IF op[q].file = 3 THEN @ \cup {v.targets} ELSE @,
            !.catalogs = IF op[q].file = 4 THEN @ \cup {hash} ELSE @]
      /\ catalog' = (IF op[q].file = 5 THEN hash ELSE catalog)
      /\ trusted' = (IF op[q].file = 6 THEN v ELSE trusted)
      /\ UNCHANGED <<bundle, now, up, view, accepted, shown>>
  BY DEF Persist, FileWritten
<1> HIDE DEF v, hash
<1>6. /\ known' \in Repository
      /\ known'.roots = known.roots
      /\ known'.root = (IF op[q].file = 0 THEN v.root ELSE known.root)
      /\ known'.timestamp = (IF op[q].file = 1 THEN v.timestamp ELSE known.timestamp)
      /\ known'.snapshots = (IF op[q].file = 2 THEN known.snapshots \cup {v.snapshot} ELSE known.snapshots)
      /\ known'.targets = (IF op[q].file = 3 THEN known.targets \cup {v.targets} ELSE known.targets)
      /\ known'.catalogs = (IF op[q].file = 4 THEN known.catalogs \cup {hash} ELSE known.catalogs)
  BY <1>1, <1>3, <1>5 DEF Repository
<1>7. trusted' \in Versions /\ AtLeast(trusted', trusted) /\ AtLeast(v, trusted')
  BY <1>1, <1>2, <1>3, <1>5, AtLeastReflexive
<1>8. /\ op' \in [Request -> OpState]
      /\ \A r \in Request \ {q} : op'[r] = op[r]
      /\ op[q].file < 6 => op'[q] = [op[q] EXCEPT !.file = op[q].file + 1]
      /\ op[q].file = 6 => op'[q] = [op[q] EXCEPT !.pc = "publish", !.view = FreshView(v)]
  <2>1. FreshView(v) \in View
    BY <1>3 DEF FreshView, View, hash
  <2>2. op[q].file < 6 => [op[q] EXCEPT !.file = op[q].file + 1] \in OpState
    BY <1>1, <1>2 DEF OpState
  <2>3. [op[q] EXCEPT !.pc = "publish", !.view = FreshView(v)] \in OpState
    BY <1>1, <2>1 DEF OpState
  <2> QED
    BY <1>1, <1>2, <2>2, <2>3 DEF Persist, v
<1>9. TypeOK'
  BY <1>3, <1>5, <1>6, <1>7, <1>8 DEF Inv, TypeOK
<1>10. Session'
  <2>1. VersionsOf(bundle)' = VersionsOf(bundle) /\ CatalogOf(bundle)' = CatalogOf(bundle)
    BY <1>5 DEF VersionsOf, FinalRoot, Reached, SnapshotOf, TargetsOf, CatalogOf
  <2>2. SUFFICES ASSUME NEW r \in Request, op'[r].pc = "persist"
        PROVE /\ op'[r].found = v
              /\ op'[r].file > 0 => known'.root = v.root
              /\ op'[r].file > 1 => known'.timestamp = v.timestamp
              /\ op'[r].file > 2 => v.snapshot \in known'.snapshots
              /\ op'[r].file > 3 => v.targets \in known'.targets
              /\ op'[r].file > 4 => CatalogOf(bundle) \in known'.catalogs
    BY <1>2, <1>5, <1>7, <2>1 DEF Session
  <2>3. CASE r # q
    <3>1. op'[r] = op[r] /\ op[r].pc = "persist" /\ op[r].found = v
      BY <1>2, <1>8, <2>2, <2>3 DEF Inv, Session
    <3> QED
      BY <1>3, <1>6, <3>1 DEF Inv, Session
  <2>4. CASE r = q
    <3>1. op[q].file < 6 /\ op'[q] = [op[q] EXCEPT !.file = op[q].file + 1]
      <4>1. op[q].file = 6 => op'[q].pc = "publish"
        BY <1>1, <1>8 DEF OpState
      <4> QED
        BY <1>2, <1>8, <2>2, <2>4, <4>1
    <3>2. op'[q].found = v /\ op'[q].file = op[q].file + 1
      BY <1>1, <3>1 DEF OpState, v
    <3>3. /\ op[q].file > 0 => known.root = v.root
          /\ op[q].file > 1 => known.timestamp = v.timestamp
          /\ op[q].file > 2 => v.snapshot \in known.snapshots
          /\ op[q].file > 3 => v.targets \in known.targets
          /\ op[q].file > 4 => CatalogOf(bundle) \in known.catalogs
      BY <1>2 DEF Inv, Session, v
    <3> QED
      BY <1>2, <1>3, <1>6, <2>4, <3>2, <3>3
  <2> QED
    BY <2>3, <2>4
<1>11. Forward'
  <2>1. /\ v.root >= trusted.root /\ v.timestamp >= trusted.timestamp
        /\ v.snapshot >= trusted.snapshot /\ v.targets >= trusted.targets
    BY <1>2 DEF AtLeast, v
  <2>2. /\ op[q].file > 0 => known.root = v.root
        /\ op[q].file > 1 => known.timestamp = v.timestamp
    BY <1>2 DEF Inv, Session, v
  <2>3. known'.timestamp = v.timestamp => SnapshotOf(known)' = v.snapshot /\ TargetsOf(known)' = v.targets
    BY <1>3 DEF SnapshotOf, TargetsOf
  <2>4. known'.timestamp = known.timestamp =>
          SnapshotOf(known)' = SnapshotOf(known) /\ TargetsOf(known)' = TargetsOf(known)
    BY DEF SnapshotOf, TargetsOf
  <2>5. CASE op[q].file = 6
    <3>1. trusted' = v /\ known'.root = v.root /\ known'.timestamp = v.timestamp
      BY <1>5, <1>6, <2>2, <2>5
    <3>2. v.root \in Nat /\ v.timestamp \in Nat /\ v.snapshot \in Nat /\ v.targets \in Nat
      BY <1>3 DEF Versions
    <3> QED
      BY <1>6, <2>3, <3>1, <3>2 DEF Inv, Forward
  <2>6. CASE op[q].file # 6
    <3>1. trusted' = trusted
      BY <1>5, <2>6
    <3>2. known'.timestamp \in {known.timestamp, v.timestamp} /\ known'.root \in {known.root, v.root}
      BY <1>6
    <3>3. CASE known'.timestamp = v.timestamp
      BY <1>6, <2>1, <2>3, <3>1, <3>2, <3>3 DEF Inv, Forward
    <3>4. CASE known'.timestamp = known.timestamp
      BY <1>6, <2>1, <2>4, <3>1, <3>2, <3>4 DEF Inv, Forward
    <3> QED
      BY <3>2, <3>3, <3>4
  <2> QED
    BY <2>5, <2>6
<1>12. Complete'
  <2>1. CASE op[q].file = 6
    <3>1. /\ v.snapshot \in known.snapshots /\ v.targets \in known.targets
          /\ hash \in known.catalogs
      BY <1>2, <1>3, <2>1 DEF Inv, Session, v
    <3>2. trusted' = v /\ known'.snapshots = known.snapshots /\ known'.targets = known.targets
          /\ known'.catalogs = known.catalogs
      BY <1>5, <1>6, <2>1
    <3> QED
      BY <1>3, <1>4, <3>1, <3>2 DEF Complete, hash
  <2>2. CASE op[q].file # 6
    <3>1. trusted' = trusted /\ known.snapshots \subseteq known'.snapshots
          /\ known.targets \subseteq known'.targets /\ known.catalogs \subseteq known'.catalogs
      BY <1>5, <1>6, <2>2
    <3> QED
      BY <3>1 DEF Inv, Complete
  <2> QED
    BY <2>1, <2>2
<1>13. Recorded'
  <2>1. AtLeast(trusted', accepted)
    BY <1>1, <1>7, AtLeastTransitive DEF Inv, Recorded
  <2>2. SUFFICES ASSUME NEW r \in Request, op'[r].pc = "publish"
        PROVE  /\ op'[r].view \in View
               /\ ~op'[r].view.expired => op'[r].view.from \in Versions
                                          /\ op'[r].view.from.timestamp \in TimestampVersion
               /\ ~op'[r].view.cached =>
                    op'[r].view.from \in Versions /\ AtLeast(trusted', op'[r].view.from)
    BY <1>5, <2>1 DEF Recorded, AtLeast
  <2>3. CASE r # q
    <3>1. op'[r] = op[r]
      BY <1>8, <2>3
    <3> QED
      BY <1>1, <1>7, <2>2, <3>1, AtLeastTransitive DEF Inv, Recorded
  <2>4. CASE r = q
    <3>1. op[q].file = 6
      <4>1. op[q].file < 6 => op'[q].pc = "persist"
        BY <1>1, <1>2, <1>8 DEF OpState
      <4> QED
        BY <1>2, <2>2, <2>4, <4>1
    <3>2. op'[q].view = FreshView(v)
      BY <1>1, <1>8, <3>1 DEF OpState
    <3>3. FreshView(v) \in View /\ FreshView(v).from = v
      BY <1>3 DEF FreshView, View, hash
    <3>4. trusted' = v
      BY <1>5, <3>1
    <3> QED
      BY <1>3, <2>4, <3>2, <3>3, <3>4, AtLeastReflexive
  <2> QED
    BY <2>3, <2>4
<1> QED
  BY <1>9, <1>10, <1>11, <1>12, <1>13 DEF Inv

LEMMA NextInv == Inv /\ [Next]_vars => Inv'
<1> SUFFICES ASSUME Inv, [Next]_vars PROVE Inv'
  OBVIOUS
<1>1. CASE Tick
  BY <1>1, TickInv
<1>2. CASE HelperStarts
  BY <1>2, HelperStartsInv
<1>3. CASE HelperEnds
  BY <1>3, HelperEndsInv
<1>4. CASE ManagerReplaced
  BY <1>4, ManagerReplacedInv
<1>5. ASSUME NEW q \in Request, NEW kind \in Kind, Receive(q, kind) PROVE Inv'
  BY <1>5, ReceiveInv
<1>6. ASSUME NEW q \in Request, VerifyBundle(q) PROVE Inv'
  BY <1>6, VerifyBundleInv
<1>7. ASSUME NEW q \in Request, Persist(q) PROVE Inv'
  BY <1>7, PersistInv
<1>8. ASSUME NEW q \in Request, PersistFails(q) \/ ListUpdates(q) \/ DownloadEnds(q) PROVE Inv'
  BY <1>8, EndsInv DEF PersistFails, ListUpdates, DownloadEnds
<1>9. ASSUME NEW q \in Request, FallBack(q) PROVE Inv'
  BY <1>9, FallBackInv
<1>10. ASSUME NEW q \in Request, Publish(q) PROVE Inv'
  BY <1>10, PublishInv
<1>11. ASSUME NEW q \in Request, NEW release \in Release, NEW host \in Hosts,
         PrepareInstall(q, release, host) PROVE Inv'
  BY <1>11, PrepareInstallInv
<1>12. CASE UNCHANGED vars
  <2>1. UNCHANGED <<bundle, known, catalog, trusted, now, up, view, op, accepted, shown>>
    BY <1>12 DEF vars
  <2>2. TypeOK'
    BY <2>1 DEF Inv, TypeOK
  <2>3. (~up' => op' = [q \in Request |-> Idle]) /\ \A q \in Request : op'[q] = op[q]
    BY <2>1 DEF Inv, Session
  <2> QED
    BY <2>1, <2>2, <2>3, FilesAlone
<1> QED
  BY <1>1, <1>2, <1>3, <1>4, <1>5, <1>6, <1>7, <1>8, <1>9, <1>10, <1>11, <1>12 DEF Next

THEOREM Invariance == Spec => []Inv
BY InitInv, NextInv, PTL DEF Spec

-----------------------------------------------------------------------------
(* The properties.                                                         *)

\* Every variable has its type.
THEOREM TypeCorrect == Spec => []TypeOK
<1>1. Inv => TypeOK
  BY DEF Inv
<1> QED
  BY <1>1, Invariance, PTL

\* Whatever interrupted a refresh, the last known good repository is never
\* refused as rolled back.
THEOREM FallbackIsNotRolledBack == Spec => []FallbackNotRolledBack
<1>1. Inv => FallbackNotRolledBack
  <2> SUFFICES ASSUME Inv PROVE Verify(known, now) # "rollback"
    BY DEF FallbackNotRolledBack
  <2>1. /\ known \in Repository /\ trusted \in Versions
        /\ known.roots = {} /\ known.root >= trusted.root
        /\ known.timestamp >= trusted.timestamp
        /\ known.timestamp # 0 =>
             SnapshotOf(known) >= trusted.snapshot /\ TargetsOf(known) >= trusted.targets
    BY DEF Inv, TypeOK, Forward
  <2>2. RootCheck(known, now) # "rollback"
    <3>1. CASE known.root = 0
      BY <3>1 DEF RootCheck
    <3>2. CASE known.root # 0
      <4>1. FinalRoot(known) = known.root /\ known.root \in Nat
        BY <2>1, <3>2, FinalRootAlone, VersionsAssumption DEF Repository
      <4>2. ~(FinalRoot(known) < trusted.root)
        BY <2>1, <4>1 DEF Versions
      <4> QED
        BY <4>2 DEF RootCheck
    <3> QED
      BY <3>1, <3>2
  <2>3. CASE known.root = 0 \/ known.timestamp = 0
    BY <2>2, <2>3 DEF Verify, RootCheck, TimestampCheck
  <2>4. CASE known.root # 0 /\ known.timestamp # 0
    <3>1. known.timestamp \in Nat /\ SnapshotOf(known) \in Nat /\ TargetsOf(known) \in Nat
      BY <2>1, <2>4, VersionsAre, VersionsAssumption DEF Repository
    <3>2. /\ ~(known.timestamp < trusted.timestamp)
          /\ ~(SnapshotOf(known) < trusted.snapshot) /\ ~(TargetsOf(known) < trusted.targets)
      BY <2>1, <2>4, <3>1 DEF Versions
    <3>3. TimestampCheck(known, now) # "rollback"
      BY <3>2 DEF TimestampCheck, HeaderCheck
    <3>4. SnapshotCheck(known, now) # "rollback"
      BY <3>2 DEF SnapshotCheck, HeaderCheck
    <3>5. TargetsCheck(known, now) # "rollback" /\ CatalogCheck(known) # "rollback"
      BY <3>2 DEF TargetsCheck, CatalogCheck, HeaderCheck
    <3> QED
      BY <2>2, <3>3, <3>4, <3>5 DEF Verify
  <2> QED
    BY <2>3, <2>4
<1> QED
  BY <1>1, Invariance, PTL

\* The accepted versions never name a chain of which a file is missing.
THEOREM RecordedFilesAreThere == Spec => []RecordedIsComplete
<1>1. Inv => RecordedIsComplete
  <2> SUFFICES ASSUME Inv, trusted.timestamp # 0, known.timestamp = trusted.timestamp
               PROVE  /\ known.root # 0
                      /\ SnapshotOf(known) \in known.snapshots
                      /\ TargetsOf(known) \in known.targets
                      /\ CatalogOf(known) \in known.catalogs
    BY DEF RecordedIsComplete
  <2>1. known.root # 0
    <3>1. known.root >= trusted.root /\ trusted.root # 0 /\ trusted.root \in Nat
      BY DEF Inv, Forward, Complete, TypeOK, Versions
    <3> QED
      BY <3>1
  <2> QED
    BY <2>1 DEF Inv, Complete, SnapshotOf, TargetsOf, CatalogOf
<1> QED
  BY <1>1, Invariance, PTL

\* A refresh never finds an unexpired catalog older than one that was
\* accepted, in any role.
THEOREM FoundIsNotOlder == Spec => FoundNotOlder
<1>1. ASSUME Inv, [Next]_vars
      PROVE  [\A q \in Request :
                op'[q].pc = "publish" /\ op[q].pc # "publish" /\ ~op'[q].view.expired
                => AtLeast(op'[q].view.from, accepted)]_vars
  <2> SUFFICES ASSUME Next, NEW q \in Request, op'[q].pc = "publish", op[q].pc # "publish",
                      ~op'[q].view.expired
               PROVE  AtLeast(op'[q].view.from, accepted)
    BY <1>1
  <2>1. /\ op \in [Request -> OpState] /\ op[q] \in OpState
        /\ trusted \in Versions /\ accepted \in Versions /\ AtLeast(trusted, accepted)
        /\ known \in Repository
    BY <1>1 DEF Inv, TypeOK, Recorded
  <2>2. Idle.pc = "idle"
    BY DEF Idle
  <2>3. CASE Persist(q)
    <3>1. op'[q].view.from = op[q].found /\ AtLeast(op[q].found, trusted)
          /\ op[q].found \in Versions
      <4>1. op[q].pc = "persist" /\ op[q].found = VersionsOf(bundle)
            /\ AtLeast(op[q].found, trusted) /\ bundle.root # 0 /\ bundle.timestamp # 0
        BY <1>1, <2>3 DEF Inv, Session, Persist
      <4>2. op[q].found \in Versions
        BY <1>1, <4>1, VersionsAre DEF Inv, TypeOK
      <4>3. op'[q] = IF op[q].file < 6 THEN [op[q] EXCEPT !.file = op[q].file + 1]
                     ELSE [op[q] EXCEPT !.pc = "publish", !.view = FreshView(op[q].found)]
        BY <2>1, <2>3 DEF Persist
      <4>4. op'[q].view = FreshView(op[q].found)
        BY <2>1, <4>1, <4>3 DEF OpState
      <4> QED
        BY <4>1, <4>2, <4>4 DEF FreshView
    <3> QED
      BY <2>1, <3>1, AtLeastTransitive
  <2>4. CASE FallBack(q)
    <3>1. Verify(known, now) = "ok" /\ op'[q].view = CachedView
      BY <2>1, <2>2, <2>4 DEF FallBack, ExpiredView, OpState
    <3>2. known.root # 0 /\ known.timestamp # 0 /\ AtLeast(VersionsOf(known), trusted)
      BY <2>1, <3>1, VerifyIs
    <3>3. VersionsOf(known) \in Versions
      BY <2>1, <3>2, VersionsAre
    <3> QED
      BY <2>1, <3>1, <3>2, <3>3, AtLeastTransitive DEF CachedView
  <2>5. ASSUME ~Persist(q), ~FallBack(q) PROVE FALSE
    <3>1. CASE Tick \/ HelperStarts \/ ManagerReplaced
      BY <3>1 DEF Tick, HelperStarts, ManagerReplaced
    <3>2. CASE HelperEnds
      BY <2>2, <3>2 DEF HelperEnds
    <3>3. ASSUME NEW r \in Request, r # q, NEW new, op' = [op EXCEPT ![r] = new] PROVE FALSE
      BY <2>1, <3>3
    <3>4. ASSUME NEW r \in Request,
                 \/ \E kind \in Kind : Receive(r, kind)
                 \/ VerifyBundle(r) \/ Persist(r) \/ PersistFails(r) \/ FallBack(r)
                 \/ Publish(r) \/ ListUpdates(r)
                 \/ \E release \in Release, host \in Hosts : PrepareInstall(r, release, host)
                 \/ DownloadEnds(r)
          PROVE FALSE
      <4>1. CASE r # q
        BY <3>3, <3>4, <4>1 DEF Receive, VerifyBundle, Persist, PersistFails, FallBack,
                                Publish, ListUpdates, PrepareInstall, DownloadEnds
      <4>2. CASE r = q
        <5>1. CASE \E kind \in Kind : Receive(q, kind)
          BY <2>1, <2>2, <5>1 DEF Receive, Idle
        <5>2. CASE VerifyBundle(q)
          BY <2>1, <5>2 DEF VerifyBundle, OpState
        <5>3. CASE PersistFails(q) \/ ListUpdates(q) \/ DownloadEnds(q)
          BY <2>1, <2>2, <5>3 DEF PersistFails, ListUpdates, DownloadEnds
        <5>4. CASE Publish(q)
          BY <5>4 DEF Publish
        <5>5. CASE \E release \in Release, host \in Hosts : PrepareInstall(q, release, host)
          BY <2>1, <2>2, <5>5 DEF PrepareInstall, OpState
        <5> QED
          BY <2>5, <3>4, <4>2, <5>1, <5>2, <5>3, <5>4, <5>5
      <4> QED
        BY <4>1, <4>2
    <3> QED
      BY <3>1, <3>2, <3>4 DEF Next
  <2> QED
    BY <2>3, <2>4, <2>5
<1> QED
  BY <1>1, Invariance, PTL DEF Spec, FoundNotOlder

-----------------------------------------------------------------------------
(* What is offered.                                                        *)

\* Among finitely many releases one is the newest.
LEMMA Newest ==
  ASSUME NEW T \in SUBSET Release, IsFiniteSet(T), T # {}
  PROVE  \E r \in T : \A s \in T : Releases[s].version <= Releases[r].version
<1> DEFINE Above(r) == {s \in T : Releases[s].version > Releases[r].version}
           Aboves == {Above(r) : r \in T}
<1>1. Aboves \subseteq FiniteSubsetsOf(T) /\ Aboves # {}
  <2>1. \A r \in T : Above(r) \in SUBSET T /\ IsFiniteSet(Above(r))
    BY FS_Subset
  <2> QED
    BY <2>1 DEF FiniteSubsetsOf
<1>2. PICK X \in Aboves : \A Y \in Aboves : ~(<<Y, X>> \in StrictSubsetOrdering(T))
  BY <1>1, FS_StrictSubsetOrderingWellFounded, WFMin
<1>3. PICK r \in T : X = Above(r)
  OBVIOUS
<1>4. ASSUME NEW s \in T, ~(Releases[s].version <= Releases[r].version) PROVE FALSE
  <2>1. \A t \in T : Releases[t].version \in Nat
    BY ReleaseAssumption
  <2>2. s \in Above(r) /\ s \notin Above(s) /\ Above(s) \subseteq Above(r)
    BY <1>4, <2>1
  <2>3. <<Above(s), Above(r)>> \in StrictSubsetOrdering(T)
    BY <2>2 DEF StrictSubsetOrdering
  <2> QED
    BY <1>2, <1>3, <2>3
<1> QED
  BY <1>4

\* A view that is not expired names a catalog.
Named ==
  /\ view # None /\ ~view.expired => view.catalog \in CatalogHash
  /\ \A q \in Request :
       op[q].pc = "publish" /\ ~op[q].view.expired => op[q].view.catalog \in CatalogHash

\* A step that leaves the view or drops it, and after which nothing is
\* published that was not published before.
LEMMA NothingNamed ==
  ASSUME Named, view' \in {view, None},
         \A q \in Request : op'[q].pc = "publish" => op'[q] = op[q]
  PROVE  Named'
BY DEF Named

LEMMA NextNamed == Inv /\ Named /\ [Next]_vars => Named'
<1> SUFFICES ASSUME Inv, Named, [Next]_vars PROVE Named'
  OBVIOUS
<1>1. op \in [Request -> OpState] /\ known \in Repository /\ trusted \in Versions
  BY DEF Inv, TypeOK
<1>2. Idle.pc = "idle"
  BY DEF Idle
<1>3. CASE Tick \/ HelperStarts \/ ManagerReplaced \/ UNCHANGED vars
  BY <1>3, NothingNamed DEF Tick, HelperStarts, ManagerReplaced, vars
<1>4. CASE HelperEnds
  BY <1>2, <1>4, NothingNamed DEF HelperEnds
<1>5. ASSUME NEW q \in Request, NEW new, op' = [op EXCEPT ![q] = new], new.pc # "publish",
             view' = view
      PROVE  Named'
  BY <1>1, <1>5, NothingNamed
<1>6. ASSUME NEW q \in Request, NEW kind \in Kind, Receive(q, kind) PROVE Named'
  <2> DEFINE new == IF kind = "refresh" \/ view = None
                    THEN [Idle EXCEPT !.pc = "verify", !.kind = kind]
                    ELSE [Idle EXCEPT !.pc = "decide", !.kind = kind, !.view = view]
  <2>1. new.pc # "publish"
    BY DEF Idle
  <2>2. op' = [op EXCEPT ![q] = new] /\ view' = view
    BY <1>6 DEF Receive
  <2> HIDE DEF new
  <2> QED
    BY <1>5, <2>1, <2>2
<1>7. ASSUME NEW q \in Request, VerifyBundle(q) PROVE Named'
  <2>1. op[q] \in OpState
    BY <1>1
  <2>2. /\ [op[q] EXCEPT !.pc = "persist", !.found = VersionsOf(bundle), !.file = 0].pc # "publish"
        /\ [op[q] EXCEPT !.pc = "fallback", !.error = Verify(bundle, now)].pc # "publish"
    BY <2>1 DEF OpState
  <2> QED
    BY <1>5, <1>7, <2>2 DEF VerifyBundle
<1>8. ASSUME NEW q \in Request, PersistFails(q) \/ ListUpdates(q) \/ DownloadEnds(q) PROVE Named'
  BY <1>2, <1>5, <1>8 DEF PersistFails, ListUpdates, DownloadEnds
<1>9. ASSUME NEW q \in Request, NEW release \in Release, NEW host \in Hosts,
             PrepareInstall(q, release, host)
      PROVE  Named'
  <2>1. op[q] \in OpState
    BY <1>1
  <2>2. [op[q] EXCEPT !.pc = "download"].pc # "publish"
    BY <2>1 DEF OpState
  <2> QED
    BY <1>2, <1>5, <1>9, <2>2 DEF PrepareInstall
<1>10. ASSUME NEW q \in Request, Publish(q) PROVE Named'
  <2>1. op[q] \in OpState
    BY <1>1
  <2>2. [op[q] EXCEPT !.pc = "decide", !.found = None, !.file = 0, !.error = "ok"].pc # "publish"
    BY <2>1 DEF OpState
  <2>3. view' = op[q].view /\ op[q].pc = "publish"
    BY <1>10 DEF Publish
  <2>4. op'[q].pc # "publish" /\ \A r \in Request \ {q} : op'[r] = op[r]
    BY <1>1, <1>2, <1>10, <2>2 DEF Publish
  <2> QED
    BY <2>3, <2>4 DEF Named
<1>11. ASSUME NEW q \in Request, NEW v, v.expired \/ v.catalog \in CatalogHash,
              op' = [op EXCEPT ![q] = [op[q] EXCEPT !.pc = "publish", !.view = v]], view' = view
       PROVE  Named'
  <2>1. op[q] \in OpState
    BY <1>1
  <2>2. [op[q] EXCEPT !.pc = "publish", !.view = v].view = v
    BY <2>1 DEF OpState
  <2>3. op'[q].view = v /\ \A r \in Request \ {q} : op'[r] = op[r]
    BY <1>1, <1>11, <2>2
  <2> QED
    BY <1>11, <2>3 DEF Named
<1>12. ASSUME NEW q \in Request, Persist(q) PROVE Named'
  <2>1. /\ op[q] \in OpState /\ op[q].found = VersionsOf(bundle)
        /\ bundle \in Repository /\ bundle.root # 0 /\ bundle.timestamp # 0
    BY <1>1, <1>12 DEF Inv, Session, Persist, TypeOK
  <2>2. FreshView(op[q].found).catalog \in CatalogHash
    BY <2>1, VersionsAre DEF FreshView, CatalogOf
  <2>3. CASE op[q].file < 6
    <3>1. [op[q] EXCEPT !.file = op[q].file + 1].pc # "publish"
      BY <1>12, <2>1 DEF Persist, OpState
    <3> QED
      BY <1>5, <1>12, <2>3, <3>1 DEF Persist
  <2>4. CASE ~(op[q].file < 6)
    BY <1>11, <1>12, <2>2, <2>4 DEF Persist
  <2> QED
    BY <2>3, <2>4
<1>13. ASSUME NEW q \in Request, FallBack(q) PROVE Named'
  <2>1. CASE Verify(known, now) = "ok"
    <3>1. known.root # 0 /\ known.timestamp # 0
      BY <1>1, <2>1, VerifyIs
    <3>2. CachedView.catalog \in CatalogHash
      BY <1>1, <3>1, VersionsAre DEF CachedView
    <3> QED
      BY <1>11, <1>13, <2>1, <3>2 DEF FallBack
  <2>2. CASE Verify(known, now) # "ok"
    <3>1. CASE "expired" \in {op[q].error, Verify(known, now)}
      <4>1. ExpiredView.expired
        BY DEF ExpiredView
      <4>2. op' = [op EXCEPT ![q] = [op[q] EXCEPT !.pc = "publish", !.view = ExpiredView]]
            /\ view' = view
        BY <1>13, <2>2, <3>1 DEF FallBack
      <4> QED
        BY <1>11, <4>1, <4>2
    <3>2. CASE ~("expired" \in {op[q].error, Verify(known, now)})
      BY <1>2, <1>5, <1>13, <2>2, <3>2 DEF FallBack
    <3> QED
      BY <3>1, <3>2
  <2> QED
    BY <2>1, <2>2
<1> QED
  BY <1>3, <1>4, <1>6, <1>7, <1>8, <1>9, <1>10, <1>12, <1>13 DEF Next

\* listUpdates offers only compatible, newer releases that are not withdrawn,
\* each of which a preparation from the same view authorises, and for every
\* package that has one of these the newest.
THEOREM OffersAreAuthorized == Spec => []UpdatesAuthorized
<1>1. Init => Named
  BY DEF Init, Named, Idle
<1>2. Named => UpdatesAuthorized
  <2> SUFFICES ASSUME Named, view # None, ~view.expired,
                      NEW host \in Hosts, NEW installed \in Installations
               PROVE  LET offered == AvailableUpdates(view.catalog, installed, host)
                          Newer(r, s) == /\ Releases[r].package = Releases[s].package
                                         /\ Releases[r].version >= Releases[s].version
                          wanted == {r \in Catalogs[view.catalog].releases \ Catalogs[view.catalog].yanked :
                                       /\ CompatibleWith(r, host)
                                       /\ installed[Releases[r].package] # 0
                                       /\ Releases[r].version > installed[Releases[r].package]}
                      IN /\ offered \subseteq {r \in wanted : Authorizes(view, r, host)}
                         /\ \A r \in wanted : \E s \in offered : Newer(s, r)
    BY DEF UpdatesAuthorized
  <2> DEFINE c == view.catalog
             Wanted(r) == /\ r \in Catalogs[c].releases /\ r \notin Catalogs[c].yanked
                          /\ CompatibleWith(r, host)
                          /\ installed[Releases[r].package] # 0
                          /\ Releases[r].version > installed[Releases[r].package]
             found(p) == Candidates(c, p, installed[p], host)
             offered == AvailableUpdates(c, installed, host)
  <2>1. /\ c \in CatalogHash /\ Catalogs[c].releases \subseteq Release
        /\ IsFiniteSet(Catalogs[c].releases)
    BY CatalogAssumption DEF Named
  <2>2. \A r \in Release : Releases[r].package \in Package
    BY DEF Package
  <2>s. \A r \in Catalogs[c].releases : CompatibleWith(r, host) <=> Supports(r, host)
    <3>1. host.api \in Nat
      BY HostAssumption
    <3>2. \A r \in Catalogs[c].releases :
            Releases[r].maximumApi # None => Releases[r].maximumApi \in Nat
      BY <2>1, ReleaseAssumption
    <3> QED
      BY <3>1, <3>2 DEF CompatibleWith, Supports
  <2>3. ASSUME NEW r \in offered PROVE Wanted(r) /\ Authorizes(view, r, host)
    <3>1. PICK p \in Package : installed[p] # 0 /\ r \in found(p)
      BY DEF AvailableUpdates
    <3> QED
      BY <2>1, <2>s, <3>1 DEF Candidates, Authorizes
  <2>4. ASSUME NEW r \in Release, Wanted(r)
        PROVE  \E s \in offered : /\ Releases[s].package = Releases[r].package
                                  /\ Releases[s].version >= Releases[r].version
    <3> DEFINE p == Releases[r].package
    <3>1. r \in found(p)
      BY <2>1, <2>s, <2>4 DEF Candidates
    <3>2. found(p) \in SUBSET Release /\ IsFiniteSet(found(p))
      <4>1. found(p) \in SUBSET Catalogs[c].releases
        BY DEF Candidates
      <4> QED
        BY <2>1, <4>1, FS_Subset
    <3>3. PICK s \in found(p) : \A t \in found(p) : Releases[t].version <= Releases[s].version
      BY <3>1, <3>2, Newest
    <3>4. s \in offered
      BY <2>2, <2>4, <3>3 DEF AvailableUpdates
    <3>5. Releases[s].package = p
      BY <3>3 DEF Candidates
    <3>6. Releases[r].version \in Nat /\ Releases[s].version \in Nat
      BY <3>2, <3>3, ReleaseAssumption
    <3> QED
      BY <3>1, <3>3, <3>4, <3>5, <3>6
  <2> QED
    BY <2>1, <2>3, <2>4
<1> QED
  BY <1>1, <1>2, NextNamed, Invariance, PTL DEF Spec
=============================================================================
