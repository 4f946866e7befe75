----------------------------- MODULE LocalSource -----------------------------
(***************************************************************************)
(* A linked folder: a snapshot of it is packaged, installed, and made again *)
(* by each check, file by file, while its author goes on editing.           *)
(* Artifacts wait in the staging directory, where the oldest are evicted.   *)
(* Its names are its own, so that a module may extend it beside Sources.    *)
(***************************************************************************)
EXTENDS Package, Sequences, SequencesExt

CONSTANTS
  Contents,  \* what a file may hold, by path
  Order,     \* the order of paths
  First,     \* the folder at first
  MaxEdits,  \* bound: edits
  Room,      \* how many artifacts STAGING_CACHE_LIMIT is
  Foreign    \* artifacts of other requests

ASSUME ContentsAssumption == DOMAIN Contents = File /\ \A f \in File : None \notin Contents[f]
ASSUME FirstAssumption == DOMAIN First \subseteq File /\ \A f \in DOMAIN First : First[f] \in Contents[f]
ASSUME OrderAssumption == Order \in [File -> Nat] /\ IsInjective(Order)
ASSUME RoomAssumption == Room \in Nat \ {0}

VARIABLES
  folder,    \* the folder's files
  edits,     \* how often it was edited
  request,   \* the request under way
  held,      \* history: what each file held, None for absent, during the last request
  staging,   \* the artifacts in staging, oldest first
  answer,    \* what the last request came to
  update,    \* the update the window shows
  given,     \* what the installer is given
  receipt    \* what is installed

folderVars == <<folder, edits, request, held, staging, answer, update, given, receipt>>

At(tree, f) == IF f \in DOMAIN tree THEN tree[f] ELSE None
Put(tree, f, content) == [g \in DOMAIN tree \cup {f} |-> IF g = f THEN content ELSE tree[g]]

\* A request: the receipt it started from, the manifest and the ignore file as
\* first read, the files still to be read and those that have been.
NoRequest ==
  [pc |-> "idle", for |-> None, saved |-> None, manifest |-> None, ignored |-> {},
   todo |-> {}, read |-> <<>>]

NoAnswer == [verdict |-> None, for |-> None, saved |-> None, tree |-> <<>>]

FolderTypeOK ==
  /\ DOMAIN folder \subseteq File /\ \A f \in DOMAIN folder : folder[f] \in Contents[f]
  /\ edits \in 0..MaxEdits
  /\ request.pc \in {"idle", "manifest", "ignore", "walk", "read"}
  /\ request.for \in {None, "link", "prepare", "check"}
  /\ request.todo \subseteq File /\ DOMAIN request.read \subseteq File
  /\ request.todo \cap DOMAIN request.read = {}
  /\ request.pc # "idle" => \A f \in File : At(folder, f) \in held[f]
  /\ Len(staging) <= Room /\ IsInjective(staging)
  /\ answer.verdict \in {None, "ready", "offer", "same", "refused", "failed"}
  /\ receipt # None => ValidExtension(receipt, None, None)

FolderInit ==
  /\ folder = First /\ edits = 0
  /\ request = NoRequest /\ held = [f \in File |-> {}]
  /\ staging = <<>> /\ answer = NoAnswer
  /\ update = None /\ given = None /\ receipt = None

-----------------------------------------------------------------------------
(* The author, external.                                                   *)

Hold(f, content) ==
  held' = IF request.pc = "idle" THEN held ELSE [held EXCEPT ![f] = @ \cup {content}]

Edit(f) ==
  /\ edits < MaxEdits
  /\ \E content \in Contents[f] \ {At(folder, f)} :
       /\ folder' = Put(folder, f, content)
       /\ Hold(f, content)
  /\ edits' = edits + 1
  /\ UNCHANGED <<request, staging, answer, update, given, receipt>>

Delete(f) ==
  /\ edits < MaxEdits /\ f \in DOMAIN folder
  /\ folder' = Restrict(folder, DOMAIN folder \ {f})
  /\ Hold(f, None)
  /\ edits' = edits + 1
  /\ UNCHANGED <<request, staging, answer, update, given, receipt>>

-----------------------------------------------------------------------------
(* The staging directory: State::stage_file.                               *)

\* evict_directory: the oldest, but not the artifact that is being staged.
Evicted(s, artifact) ==
  IF Len(s) > Room THEN RemoveFirstMatch(s, LAMBDA a : a # artifact) ELSE s

\* Artifacts are named by their content; one that is there keeps its age.
Staged(artifact) ==
  Evicted(IF Contains(staging, artifact) THEN staging ELSE Append(staging, artifact), artifact)

OtherStages ==
  /\ \E artifact \in Foreign : staging' = Staged(artifact)
  /\ UNCHANGED <<folder, edits, request, held, answer, update, given, receipt>>

-----------------------------------------------------------------------------
(* package_local_folder.                                                   *)

\* A check follows a scan that has cleared the list.
BeginSnapshot(purpose) ==
  /\ request = NoRequest
  /\ purpose # "link" => receipt # None
  /\ purpose = "check" => update = None
  /\ request' = [NoRequest EXCEPT !.pc = "manifest", !.for = purpose, !.saved = receipt]
  /\ held' = [f \in File |-> {At(folder, f)}]
  /\ UNCHANGED <<folder, edits, staging, answer, update, given, receipt>>

End(verdict, tree) ==
  /\ request' = NoRequest
  /\ answer' = [verdict |-> verdict, for |-> request.for, saved |-> request.saved, tree |-> tree]
  /\ UNCHANGED <<folder, edits, held, receipt>>

Refuse == End("refused", <<>>) /\ UNCHANGED <<staging, update, given>>

Go(o) == request' = o /\ UNCHANGED <<folder, edits, held, staging, answer, update, given, receipt>>

ReadManifest ==
  /\ request.pc = "manifest"
  /\ IF ManifestFile \in DOMAIN folder /\ ValidManifest(folder[ManifestFile])
     THEN Go([request EXCEPT !.pc = "ignore", !.manifest = folder[ManifestFile]])
     ELSE Refuse

ReadIgnore ==
  /\ request.pc = "ignore"
  /\ Go([request EXCEPT !.pc = "walk", !.ignored = Ignored(folder)])

\* The walk over the folder is one step.
Walk ==
  /\ request.pc = "walk"
  /\ IF Collects(DOMAIN folder, request.ignored)
     THEN Go([request EXCEPT !.pc = "read", !.todo = Collected(DOMAIN folder, request.ignored)])
     ELSE Refuse

\* The files are read in the order of their paths; one that is no longer
\* there, or that is native, ends the request.
NextFile(todo) == CHOOSE f \in todo : \A g \in todo : Order[f] <= Order[g]
ReadFile ==
  /\ request.pc = "read" /\ request.todo # {}
  /\ LET f == NextFile(request.todo) IN
     IF f \in DOMAIN folder /\ NoNative({f})
     THEN Go([request EXCEPT !.todo = @ \ {f}, !.read = Put(@, f, folder[f])])
     ELSE Refuse

\* No room on the disk, no permission.
ReadFails == request.pc # "idle" /\ End("failed", <<>>) /\ UNCHANGED <<staging, update, given>>

\* The archive is validated, for the name and version that were read first.
Packaged(o) == ValidExtension(o.read, o.manifest.name, o.manifest.version)

\* Slip: a check goes by the version.
Changed_Version(o) == o.manifest.version # o.saved[ManifestFile].version

Changed(o) == o.read # o.saved

SameNamed(o) == o.manifest.name = o.saved[ManifestFile].name

\* The artifact is staged and the request answered.
Finish ==
  /\ request.pc = "read" /\ request.todo = {}
  /\ IF ~Packaged(request) THEN Refuse
     ELSE /\ staging' = Staged(request.read)
          /\ IF request.for # "check"
             THEN End("ready", request.read) /\ given' = request.read /\ UNCHANGED update
             ELSE /\ UNCHANGED given
                  /\ IF ~SameNamed(request) THEN End("refused", <<>>) /\ update' = None
                     ELSE IF Changed(request)
                          THEN End("offer", request.read) /\ update' = request.read
                     ELSE End("same", request.read) /\ update' = None

-----------------------------------------------------------------------------
\* preparePackage with the update's resolution, if it is still in staging.
PrepareOffer ==
  /\ update # None /\ given = None
  /\ Contains(staging, update)
  /\ staging' = Staged(update) /\ given' = update
  /\ UNCHANGED <<folder, edits, request, held, answer, update, receipt>>

\* verifyInstall, with the artifact.
InstallSnapshot ==
  /\ given # None /\ Contains(staging, given)
  /\ receipt' = given /\ given' = None
  /\ UNCHANGED <<folder, edits, request, held, staging, answer, update>>

\* The user declines, or the artifact is gone.
DeclineSnapshot ==
  /\ given # None /\ given' = None
  /\ UNCHANGED <<folder, edits, request, held, staging, answer, update, receipt>>

\* The refresh of the window: a check under way is of an earlier generation; a
\* scan that succeeds clears the list.
FolderRefresh ==
  /\ update # None \/ request.for = "check"
  /\ request' = (IF request.for = "check" THEN NoRequest ELSE request)
  /\ answer' = (IF request.for = "check" THEN NoAnswer ELSE answer)
  /\ update' \in {update, None}
  /\ UNCHANGED <<folder, edits, held, staging, given, receipt>>

FolderNext ==
  \/ \E f \in File : Edit(f) \/ Delete(f)
  \/ OtherStages
  \/ \E purpose \in {"link", "prepare", "check"} : BeginSnapshot(purpose)
  \/ ReadManifest \/ ReadIgnore \/ Walk \/ ReadFile \/ ReadFails \/ Finish
  \/ PrepareOffer \/ InstallSnapshot \/ DeclineSnapshot \/ FolderRefresh

FolderSpec == FolderInit /\ [][FolderNext]_folderVars

-----------------------------------------------------------------------------
(* Properties.                                                             *)

\* The folder was left alone during the last request, and what it was then.
Quiet == \A f \in File : \E content \in held[f] : held[f] = {content}
Then == [f \in {g \in File : held[g] # {None}} |-> CHOOSE content \in held[f] : TRUE]

\* A snapshot taken while the folder is edited is an extension whose every
\* file held what the snapshot says at some moment of the request, and lacks
\* no file that was there and not ignored all the time.  When nobody edited,
\* the verdict is exact: an update exactly if the installed package is not the
\* folder's snapshot, whatever its version and however torn the installed one
\* was, and a refusal exactly if the folder is no such extension
\* (docs/architecture.md: "A changed content hash is an update even when the
\* manifest version is unchanged.  The package name must remain the same.").
SnapshotTrue ==
  LET tree == answer.tree
      done == request.pc = "idle" /\ answer.verdict \notin {None, "failed"}
      skipped == Dropped \cup UNION (held[IgnoreFile] \ {None})
  IN /\ done /\ answer.verdict # "refused" =>
          /\ ValidExtension(tree, None, None)
          /\ \A f \in DOMAIN tree : tree[f] \in held[f]
          /\ \A f \in File \ skipped : None \notin held[f] => f \in DOMAIN tree
     /\ done /\ Quiet =>
          /\ answer.verdict = "refused" <=>
               ~Snapshots(Then) \/ (answer.for = "check"
                  /\ Then[ManifestFile].name # answer.saved[ManifestFile].name)
          /\ answer.verdict = "offer" => Snapshot(Then) # answer.saved
          /\ answer.verdict = "same" => Snapshot(Then) = answer.saved
=============================================================================
