------------------------------- MODULE Package -------------------------------
(***************************************************************************)
(* What the helper takes for an extension: the rules for the files of an   *)
(* archive and for the manifest at its root, and the snapshot it makes of  *)
(* a folder or of a repository.                                            *)
(*                                                                         *)
(* A tree is a function from the paths of its files to what they hold: a   *)
(* manifest in package.json, the files to leave out in .aemignore.  An     *)
(* archive is the tree it unpacks to.                                      *)
(***************************************************************************)
EXTENDS Naturals, FiniteSets, Functions

CONSTANTS
  File,         \* paths
  ManifestFile, \* package.json
  IgnoreFile,   \* .aemignore
  Nested,       \* package.json files below the root
  Dropped,      \* paths that are never taken: default_excluded
  Refused,      \* links, unsafe names, files that are too large
  Native,       \* native code
  Key,          \* collision_key of a path
  Name,         \* manifest names
  Version,      \* manifest versions
  Rank,         \* their order by semver, None for what semver does not parse
  None

ASSUME FileAssumption ==
  /\ ManifestFile \in File /\ IgnoreFile \in Dropped /\ Dropped \subseteq File
  /\ Nested \subseteq File \ {ManifestFile} /\ Refused \cup Native \subseteq File
  /\ ManifestFile \notin Dropped /\ DOMAIN Key = File
ASSUME RankAssumption == Rank \in [Version -> Nat \cup {None}] /\ None \notin Nat
ASSUME NoNameAssumption == None \notin Name /\ None \notin Version

\* name, version, and the paths of main and contributes
Manifests == [name : Name \cup {None}, version : Version, uses : SUBSET File]

\* What a file of a tree holds matters for the manifest and the ignore file.
IsTree(tree) ==
  /\ DOMAIN tree \subseteq File
  /\ ManifestFile \in DOMAIN tree => tree[ManifestFile] \in Manifests
  /\ IgnoreFile \in DOMAIN tree => tree[IgnoreFile] \subseteq File

\* validate_zip_entry_type, enforce_entry_size, normalize_archive_path
Allowed(files) == files \cap Refused = {}

\* reject_native_name, reject_native_magic
NoNative(files) == files \cap Native = {}

Collides(files) == \E f, g \in files : f # g /\ Key[f] = Key[g]

\* validate_manifest
ValidManifest(manifest) == manifest.name # None

\* inspect_extension_archive
Inspects(tree) ==
  /\ Allowed(DOMAIN tree) /\ NoNative(DOMAIN tree)
  /\ ~Collides(DOMAIN tree)
  /\ ManifestFile \in DOMAIN tree
  /\ DOMAIN tree \cap Nested = {}

\* validate_contributions
Contributes(tree) == tree[ManifestFile].uses \subseteq DOMAIN tree

\* validate_extension; None expects nothing.
ValidExtension(tree, name, version) ==
  /\ Inspects(tree)
  /\ ValidManifest(tree[ManifestFile])
  /\ Contributes(tree)
  /\ name \in {None, tree[ManifestFile].name}
  /\ version \in {None, tree[ManifestFile].version}

-----------------------------------------------------------------------------
\* build_ignore_matcher
Ignored(tree) == IF IgnoreFile \in DOMAIN tree THEN tree[IgnoreFile] ELSE {}

\* collect_local_files: the files to take, unless one of them is refused.
Collected(files, ignored) == files \ (Dropped \cup ignored)
Collects(files, ignored) ==
  /\ Allowed(Collected(files, ignored))
  /\ ~Collides(Collected(files, ignored))
  /\ ManifestFile \in Collected(files, ignored)

\* package_local_folder, of a folder nobody changes meanwhile.  What is read
\* must not be native, which the archive's validation says again.
Snapshot(tree) == Restrict(tree, Collected(DOMAIN tree, Ignored(tree)))
Snapshots(tree) ==
  /\ ManifestFile \in DOMAIN tree /\ ValidManifest(tree[ManifestFile])
  /\ Collects(DOMAIN tree, Ignored(tree))
  /\ ValidExtension(Snapshot(tree), tree[ManifestFile].name, tree[ManifestFile].version)

\* package_repository_archive: the ignored files count as well, then a
\* snapshot of what was unpacked is made.
Repackages(tree) == Inspects(tree) /\ Snapshots(tree)

=============================================================================
