----------------------------- MODULE MCSources -----------------------------
(* A repository that publishes a first stable release of two assets, one of *)
(* them the manager's, while a branch comes to hold another package; then   *)
(* goes private with one asset replaced and the other one gone, a branch    *)
(* that makes no snapshot and another default branch.                       *)
EXTENDS Sources, TLC

MCFile == {"package.json", ".aemignore", "main.lua", "Main.lua", "sub/package.json", "tool.exe"}
MCKey == [f \in MCFile |-> IF f = "Main.lua" THEN "main.lua" ELSE f]
MCRank == ("1" :> 1) @@ ("2" :> 2) @@ ("dev" :> None)
MCTagVersion == ("v1" :> "1") @@ ("v2" :> "2")

Manifest(name, version) ==
  "package.json" :> [name |-> name, version |-> version, uses |-> {"main.lua"}]
Archive(name, version, bytes) == Manifest(name, version) @@ ("main.lua" :> bytes)

A1 == Archive("ours", "1", 0)
A2 == Archive("ours", "2", 0)
Other == Archive("ours", "2", 1)
Theirs == Archive("theirs", "2", 0)
Manager == Archive("manager", "2", 0)
Head1 == A1 @@ (".aemignore" :> {"tool.exe"})
Head2 == Archive("ours", "1", 1)
HeadOff == Head2 @@ ("Main.lua" :> 0)
HeadDev == Archive("ours", "dev", 1)

Files(main, other) == ("main" :> main) @@ ("other" :> other)
No == Files(NoUpload, NoUpload)
Hub(public, v1, v2, latest, main, dev) ==
  [public |-> public, assets |-> ("v1" :> v1) @@ ("v2" :> v2), latest |-> latest,
   head |-> ("main" :> main) @@ ("dev" :> dev), default |-> "main"]

Old == Files(A1, NoUpload)
First == Hub(TRUE, Old, No, None, Head1, HeadDev)
MCFirstHubs == {First}
MCHubs == {
  First,
  Hub(TRUE, Old, Files(Manager, Other), "v2", Head2, Theirs),
  [Hub(FALSE, Old, Files(A2, NoUpload), "v2", HeadOff, Head1) EXCEPT !.default = "dev"]}
=============================================================================
