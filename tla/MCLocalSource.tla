--------------------------- MODULE MCLocalSource ---------------------------
(* A folder with a script, a second one that may be ignored, a twin of the  *)
(* first and a native tool; room for two artifacts.                         *)
EXTENDS LocalSource, TLC

MCFile == {"package.json", ".aemignore", "main.lua", "Main.lua", "more.lua", "tool.exe"}
MCKey == [f \in MCFile |-> IF f = "Main.lua" THEN "main.lua" ELSE f]
MCOrder == [f \in MCFile |-> CASE f = ".aemignore" -> 1 [] f = "Main.lua" -> 2
  [] f = "main.lua" -> 3 [] f = "more.lua" -> 4 [] f = "package.json" -> 5 [] f = "tool.exe" -> 6]
MCRank == ("1" :> 1) @@ ("2" :> 2)

Manifest(name, version, uses) == [name |-> name, version |-> version, uses |-> uses]
One == Manifest("ours", "1", {"main.lua"})
MCContents ==
  ("package.json" :> {One, Manifest("ours", "2", {"main.lua", "more.lua"}),
                      Manifest("theirs", "1", {})})
  @@ (".aemignore" :> {{"more.lua", "tool.exe"}})
  @@ ("main.lua" :> {0, 1}) @@ ("Main.lua" :> {0}) @@ ("more.lua" :> {0}) @@ ("tool.exe" :> {0})
MCFirst == ("package.json" :> One) @@ ("main.lua" :> 0)
=============================================================================
