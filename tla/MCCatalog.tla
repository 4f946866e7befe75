----------------------------- MODULE MCCatalog -----------------------------
(* The instance of Catalog for TLC: two roots with different keys, three   *)
(* timestamps over two snapshots, two targets files and two catalogs, the  *)
(* second of which withdraws a release of the first.                       *)
EXTENDS Catalog, TLC

MCRoots ==
  <<[expires |-> 3, era |-> 1, signed |-> {1}], [expires |-> 3, era |-> 2, signed |-> {1, 2}]>>
MCTimestamps ==
  <<[expires |-> 1, era |-> 1, refers |-> 1], [expires |-> 3, era |-> 1, refers |-> 1],
    [expires |-> 2, era |-> 2, refers |-> 2]>>
MCSnapshots ==
  <<[expires |-> 3, era |-> 1, refers |-> 1], [expires |-> 3, era |-> 2, refers |-> 2]>>
MCTargetsFiles ==
  <<[expires |-> 3, era |-> 1, refers |-> "c1"], [expires |-> 3, era |-> 2, refers |-> "c2"]>>
MCReleases ==
  [p2 |-> [package |-> "p", version |-> 2, minimum |-> <<1, 3, 15>>, maximum |-> None,
         minimumApi |-> 35, maximumApi |-> None],
   p3 |-> [package |-> "p", version |-> 3, minimum |-> <<1, 3, 9>>, maximum |-> <<1, 3, 15, 0>>,
         minimumApi |-> 1, maximumApi |-> 35]]
MCCatalogs ==
  [c1 |-> [releases |-> {"p2", "p3"}, yanked |-> {}],
   c2 |-> [releases |-> {"p2", "p3"}, yanked |-> {"p3"}]]
MCInstallations == [{"p"} -> 0..3]
MCHosts ==
  {[version |-> <<1, 3, 15>>, api |-> 35], [version |-> <<1, 3, 15, 1>>, api |-> 35],
   [version |-> <<1, 3, 8>>, api |-> 34], [version |-> <<1, 3, 10>>, api |-> 36]}

MCBundle(root, rotations, timestamp) ==
  LET s == MCTimestamps[timestamp].refers
      g == MCSnapshots[s].refers
  IN [root |-> root, roots |-> rotations, timestamp |-> timestamp, snapshots |-> {s},
      targets |-> {g}, catalogs |-> {MCTargetsFiles[g].refers}]
\* The last one has a root that no root leads to, and is not released.
MCBundles == {MCBundle(1, {}, 1), MCBundle(1, {}, 2), MCBundle(1, {2}, 3), MCBundle(2, {1}, 3)}

Symmetry == Permutations(Request)
=============================================================================
