-------------------------- MODULE MCGitHubBrowser --------------------------
(* Every list of up to five repositories for one search, a short list for  *)
(* another; pages of two, raw pages and scans of three.                    *)
EXTENDS GitHubBrowser, TLC

MCKinds == {"release", "manifest", "other"}
MCListings ==
  {[all |-> list, some |-> <<"bare", "release">>] : list \in UNION {[1..n -> MCKinds] : n \in 0..5}}
Symmetry == Permutations(Load)
=============================================================================
