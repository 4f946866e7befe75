---------------------------- MODULE MCController ----------------------------
(* Instances of Controller for TLC. *)
EXTENDS Controller, TLC

Symmetry == Permutations(Client) \cup Permutations(Package)
=============================================================================
