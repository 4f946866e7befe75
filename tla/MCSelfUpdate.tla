---------------------------- MODULE MCSelfUpdate ----------------------------
(* Instances of SelfUpdate for TLC: three versions, so that an update, a   *)
(* rollback and a manual downgrade all exist.                              *)
EXTENDS SelfUpdate

MCVersion == 1..3

TwoVersions == 1..2
=============================================================================
