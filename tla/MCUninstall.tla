---------------------------- MODULE MCUninstall ----------------------------
(* The instance of Uninstall for TLC: two places for the package, so that  *)
(* duplicates exist, and two quarantine directories.                       *)
EXTENDS Uninstall

MCVersion == {"v1", "v2"}
=============================================================================
