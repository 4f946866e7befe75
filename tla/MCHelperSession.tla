-------------------------- MODULE MCHelperSession --------------------------
(* The instance of HelperSession for TLC.                                  *)
EXTENDS HelperSession
=============================================================================
