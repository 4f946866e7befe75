------------------------------- MODULE MCRpc -------------------------------
(* The instance of Rpc for TLC.                                            *)
EXTENDS Rpc
=============================================================================
