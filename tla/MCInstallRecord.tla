-------------------------- MODULE MCInstallRecord --------------------------
(* The instance of InstallRecord for TLC: two versions, one of them in two *)
(* packages with different bytes.                                          *)
EXTENDS InstallRecord

CONSTANTS a1, a2, b2

MCArtifact == {a1, a2, b2}

MCVersionOf == [a \in MCArtifact |-> IF a = a1 THEN 1 ELSE 2]
=============================================================================
