------------------------------ MODULE MCEgress ------------------------------
(***************************************************************************)
(* Two deployments of the same manifest and one host, which either may     *)
(* declare.                                                                *)
(***************************************************************************)
EXTENDS Egress, TLC

CONSTANTS n1, n2, h1, p1
=============================================================================
