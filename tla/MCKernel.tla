------------------------------ MODULE MCKernel ------------------------------
(***************************************************************************)
(* The instance's own components and one application, whose namespace may  *)
(* refuse to be listed; two accounting periods.  A kernel that adapts is   *)
(* given fewer faults and no confirmations.                                *)
(***************************************************************************)
EXTENDS Kernel

CONSTANTS system, app

MCRate == [w \in Workload |-> 1]
MCFirstSize == [w \in Workload |-> IF w = app THEN 3 ELSE 1]

MCMaxPushes == [a \in BOOLEAN |-> IF a THEN 0 ELSE 1]
MCMaxFaults == [a \in BOOLEAN |-> IF a THEN 1 ELSE 2]
=============================================================================
