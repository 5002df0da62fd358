---------------------------- MODULE MCLifecycle ----------------------------
(***************************************************************************)
(* Two bucket names, either of which may be somebody else's.  An instance  *)
(* from its installation on; one that was connected before; and one that   *)
(* applications are delivered to.                                          *)
(***************************************************************************)
EXTENDS Delivery, TLC

CONSTANTS b1, b2

MCName == {b1, b2}
MCMaxFaults == [new |-> 2, connected |-> 2, delivering |-> 2]
MCKind == [new        |-> {"install", "connect", "deploy", "write", "release"},
           connected  |-> {"redeploy", "kernel", "toolchain"},
           delivering |-> {"toolchain", "build", "run"}]
MCOption == [new |-> {"none"}, connected |-> {"none", "image", "source"}, delivering |-> {"none"}]
=============================================================================
