----------------------------- MODULE MCMetadata -----------------------------
(***************************************************************************)
(* Two commands, two fields, three values.                                 *)
(***************************************************************************)
EXTENDS Metadata

CONSTANTS c1, c2, kernel, storage
=============================================================================
