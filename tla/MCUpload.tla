------------------------------ MODULE MCUpload ------------------------------
(***************************************************************************)
(* Blobs that fit one request, end exactly where a window does, and end    *)
(* inside one.                                                             *)
(***************************************************************************)
EXTENDS Upload

CONSTANTS small, even, odd

MCLength == [w \in Writer |-> CASE w = small -> 1 [] w = even -> 4 [] w = odd -> 5]
=============================================================================
