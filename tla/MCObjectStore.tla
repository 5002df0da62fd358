--------------------------- MODULE MCObjectStore ---------------------------
(***************************************************************************)
(* One key of the operator's own and one of the application's; bodies of   *)
(* less than a frame, exactly one, and more.                               *)
(***************************************************************************)
EXTENDS ObjectStore, TLC

CONSTANTS own, app, r1, r2

\* What the proof of DownloadsWhole takes for given, on more bodies than the
\* run stores: empty, and up to several frames.
ASSUME BodiesRoundTrip == \A n \in 0 .. 9 : RoundTrip(Content(n))

Replicas == Permutations({r1, r2})
=============================================================================
