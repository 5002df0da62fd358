---------------------------- MODULE MCHandOver ----------------------------
(***************************************************************************)
(* Two replicas; one application from the start and, in some runs, a       *)
(* second one deployed later.                                              *)
(***************************************************************************)
EXTENDS HandOver, TLC

CONSTANTS app, newApp, p1, p2, p3, m1, m2, k1

OneScope  == {app}
TwoScopes == {app, newApp}

MCFirstKeys == [s \in Scope |-> IF s = app THEN [active |-> 1, held |-> {1}] ELSE NoRing]

\* Each key minted in a second of its own; the second and third in the same one.
Apart    == [k \in Key |-> k]
Together == [k \in Key |-> IF k = 1 THEN 1 ELSE 2]

OneMachine  == [p \in Command |-> m1]
TwoMachines == [p \in Command |-> IF p = p2 THEN m2 ELSE m1]

InTurn(c, e, f) == [overlap |-> FALSE, commands |-> c, events |-> e, faults |-> f]

Overlapping(c, e, f) == [overlap |-> TRUE, commands |-> c, events |-> e, faults |-> f]

\* Commands one at a time.
Operator == {InTurn(3, 2, 2)}

\* Commands and passes in turn; two commands at once; a command beside a keeper's
\* pass and a late call; and a fleet left to its keeper.
Fleet == {InTurn(2, 2, 1), Overlapping(2, 0, 0), Overlapping(1, 1, 1), Overlapping(0, 3, 2)}

\* A rotation beside a keeper's pass.
Stale == {Overlapping(1, 1, 0)}
=============================================================================
