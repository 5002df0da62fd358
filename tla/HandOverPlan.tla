---------------------------- MODULE HandOverPlan ----------------------------
(***************************************************************************)
(* The two judgements that keep a fleet of keyholder replicas from         *)
(* splitting, as operators on what the replicas answered:                  *)
(*   - planHandOver (farsight/cli/internal/cli/storagekeyholder.go):       *)
(*     whether a keyring may be pushed, and whether some scope's active    *)
(*     key has to be held back at first;                                   *)
(*   - FleetOf, Mismatch and Decide (farsight/cli/internal/keeper): whether*)
(*     a keeper may re-seed a restarted replica from its own bundle.       *)
(***************************************************************************)
EXTENDS Vault

CONSTANTS Replicas,  \* number of keyholder replicas
          Created    \* when each key was minted, to the second

ASSUME PlanAssumption ==
    /\ Replicas \in Nat \ {0}
    /\ Created \in [Key -> Nat]

Replica == 0 .. Replicas - 1

\* A replica answers with its vault's state, or not at all.
Silent == [phase |-> "silent", generation |-> 0, rings |-> NoRings]

Answer == VaultState \union {Silent}

Newer(k, other) == Created[k] > Created[other]

\* The serving replicas that answered and hold scope s.
Holders(states, s) ==
    {r \in Replica : Serving(states[r]) /\ HoldsScope(states[r].rings, s)}

HeldByAll(states, s, k) ==
    \A r \in Holders(states, s) : k \in states[r].rings[s].held

InUse(states, s, k) ==
    \E r \in Holders(states, s) : states[r].rings[s].active = k

-----------------------------------------------------------------------------
(* planHandOver.  previous[s] is the key in use before a rotation of s, and *)
(* NoKey for a scope that was not rotated.                                  *)

\* Mutant: only a missing scope counts as being behind.
Behind_ScopesOnly(keys, states) ==
    \E s \in Scope : Holders(states, s) # {} /\ ~HoldsScope(keys, s)

\* A serving replica has a scope or a key this keyring lacks, or writes under
\* a newer key than the one this keyring makes active.
Behind(keys, states) ==
    \E s \in Scope : \E r \in Holders(states, s) :
        LET theirs == states[r].rings[s] IN
          \/ ~(theirs.held \subseteq keys[s].held)
          \/ theirs.active # keys[s].active /\ Newer(theirs.active, keys[s].active)

\* Mutant: the keys go over in one push.
NeedsHold_Never(keys, states, previous, s) == FALSE

\* Whether scope s goes over with an older key active at first: always when
\* it was just rotated, since a silent replica cannot hold the new key.
NeedsHold(keys, states, previous, s) ==
    /\ HoldsScope(keys, s)
    /\ previous[s] # NoKey \/ ~HeldByAll(states, s, keys[s].active)

\* Keys of s that every serving replica holds and somebody writes under.
Usable(keys, states, previous, s) ==
    {k \in keys[s].held : /\ HeldByAll(states, s, k)
                          /\ InUse(states, s, k) \/ (previous[s] # NoKey /\ k = previous[s])}

\* The key to use meanwhile: the newest usable one.  Of two minted in the
\* same second the code takes the first it meets, here either.
Meanwhile(keys, states, previous, s) ==
    LET usable == Usable(keys, states, previous, s) IN
      IF usable # {} THEN {k \in usable : \A j \in usable : ~Newer(j, k)}
      ELSE IF Holders(states, s) = {} THEN {previous[s]} \intersect keys[s].held
      ELSE {}

HeldBack(keys, states, previous) ==
    {s \in Scope : NeedsHold(keys, states, previous, s)}

Refused(keys, states, previous) ==
    \/ Behind(keys, states)
    \/ \E s \in HeldBack(keys, states, previous) : Meanwhile(keys, states, previous, s) = {}

\* WithScopeActive.
WithActive(keys, active) ==
    [s \in Scope |-> IF s \in DOMAIN active THEN [keys[s] EXCEPT !.active = active[s]]
                     ELSE keys[s]]

\* The keyrings the first of two pushes may carry.
HeldKeyrings(keys, states, previous) ==
    LET back == HeldBack(keys, states, previous) IN
      {WithActive(keys, active) :
         active \in {a \in [back -> Key] :
                       \A s \in back : a[s] \in Meanwhile(keys, states, previous, s)}}

-----------------------------------------------------------------------------
(* The keeper's judgement *)

\* Mutant: the bundle is not compared with what the fleet holds.
Mismatch_Never(rings, states) == FALSE

\* A serving replica shows the bundle to be of another time than the fleet:
\* it lacks a key, writes under one not held everywhere, or under an older one.
Mismatch(rings, states) ==
    \E s \in Scope : \E r \in Holders(states, s) :
        LET theirs == states[r].rings[s] IN
          \/ ~(theirs.held \subseteq rings[s].held)
          \/ rings[s].active \notin theirs.held
          \/ theirs.active # rings[s].active /\ Newer(theirs.active, rings[s].active)

Unchecked(states) == \E r \in Replica : states[r] = Silent

\* Mutant: a replica that kept its generation through a seal counts as newer.
Reseeds_OlderOnly(bundle, states, r, withinBudget) ==
    /\ states[r].phase = "restart-sealed"
    /\ states[r].generation < bundle.generation
    /\ ~Mismatch(bundle.rings, states)
    /\ ~Unchecked(states)
    /\ withinBudget

\* Decide: re-seeding is what is left when nothing speaks against it.
Reseeds(bundle, states, r, withinBudget) ==
    /\ states[r].phase = "restart-sealed"
    /\ states[r].generation <= bundle.generation
    /\ ~Mismatch(bundle.rings, states)
    /\ ~Unchecked(states)
    /\ withinBudget
=============================================================================
