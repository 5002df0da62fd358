------------------------------- MODULE Vault -------------------------------
(***************************************************************************)
(* The key vault of one keyholder process (datasphere/keyholder/vault.go)  *)
(* as operators on a vault value, so that a single process (Keyholder) and *)
(* the replica fleet (HandOver) run the same code.                         *)
(*                                                                         *)
(* A scope's keyring is a record: the KEK new writes are wrapped under and *)
(* the set of all KEKs held.  The order behind the active key "means       *)
(* nothing - a key is found by its ID" (scopeKeysMatch).  Key bytes are    *)
(* not modelled here; Keyholder follows their copies and their wiping.     *)
(***************************************************************************)
EXTENDS Naturals

CONSTANTS Scope,     \* names of the application scopes
          Key,       \* key-encryption keys, numbered in the order of minting
          Instance   \* the instance this keyholder serves

ASSUME KeyAssumption == Key \subseteq Nat \ {0}

-----------------------------------------------------------------------------
(* Key material *)

NoKey == 0

\* A scope as a bundle or a vault holds it.  held = {} stands for "this scope
\* is not in the set": Scope.Valid refuses a scope without keys.
NoRing == [active |-> NoKey, held |-> {}]

Ring == {ring \in [active : Key, held : SUBSET Key] : ring.active \in ring.held}

Rings == [Scope -> Ring \union {NoRing}]

NoRings == [s \in Scope |-> NoRing]

HoldsScope(rings, s) == rings[s].held # {}

-----------------------------------------------------------------------------
(* Phases and intents *)

Phase == {"restart-sealed", "unsealed", "operator-hold"}

Intent == {"operator-unseal", "restart-reseed", "hand-over"}

\* Bundles name the instance they were assembled for.
BundleOf(instances) == [instance : instances, generation : Nat, rings : Rings]

VaultState == [phase : Phase, generation : Nat, rings : Rings]

\* New: a keyholder always starts sealed, with no memory of a generation.
NewVault == [phase |-> "restart-sealed", generation |-> 0, rings |-> NoRings]

Serving(v) == v.phase = "unsealed"

-----------------------------------------------------------------------------
(* Operations *)

\* Mutant: any generation is installed.
UnsealVerdict_AnyGeneration(v, b, intent) ==
    IF b.instance # Instance                             THEN "instance-mismatch"
    ELSE IF intent = "hand-over" /\ ~Serving(v)          THEN "not-serving"
    ELSE IF intent = "restart-reseed" /\ Serving(v)      THEN "already-serving"
    ELSE IF v.phase = "operator-hold"
            /\ intent # "operator-unseal"                THEN "operator-hold"
    ELSE "install"

\* Mutant: a hand-over is not told from an unseal.
UnsealVerdict_HandOverUnseals(v, b, intent) ==
    IF b.instance # Instance                             THEN "instance-mismatch"
    ELSE IF intent = "restart-reseed" /\ Serving(v)      THEN "already-serving"
    ELSE IF v.phase = "operator-hold"
            /\ intent # "operator-unseal"                THEN "operator-hold"
    ELSE IF b.generation < v.generation                  THEN "too-old"
    ELSE IF Serving(v) /\ b.generation = v.generation    THEN "retry"
    ELSE "install"

\* Unseal's refusals in the order the code makes them, then its two ways to
\* succeed: a re-push of the generation being served installs nothing.
UnsealVerdict(v, b, intent) ==
    IF b.instance # Instance                             THEN "instance-mismatch"
    ELSE IF intent = "hand-over" /\ ~Serving(v)          THEN "not-serving"
    ELSE IF intent = "restart-reseed" /\ Serving(v)      THEN "already-serving"
    ELSE IF v.phase = "operator-hold"
            /\ intent # "operator-unseal"                THEN "operator-hold"
    ELSE IF b.generation < v.generation                  THEN "too-old"
    ELSE IF Serving(v) /\ b.generation = v.generation    THEN "retry"
    ELSE "install"

Accepted(verdict) == verdict \in {"retry", "install"}

\* The vault after Unseal: the new scopes replace the old ones in one step.
UnsealVault(v, b, intent) ==
    IF UnsealVerdict(v, b, intent) = "install"
      THEN [phase |-> "unsealed", generation |-> b.generation, rings |-> b.rings]
      ELSE v

\* Mutant: the scopes stay behind.
SealVault_KeepsScopes(v, hold) ==
    [phase      |-> IF hold THEN "operator-hold" ELSE "restart-sealed",
     generation |-> v.generation,
     rings      |-> v.rings]

\* Seal drops the keys; the generation survives it.
SealVault(v, hold) ==
    [phase      |-> IF hold THEN "operator-hold" ELSE "restart-sealed",
     generation |-> v.generation,
     rings      |-> NoRings]

ReleaseVault(v) ==
    IF v.phase = "operator-hold" THEN [v EXCEPT !.phase = "restart-sealed"] ELSE v
=============================================================================
