---------------------------- MODULE MCKeyholder ----------------------------
(***************************************************************************)
(* A small keyholder: two applications, the second deployed after the      *)
(* first bundle was made; the bundles an operator and a keeper enrolled    *)
(* before a rotation would carry, and one assembled for another instance.  *)
(***************************************************************************)
EXTENDS Keyholder, TLC

CONSTANTS app, newApp

MCScope == {app, newApp}

OneKey  == [s \in Scope |-> IF s = app THEN [active |-> 1, held |-> {1}] ELSE NoRing]
TwoKeys == [s \in Scope |-> IF s = app THEN [active |-> 2, held |-> {1, 2}]
                                        ELSE [active |-> 2, held |-> {2}]]

Before  == [instance |-> Instance,      generation |-> 1, rings |-> OneKey]
Rotated == [instance |-> Instance,      generation |-> 2, rings |-> TwoKeys]
Foreign == [instance |-> OtherInstance, generation |-> 2, rings |-> TwoKeys]

\* Session ids are only ever compared for equality.
SessionSymmetry == Permutations(Session)

MCBundle == {Before, Rotated, Foreign}

To(instance, from, bundle, intent) ==
    [from |-> from, bundle |-> bundle, intent |-> intent, instance |-> instance]

\* Two unseals, a hand-over of rotated keys, a keeper's re-seed from before the
\* rotation, a keeper claiming to be a person, and a bundle that names another
\* instance.
MCPush ==
    {To(Instance,      "operator", Before,  "operator-unseal"),
     To(Instance,      "operator", Rotated, "operator-unseal"),
     To(Instance,      "operator", Rotated, "hand-over"),
     To(Instance,      "keeper",   Before,  "restart-reseed"),
     To(Instance,      "keeper",   Rotated, "operator-unseal"),
     To(Instance,      "operator", Foreign, "operator-unseal")}
=============================================================================
