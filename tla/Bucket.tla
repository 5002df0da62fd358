------------------------------- MODULE Bucket -------------------------------
(***************************************************************************)
(* What the Provider contract promises of one object of a bucket           *)
(* (datasphere.go, Provider): an upload replaces the object whole or not   *)
(* at all, and one that reported success has done so.                      *)
(*                                                                         *)
(* It promises no more.  A request the caller gave up on may still arrive, *)
(* so an upload may take effect more than once, and after it returned.     *)
(***************************************************************************)
CONSTANTS Writer,   \* the uploads
          Nothing   \* what is stored before the first

VARIABLES stored,   \* the upload whose content the object has
          begun,    \* uploads that were called
          applied,  \* uploads that took effect at least once
          outcome   \* what each one returned, "none" while it has not

bucketVars == <<stored, begun, applied, outcome>>

BucketInit ==
    /\ stored = Nothing
    /\ begun = {} /\ applied = {}
    /\ outcome = [w \in Writer |-> "none"]

Begin(w) ==
    /\ w \notin begun
    /\ begun' = begun \union {w}
    /\ UNCHANGED <<stored, applied, outcome>>

Apply(w) ==
    /\ w \in begun
    /\ stored' = w
    /\ applied' = applied \union {w}
    /\ UNCHANGED <<begun, outcome>>

Succeed(w) ==
    /\ outcome[w] = "none" /\ w \in applied
    /\ outcome' = [outcome EXCEPT ![w] = "ok"]
    /\ UNCHANGED <<stored, begun, applied>>

\* The call ends with the request that took effect, answered or not.
ApplyAndReturn(w) ==
    /\ w \in begun /\ outcome[w] = "none"
    /\ stored' = w
    /\ applied' = applied \union {w}
    /\ \E result \in {"ok", "failed"} : outcome' = [outcome EXCEPT ![w] = result]
    /\ UNCHANGED begun

Fail(w) ==
    /\ w \in begun /\ outcome[w] = "none"
    /\ outcome' = [outcome EXCEPT ![w] = "failed"]
    /\ UNCHANGED <<stored, begun, applied>>

BucketNext ==
    \E w \in Writer : Begin(w) \/ Apply(w) \/ Succeed(w) \/ ApplyAndReturn(w) \/ Fail(w)

BucketSpec == BucketInit /\ [][BucketNext]_bucketVars
=============================================================================
