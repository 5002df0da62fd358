---------------------------- MODULE EgressPolicy ----------------------------
(***************************************************************************)
(* The egress policy of an instance (fatline/policy, fatline/internal/     *)
(* allowlist): the document farcast run writes, and the two views FatLine  *)
(* takes of it.                                                            *)
(*                                                                         *)
(* Every deployment has one application, of the same name in each, so that *)
(* an application is told apart by its namespace.  A credential stands for *)
(* its hash as well.  Host names are compared as wholes: normalisation,    *)
(* address literals and ports are left out.                                *)
(***************************************************************************)
EXTENDS Naturals

CONSTANTS Namespace,   \* deployments, one application each
          Host,        \* names an application may declare
          NoDoc,       \* no policy has been written
          Broken       \* text that does not parse

\* An application the document does not have; credentials are positive.
NoApp == [cred |-> 0, external |-> {}]

\* The document of an instance with no application; a missing one means this.
NoApps == [n \in Namespace |-> NoApp]

\* What a document may say of each application.
Document == [Namespace -> [cred : Nat, external : SUBSET Host]]

ASSUME PolicyAssumption == NoDoc # Broken /\ NoDoc \notin Document /\ Broken \notin Document

Readable(doc) == doc # Broken
Apps(doc) == IF doc = NoDoc THEN NoApps ELSE doc

\* Mutant: the tenant is the application's name.
Tenant_Name(n) == "app"

\* App.Tenant: the key an application is enforced under.
Tenant(n) == n

\* Identify: whose credential this is.
Identify(doc, cred) == {n \in Namespace : cred # 0 /\ Apps(doc)[n].cred = cred}

\* ByTenant and build: the hosts of each tenant.
ByTenant(doc) ==
    LET known == {n \in Namespace : Apps(doc)[n].cred # 0} IN
    [t \in {Tenant(n) : n \in known} |->
        Apps(doc)[CHOOSE n \in known : Tenant(n) = t].external]

\* List.Allow: exact membership in the tenant's own list, and no other.
Allow(list, n, host) == Tenant(n) \in DOMAIN list /\ host \in list[Tenant(n)]

\* egressPolicy: this deployment's applications replaced, all others kept.
Merge(doc, n, app) == [Apps(doc) EXCEPT ![n] = app]
=============================================================================
