---------------------------- MODULE EgressProofs ----------------------------
(***************************************************************************)
(* Proofs about Egress: deny by default and the alerting of what was       *)
(* refused, for every set of deployments, hosts and operators, every size  *)
(* of the buffer and of the socket, and every burst threshold.             *)
(***************************************************************************)
EXTENDS Egress, TLAPS, SequenceTheorems

-----------------------------------------------------------------------------
(* The inductive invariant *)

Class == Anybody \X Reason \X Place
Event == [kind : {"deny"}, class : Class] \union [kind : {"note"}]
Row == [count : Nat, severity : Nat, alerted : Nat]
Doc == Document \union {NoDoc}

OpState ==
    {Idle} \union [step : {"write"}, ns : Namespace, cred : Nat, doc : Document]
           \union [step : {"apply"}, ns : Namespace, cred : Nat]

RelayState ==
    [step : {"relay"}, client : BOOLEAN, upstream : BOOLEAN, up : BOOLEAN, down : BOOLEAN]

ConnState ==
    {Idle, [step |-> "dial"]}
    \union [step : {"identify"}, ns : Namespace, host : Host, cred : Nat, since : SUBSET Doc]
    \union [step : {"allow", "hello"}, ns : Namespace, host : Host, cred : Namespace,
            since : SUBSET Doc]
    \union RelayState

\* What the policy's side of the state is made of.
PolicyType ==
    /\ configmap \in Doc \union {Broken}
    /\ pods \in [Namespace -> Nat]
    /\ op \in [Operator -> OpState]
    /\ fatline \in [up : BOOLEAN, watching : BOOLEAN, reloading : BOOLEAN,
                    creds : Doc, list : Doc, last : Doc \union {Broken}]
    /\ conn \in ConnState
    /\ minted \in Nat

\* What the monitor's side of the state is made of.
EventType ==
    /\ buffer \in Seq(Event)
    /\ wire \in Seq(Event)
    /\ shrike \in [up : BOOLEAN, table : [Class -> Row]]
    /\ denied \in SUBSET Class

\* The documents that may still come into force, or be built on.
Documents ==
    ({configmap} \ {Broken}) \union {fatline.creds, fatline.list}
        \union {op[p].doc : p \in {o \in Operator : op[o].step = "write"}}

\* Credential c stands for deployment n somewhere: in a document, in its pods,
\* in a run on its way, or in the request being served.
Stands(n, c) ==
    \/ \E doc \in Documents : Apps(doc)[n].cred = c
    \/ pods[n] = c
    \/ \E p \in Operator : op[p].step \in {"write", "apply"} /\ op[p].ns = n /\ op[p].cred = c
    \/ conn.step = "identify" /\ conn.ns = n /\ conn.cred = c

\* Nobody holds a credential that was not minted, and no two deployments
\* hold the same one.
Minted == \A n \in Namespace, c \in Nat : Stands(n, c) => c <= minted
OneOwner == \A n, m \in Namespace, c \in Nat \ {0} : Stands(n, c) /\ Stands(m, c) => n = m

\* FatLine's two halves agree between reloads, and nothing is served by a
\* process that does not run.
HalvesAgree == ~fatline.reloading => fatline.creds = fatline.list
ServedWhileUp == ~fatline.up => conn = Idle

\* A request that is being judged has met both halves, and once its caller is
\* identified it is known by the deployment it came from.
MetBoth == conn.step \in {"identify", "allow"} => {fatline.creds, fatline.list} \subseteq conn.since
KnownCaller == conn.step = "allow" => conn.cred = conn.ns

PolicyInv ==
    /\ PolicyType /\ Minted /\ OneOwner
    /\ HalvesAgree /\ ServedWhileUp /\ MetBoth /\ KnownCaller /\ DeclaredOnly

\* A class that has a row was alerted at the severity the row calls for.
RowAlerted(row, reason) ==
    row.count > 0 => /\ row.severity = SeverityOf(reason, row.count)
                     /\ row.alerted = row.severity

TableAlerted == \A c \in Class : RowAlerted(shrike.table[c], c[2])

EventInv == EventType /\ TableAlerted /\ NoBlindSpot

-----------------------------------------------------------------------------
(* What the operators of the policy return *)

\* Apps of a readable document is a document, and so is a merge into one.
LEMMA AppsDocument ==
  ASSUME NEW doc \in Doc
  PROVE  /\ Apps(doc) \in Document
         /\ \A n \in Namespace, app \in [cred : Nat, external : SUBSET Host] :
              /\ Merge(doc, n, app) \in Document
              /\ Merge(doc, n, app) # NoDoc
              /\ Apps(Merge(doc, n, app)) = Merge(doc, n, app)
              /\ Merge(doc, n, app)[n] = app
              /\ \A m \in Namespace \ {n} : Merge(doc, n, app)[m] = Apps(doc)[m]
<1>1. NoApps \in Document
  BY DEF NoApps, NoApp, Document
<1>2. Apps(doc) \in Document
  BY <1>1 DEF Apps, Doc
<1>3. ASSUME NEW n \in Namespace, NEW app \in [cred : Nat, external : SUBSET Host]
      PROVE  /\ Merge(doc, n, app) \in Document
             /\ Merge(doc, n, app)[n] = app
             /\ \A m \in Namespace \ {n} : Merge(doc, n, app)[m] = Apps(doc)[m]
  BY <1>2 DEF Merge, Document
<1> QED
  BY <1>2, <1>3, PolicyAssumption DEF Apps

\* The documents a hand edit leaves.
LEMMA NoAppsDocument == NoApps \in Document /\ NoApps # NoDoc /\ NoApps # Broken
  BY PolicyAssumption DEF NoApps, NoApp, Document

\* An application that a manifest may declare.
LEMMA ManifestApp ==
  ASSUME minted \in Nat, NEW app \in Manifest
  PROVE  /\ app \in [cred : Nat, external : SUBSET Host]
         /\ app.cred \in {0, minted + 1}
  BY DEF Manifest, NoApp

\* Identify names deployments of the document; the allowlist of a document
\* lets a deployment reach what that deployment declared there.
LEMMA IdentifyNames ==
  ASSUME NEW doc, NEW cred, NEW n \in Identify(doc, cred)
  PROVE  n \in Namespace /\ cred # 0 /\ Apps(doc)[n].cred = cred
  BY DEF Identify

\* What a document's list allows a namespace, the document declares for it.
LEMMA AllowDeclared ==
  ASSUME NEW doc, NEW n \in Namespace, NEW host, Allow(ByTenant(doc), n, host)
  PROVE  host \in Apps(doc)[n].external
<1> DEFINE known == {m \in Namespace : Apps(doc)[m].cred # 0}
           list == ByTenant(doc)
<1>1. DOMAIN list = known
  BY DEF ByTenant, Tenant
<1>2. n \in known /\ host \in list[n]
  BY <1>1 DEF Allow, Tenant
<1>3. list[n] = Apps(doc)[CHOOSE m \in known : m = n].external
  BY <1>2 DEF ByTenant, Tenant
<1>4. (CHOOSE m \in known : m = n) = n
  BY <1>2
<1> QED
  BY <1>2, <1>3, <1>4

-----------------------------------------------------------------------------
(* Deny by default: the type of the policy's side *)

\* The policy, the lists and the connections are well-typed at first.
LEMMA PolicyTypeInit == Init => PolicyType
<1> SUFFICES ASSUME Init PROVE PolicyType
  OBVIOUS
<1>1. PICK app \in {NoApp, [cred |-> 1, external |-> Host]} :
        /\ configmap = IF app = NoApp THEN NoDoc ELSE Merge(NoDoc, Elder, app)
        /\ pods = [n \in Namespace |-> IF n = Elder THEN app.cred ELSE 0]
  BY DEF Init
<1>2. app \in [cred : Nat, external : SUBSET Host]
  BY DEF NoApp
<1>3. configmap \in Doc /\ pods \in [Namespace -> Nat]
  BY <1>1, <1>2, AppsDocument, EgressAssumption DEF Doc
<1>4. Down \in [up : BOOLEAN, watching : BOOLEAN, reloading : BOOLEAN,
                creds : Doc, list : Doc, last : Doc \union {Broken}]
  BY DEF Down, Doc
<1> QED
  BY <1>3, <1>4 DEF Init, PolicyType, OpState, ConnState

\* A connection that relays is one of the connection states.
LEMMA RelayingType == Relaying \in ConnState
<1>1. Relaying \in RelayState
  BY DEF Relaying, RelayState
<1> QED
  BY <1>1 DEF ConnState

\* Every step keeps the policy, the lists and the connections well-typed.
LEMMA PolicyTypeStep == PolicyType /\ [Next]_vars => PolicyType'
<1> SUFFICES ASSUME PolicyType, [Next]_vars PROVE PolicyType'
  OBVIOUS
<1> USE DEF PolicyType
<1>1. ASSUME NEW p \in Operator, NEW n \in Namespace, ReadPolicy(p, n) PROVE PolicyType'
  <2>1. PICK app \in Manifest :
          op' = [op EXCEPT ![p] = [step |-> "write", ns |-> n, cred |-> app.cred,
                                   doc |-> Merge(configmap, n, app)]]
    BY <1>1 DEF ReadPolicy
  <2>2. Merge(configmap, n, app) \in Document /\ app.cred \in Nat
    BY <1>1, ManifestApp, AppsDocument DEF ReadPolicy, Readable
  <2>3. [step |-> "write", ns |-> n, cred |-> app.cred, doc |-> Merge(configmap, n, app)] \in OpState
    BY <2>2 DEF OpState
  <2> QED
    BY <1>1, <2>1, <2>3 DEF ReadPolicy
<1>2. ASSUME NEW p \in Operator, RunStep(p) PROVE PolicyType'
  <2>1. CASE WritePolicy(p)
    <3>1. op[p] \in [step : {"write"}, ns : Namespace, cred : Nat, doc : Document]
      BY <2>1 DEF WritePolicy, OpState, Idle
    <3>2. [step |-> "apply", ns |-> op[p].ns, cred |-> op[p].cred] \in OpState
      BY <3>1 DEF OpState
    <3> QED
      BY <2>1, <3>1, <3>2 DEF WritePolicy, Doc
  <2>2. CASE ApplyWorkloads(p)
    <3>1. op[p] \in [step : {"apply"}, ns : Namespace, cred : Nat]
      BY <2>2 DEF ApplyWorkloads, OpState, Idle
    <3> QED
      BY <2>2, <3>1 DEF ApplyWorkloads, OpState
  <2>3. CASE Abort(p)
    BY <2>3 DEF Abort, OpState
  <2> QED
    BY <1>2, <2>1, <2>2, <2>3 DEF RunStep
<1>3. ASSUME PolicyStep PROVE PolicyType'
  <2>1. CASE Edit
    BY <2>1, NoAppsDocument DEF Edit, Doc
  <2>2. CASE Start
    BY <2>2 DEF Start, Readable, Down, policyVars, Doc
  <2>3. CASE Watch
    BY <2>3 DEF Watch, policyVars
  <2>4. CASE Poll
    <3>1. configmap \in Doc
      BY <2>4 DEF Poll
    <3>2. conn' \in ConnState
      <4>1. CASE conn.step \in {"identify", "allow"}
        <5>1. conn' = [conn EXCEPT !.since = @ \union {configmap}]
          BY <2>4, <4>1 DEF Poll, Meets
        <5> QED
          BY <3>1, <4>1, <5>1 DEF ConnState, RelayState, Idle
      <4> QED
        BY <2>4, <4>1 DEF Poll, Meets
    <3> QED
      BY <2>4, <3>1, <3>2 DEF Poll, policyVars
  <2>5. CASE ReloadList
    BY <2>5 DEF ReloadList, policyVars
  <2> QED
    BY <1>3, <2>1, <2>2, <2>3, <2>4, <2>5 DEF PolicyStep
<1>4. ASSUME EventStep PROVE PolicyType'
  BY <1>4 DEF EventStep, Deliver, Record, ShrikeCrash, ShrikeStart, policyVars
<1>5. ASSUME End PROVE PolicyType'
  BY <1>5 DEF End, policyVars, Down, Doc, ConnState
<1>6. ASSUME NEW n \in Namespace, NEW h \in Host, Plain(n, h) \/ Connect(n, h) PROVE PolicyType'
  <2>1. CASE Plain(n, h)
    BY <2>1 DEF Plain, policyVars
  <2>2. CASE Connect(n, h)
    <3>1. InForce \in SUBSET Doc /\ pods[n] \in Nat
      BY DEF InForce
    <3>2. conn' \in ConnState
      BY <2>2, <3>1 DEF Connect, ConnState
    <3> QED
      BY <2>2, <3>2 DEF Connect, policyVars
  <2> QED
    BY <1>6, <2>1, <2>2
<1>7. ASSUME RequestStep PROVE PolicyType'
  <2>1. CASE IdentifyCaller
    <3>1. conn \in [step : {"identify"}, ns : Namespace, host : Host, cred : Nat, since : SUBSET Doc]
      BY <2>1 DEF IdentifyCaller, Serving, ConnState, RelayState, Idle
    <3> DEFINE caller == Identify(fatline.creds, conn.cred)
    <3>2. CASE caller = {}
      BY <2>1, <3>2 DEF IdentifyCaller, ConnState, policyVars
    <3>3. CASE caller # {}
      <4>1. (CHOOSE n \in caller : TRUE) \in Namespace
        BY <3>3, IdentifyNames
      <4>2. conn' \in ConnState
        BY <2>1, <3>1, <3>3, <4>1 DEF IdentifyCaller, ConnState
      <4> QED
        BY <2>1, <4>2 DEF IdentifyCaller, policyVars
    <3> QED
      BY <3>2, <3>3
  <2>2. CASE CheckHost
    <3>1. conn' \in ConnState
      BY <2>2 DEF CheckHost, Serving, ConnState, RelayState, Idle
    <3> QED
      BY <2>2, <3>1 DEF CheckHost, policyVars
  <2>3. CASE PeekSNI
    BY <2>3 DEF PeekSNI, policyVars, ConnState
  <2>4. CASE Dial
    <3>1. conn' \in ConnState
      BY <2>4, RelayingType DEF Dial, ConnState
    <3> QED
      BY <2>4, <3>1 DEF Dial, policyVars
  <2> QED
    BY <1>7, <2>1, <2>2, <2>3, <2>4 DEF RequestStep
<1>8. ASSUME RelayStep PROVE PolicyType'
  <2>1. conn \in RelayState
    BY <1>8 DEF RelayStep, ClientEnds, UpstreamEnds, CopyEnds, CopyFails, RelayEnds, Serving,
       ConnState, Idle
  <2>2. conn' \in RelayState \union {Idle}
    BY <1>8, <2>1 DEF RelayStep, ClientEnds, UpstreamEnds, CopyEnds, CopyFails, RelayEnds, RelayState
  <2>3. conn' \in ConnState
    BY <2>2 DEF ConnState
  <2> QED
    BY <1>8, <2>3 DEF RelayStep, ClientEnds, UpstreamEnds, CopyEnds, CopyFails, RelayEnds, policyVars
<1>9. ASSUME Stream PROVE PolicyType'
  <2>1. conn' \in ConnState
    BY <1>9, RelayingType DEF Stream
  <2> QED
    BY <1>9, <2>1 DEF Stream, policyVars
<1>10. ASSUME UNCHANGED vars PROVE PolicyType'
  BY <1>10 DEF vars, policyVars
<1> QED
  BY <1>1, <1>2, <1>3, <1>4, <1>5, <1>6, <1>7, <1>8, <1>9, <1>10 DEF Next

-----------------------------------------------------------------------------
(* Deny by default: a credential stands for one deployment *)

\* A step that builds no document, starts no run and takes no credential from
\* elsewhere makes no credential stand for a deployment it did not stand for.
LEMMA StandsFrom ==
  ASSUME PolicyType,
         Documents' \subseteq Documents \union {NoDoc, NoApps},
         \A n \in Namespace : pods'[n] # pods[n] =>
            \E p \in Operator : op[p].step = "apply" /\ op[p].ns = n /\ op[p].cred = pods'[n],
         \A p \in Operator : op'[p].step \in {"write", "apply"} =>
            /\ op[p].step \in {"write", "apply"}
            /\ op'[p].ns = op[p].ns /\ op'[p].cred = op[p].cred,
         conn'.step = "identify" => Stands(conn'.ns, conn'.cred),
         NEW n \in Namespace, NEW c \in Nat \ {0}, Stands(n, c)'
  PROVE  Stands(n, c)
<1>1. CASE \E doc \in Documents' : Apps(doc)[n].cred = c
  <2>1. PICK doc \in Documents' : Apps(doc)[n].cred = c
    BY <1>1
  <2>2. Apps(NoDoc)[n].cred = 0 /\ Apps(NoApps)[n].cred = 0
    BY NoAppsDocument DEF Apps, NoApps, NoApp
  <2>3. doc \in Documents
    BY <2>1, <2>2
  <2> QED
    BY <2>1, <2>3 DEF Stands
<1>2. CASE pods'[n] = c
  BY <1>2 DEF Stands
<1>3. CASE \E p \in Operator : op'[p].step \in {"write", "apply"} /\ op'[p].ns = n /\ op'[p].cred = c
  BY <1>3 DEF Stands
<1>4. CASE conn'.step = "identify" /\ conn'.ns = n /\ conn'.cred = c
  BY <1>4
<1> QED
  BY <1>1, <1>2, <1>3, <1>4 DEF Stands

\* A new credential stands for the deployment that is being run; no other
\* step makes one stand for anything new.
LEMMA StandsStep ==
  ASSUME PolicyType, [Next]_vars, NEW n \in Namespace, NEW c \in Nat \ {0}, Stands(n, c)'
  PROVE  \/ Stands(n, c)
         \/ \E p \in Operator : ReadPolicy(p, n) /\ c = minted + 1
<1> USE DEF PolicyType
<1>1. ASSUME NEW p \in Operator, NEW m \in Namespace, ReadPolicy(p, m)
      PROVE  Stands(n, c) \/ (n = m /\ c = minted + 1)
  <2>1. PICK app \in Manifest :
          op' = [op EXCEPT ![p] = [step |-> "write", ns |-> m, cred |-> app.cred,
                                   doc |-> Merge(configmap, m, app)]]
    BY <1>1 DEF ReadPolicy
  <2>2. /\ configmap \in Doc /\ configmap \in Documents
        /\ app.cred \in {0, minted + 1} /\ app \in [cred : Nat, external : SUBSET Host]
    BY <1>1, ManifestApp DEF ReadPolicy, Readable, Documents
  <2> DEFINE new == Merge(configmap, m, app)
  <2>3. /\ Apps(new)[m].cred \in {0, minted + 1}
        /\ \A k \in Namespace \ {m} : Apps(new)[k].cred = Apps(configmap)[k].cred
    BY <2>2, AppsDocument
  <2>4. Documents' \subseteq Documents \union {new}
    BY <1>1, <2>1 DEF ReadPolicy, Documents
  <2>5. UNCHANGED <<pods, conn>>
    BY <1>1 DEF ReadPolicy
  <2>6. CASE \E doc \in Documents' : Apps(doc)[n].cred = c
    <3>1. PICK doc \in Documents' : Apps(doc)[n].cred = c
      BY <2>6
    <3> QED
      BY <2>2, <2>3, <2>4, <3>1 DEF Stands
  <2>7. CASE \E o \in Operator : op'[o].step \in {"write", "apply"} /\ op'[o].ns = n /\ op'[o].cred = c
    <3>1. PICK o \in Operator : op'[o].step \in {"write", "apply"} /\ op'[o].ns = n /\ op'[o].cred = c
      BY <2>7
    <3>2. CASE o = p
      BY <2>1, <2>2, <3>1, <3>2
    <3>3. CASE o # p
      BY <2>1, <3>1, <3>3 DEF Stands
    <3> QED
      BY <3>2, <3>3
  <2> QED
    BY <2>5, <2>6, <2>7 DEF Stands
<1>2. ASSUME NEW p \in Operator, RunStep(p) PROVE Stands(n, c)
  <2>1. /\ UNCHANGED <<fatline, conn>>
        /\ Documents' \subseteq Documents \union {NoDoc, NoApps}
    <3>1. CASE WritePolicy(p)
      <4>1. op[p].doc \in Documents
        BY <3>1 DEF WritePolicy, Documents
      <4> QED
        BY <3>1, <4>1 DEF WritePolicy, Documents
    <3>2. CASE ApplyWorkloads(p)
      BY <3>2 DEF ApplyWorkloads, Documents, Idle
    <3>3. CASE Abort(p)
      BY <3>3 DEF Abort, Documents, Idle
    <3> QED
      BY <1>2, <3>1, <3>2, <3>3 DEF RunStep
  <2>2. \A m \in Namespace : pods'[m] # pods[m] =>
          \E o \in Operator : op[o].step = "apply" /\ op[o].ns = m /\ op[o].cred = pods'[m]
    BY <1>2 DEF RunStep, WritePolicy, ApplyWorkloads, Abort
  <2>3. \A o \in Operator : op'[o].step \in {"write", "apply"} =>
          /\ op[o].step \in {"write", "apply"}
          /\ op'[o].ns = op[o].ns /\ op'[o].cred = op[o].cred
    BY <1>2 DEF RunStep, WritePolicy, ApplyWorkloads, Abort, Idle
  <2>4. conn'.step = "identify" => Stands(conn'.ns, conn'.cred)
    BY <2>1 DEF Stands
  <2> QED
    BY <2>1, <2>2, <2>3, <2>4, StandsFrom
<1>3. ASSUME UNCHANGED <<pods, op>>,
             Documents' \subseteq Documents \union {NoDoc, NoApps},
             conn'.step = "identify" => Stands(conn'.ns, conn'.cred)
      PROVE  Stands(n, c)
  BY <1>3, StandsFrom
<1>4. ASSUME PolicyStep PROVE Stands(n, c)
  <2>1. UNCHANGED <<pods, op>>
    BY <1>4 DEF PolicyStep, Edit, Start, Watch, Poll, ReloadList, policyVars
  <2>2. Documents' \subseteq Documents \union {NoDoc, NoApps}
    BY <1>4 DEF PolicyStep, Edit, Start, Watch, Poll, ReloadList, policyVars, Documents, Readable, Down
  <2>3. conn'.step = "identify" =>
          conn.step = "identify" /\ conn'.ns = conn.ns /\ conn'.cred = conn.cred
    <3>1. CASE Poll
      BY <3>1 DEF Poll, Meets, ConnState, RelayState, Idle
    <3> QED
      BY <1>4, <3>1 DEF PolicyStep, Edit, Start, Watch, ReloadList
  <2> QED
    BY <1>3, <2>1, <2>2, <2>3 DEF Stands
<1>5. ASSUME UNCHANGED <<policyVars, fatline>>,
             conn'.step = "identify" => Stands(conn'.ns, conn'.cred)
      PROVE  Stands(n, c)
  <2>1. Documents' = Documents
    BY <1>5 DEF policyVars, Documents
  <2> QED
    BY <1>3, <1>5, <2>1 DEF policyVars
<1>6. conn.step = "identify" => Stands(conn.ns, conn.cred)
  BY DEF Stands
<1>7. ASSUME EventStep PROVE Stands(n, c)
  BY <1>5, <1>6, <1>7 DEF EventStep, Deliver, Record, ShrikeCrash, ShrikeStart
<1>8. ASSUME End PROVE Stands(n, c)
  <2>1. Documents' \subseteq Documents \union {NoDoc, NoApps}
    BY <1>8 DEF End, policyVars, Documents, Down
  <2> QED
    BY <1>3, <1>8, <2>1 DEF End, policyVars, Idle
<1>9. ASSUME NEW m \in Namespace, NEW h \in Host, Plain(m, h) \/ Connect(m, h)
      PROVE  Stands(n, c)
  BY <1>5, <1>6, <1>9 DEF Plain, Connect, Stands
<1>10. ASSUME RequestStep \/ RelayStep \/ Stream PROVE Stands(n, c)
  <2>1. UNCHANGED <<policyVars, fatline>>
    BY <1>10 DEF RequestStep, IdentifyCaller, CheckHost, PeekSNI, Dial, RelayStep, ClientEnds,
       UpstreamEnds, CopyEnds, CopyFails, RelayEnds, Stream
  <2>2. conn' = conn \/ conn'.step # "identify"
    <3>1. CASE RequestStep
      <4>1. CASE IdentifyCaller
        <5>1. conn \in [step : {"identify"}, ns : Namespace, host : Host, cred : Nat, since : SUBSET Doc]
          BY <4>1 DEF IdentifyCaller, Serving, ConnState, RelayState, Idle
        <5>2. PICK k : conn' = Idle \/ conn' = [conn EXCEPT !.step = "allow", !.cred = k]
          BY <4>1 DEF IdentifyCaller
        <5>3. CASE conn' = Idle
          BY <5>3 DEF Idle
        <5>4. CASE conn' = [conn EXCEPT !.step = "allow", !.cred = k]
          BY <5>1, <5>4
        <5> QED
          BY <5>2, <5>3, <5>4
      <4>2. CASE CheckHost
        BY <4>2 DEF CheckHost, Serving, Idle, ConnState, RelayState
      <4> QED
        BY <3>1, <4>1, <4>2 DEF RequestStep, PeekSNI, Dial, Idle, Relaying
    <3>2. CASE RelayStep
      BY <3>2 DEF RelayStep, ClientEnds, UpstreamEnds, CopyEnds, CopyFails, RelayEnds, Serving, Idle,
         ConnState, RelayState
    <3>3. CASE Stream
      BY <3>3 DEF Stream, Relaying
    <3> QED
      BY <1>10, <3>1, <3>2, <3>3
  <2> QED
    BY <1>5, <1>6, <2>1, <2>2
<1>11. ASSUME UNCHANGED vars PROVE Stands(n, c)
  BY <1>5, <1>6, <1>11 DEF vars
<1> QED
  BY <1>1, <1>2, <1>4, <1>7, <1>8, <1>9, <1>10, <1>11 DEF Next

-----------------------------------------------------------------------------
(* Deny by default: the theorem *)

\* At first one application at most is declared, under one credential, and FatLine is down.
LEMMA PolicyInvInit == Init => PolicyInv
<1> SUFFICES ASSUME Init PROVE PolicyInv
  OBVIOUS
<1>1. PolicyType
  BY PolicyTypeInit
<1>2. PICK app \in {NoApp, [cred |-> 1, external |-> Host]} :
        /\ configmap = IF app = NoApp THEN NoDoc ELSE Merge(NoDoc, Elder, app)
        /\ pods = [n \in Namespace |-> IF n = Elder THEN app.cred ELSE 0]
  BY DEF Init
<1>3. \A n \in Namespace : Apps(NoDoc)[n].cred = 0
  BY DEF Apps, NoApps, NoApp
<1>4. \A n \in Namespace : Apps(configmap)[n].cred # 0 => n = Elder /\ Apps(configmap)[n].cred = 1
  <2>1. app \in [cred : Nat, external : SUBSET Host] /\ app.cred \in {0, 1} /\ NoDoc \in Doc
    BY DEF NoApp, Doc
  <2> QED
    BY <1>2, <1>3, <2>1, AppsDocument, EgressAssumption
<1>5. ASSUME NEW n \in Namespace, NEW c \in Nat \ {0}, Stands(n, c)
      PROVE  n = Elder /\ c = 1
  <2>1. \A doc \in Documents : Apps(doc)[n].cred = 0 \/ doc = configmap
    BY <1>3 DEF Init, Documents, Down, Idle
  <2>2. pods[n] # 0 => n = Elder /\ pods[n] = 1
    BY <1>2 DEF NoApp
  <2> QED
    BY <1>4, <1>5, <2>1, <2>2 DEF Stands, Init, Idle
<1>6. Minted /\ OneOwner
  BY <1>5 DEF Minted, OneOwner, Init
<1> QED
  BY <1>1, <1>6 DEF Init, PolicyInv, HalvesAgree, ServedWhileUp, MetBoth, KnownCaller,
     DeclaredOnly, Down, Idle

\* Every step keeps credentials single-owned and connections within declared policies.
LEMMA PolicyInvStep == PolicyInv /\ [Next]_vars => PolicyInv'
<1> SUFFICES ASSUME PolicyInv, [Next]_vars PROVE PolicyInv'
  OBVIOUS
<1>1. PolicyType /\ PolicyType'
  BY PolicyTypeStep DEF PolicyInv
<1>2. minted' \in {minted, minted + 1}
      /\ ((\E p \in Operator, n \in Namespace : ReadPolicy(p, n)) => minted' = minted + 1)
  BY DEF Next, RunStep, WritePolicy, ApplyWorkloads, Abort, ReadPolicy, PolicyStep, Edit, Start, Watch,
     Poll, ReloadList, EventStep, Deliver, Record, ShrikeCrash, ShrikeStart, End, Plain, Connect,
     RequestStep, IdentifyCaller, CheckHost, PeekSNI, Dial, RelayStep, ClientEnds, UpstreamEnds,
     CopyEnds, CopyFails, RelayEnds, Stream, policyVars, vars
<1>3. Minted'
  <2> SUFFICES ASSUME NEW n \in Namespace, NEW c \in Nat, Stands(n, c)' PROVE c <= minted'
    BY DEF Minted
  <2>1. CASE c = 0
    BY <1>1, <2>1 DEF PolicyType
  <2>2. CASE c # 0
    BY <1>1, <1>2, <2>2, StandsStep DEF PolicyInv, Minted, PolicyType
  <2> QED
    BY <2>1, <2>2
<1>4. OneOwner'
  <2> SUFFICES ASSUME NEW n \in Namespace, NEW m \in Namespace, NEW c \in Nat \ {0},
                      Stands(n, c)', Stands(m, c)'
               PROVE  n = m
    BY DEF OneOwner
  <2>1. CASE Stands(n, c) /\ Stands(m, c)
    BY <2>1 DEF PolicyInv, OneOwner
  <2>2. CASE c = minted + 1
    <3>1. ~Stands(n, c) /\ ~Stands(m, c)
      BY <1>1, <2>2 DEF PolicyInv, Minted, PolicyType
    <3>2. PICK p \in Operator : ReadPolicy(p, n)
      BY <1>1, <3>1, StandsStep
    <3>3. PICK q \in Operator : ReadPolicy(q, m)
      BY <1>1, <3>1, StandsStep
    <3>4. op'[p].ns = n /\ op'[p].step = "write" /\ op[p] = Idle
      BY <1>1, <3>2 DEF ReadPolicy, PolicyType
    <3>5. op'[q].ns = m /\ op' = [op EXCEPT ![q] = op'[q]]
      BY <1>1, <3>3 DEF ReadPolicy, PolicyType
    <3>6. p = q
      BY <1>1, <3>4, <3>5 DEF PolicyType, Idle
    <3> QED
      BY <3>4, <3>5, <3>6
  <2> QED
    BY <1>1, <2>1, <2>2, StandsStep
<1>5. HalvesAgree' /\ ServedWhileUp' /\ MetBoth' /\ KnownCaller' /\ DeclaredOnly'
  <2> DEFINE Judged == HalvesAgree /\ ServedWhileUp /\ MetBoth /\ KnownCaller /\ DeclaredOnly
  <2> USE DEF HalvesAgree, ServedWhileUp, MetBoth, KnownCaller, DeclaredOnly
  <2>0. Judged
    BY DEF PolicyInv
  <2>1. ASSUME UNCHANGED <<fatline, conn>> PROVE Judged'
    BY <2>0, <2>1
  <2>2. ASSUME UNCHANGED fatline, fatline.up,
               conn'.step \notin {"identify", "allow", "hello"}
        PROVE  Judged'
    BY <2>0, <2>2
  <2>3. ASSUME PolicyStep PROVE Judged'
    <3>1. CASE Edit
      BY <2>1, <3>1 DEF Edit
    <3>2. CASE Start
      <4>1. conn' = Idle /\ fatline'.up /\ fatline'.creds = fatline'.list
        BY <2>0, <3>2 DEF Start, Down
      <4> QED
        BY <4>1 DEF Idle
    <3>3. CASE Watch
      <4>1. /\ fatline'.up = fatline.up /\ fatline'.reloading = fatline.reloading
            /\ fatline'.creds = fatline.creds /\ fatline'.list = fatline.list
        BY <1>1, <3>3 DEF Watch, PolicyType
      <4> QED
        BY <2>0, <3>3, <4>1 DEF Watch
    <3>4. CASE Poll
      <4>1. /\ fatline'.up /\ fatline'.reloading /\ fatline'.list = fatline.list
            /\ fatline'.creds = configmap
        BY <1>1, <3>4 DEF Poll, PolicyType
      <4>2. CASE conn.step \in {"identify", "allow"}
        <5>1. /\ conn'.step = conn.step /\ conn'.ns = conn.ns /\ conn'.cred = conn.cred
              /\ conn'.since = conn.since \union {configmap}
          BY <1>1, <3>4, <4>2 DEF Poll, Meets, PolicyType, ConnState, RelayState, Idle
        <5> QED
          BY <2>0, <4>1, <4>2, <5>1
      <4>3. CASE conn.step \notin {"identify", "allow"}
        BY <2>0, <3>4, <4>1, <4>3 DEF Poll, Meets
      <4> QED
        BY <4>2, <4>3
    <3>5. CASE ReloadList
      <4>1. /\ fatline'.up = fatline.up /\ ~fatline'.reloading
            /\ fatline'.creds = fatline.creds /\ fatline'.list = fatline.creds
        BY <1>1, <3>5 DEF ReloadList, PolicyType
      <4> QED
        BY <2>0, <3>5, <4>1 DEF ReloadList
    <3> QED
      BY <2>3, <3>1, <3>2, <3>3, <3>4, <3>5 DEF PolicyStep
  <2>4. ASSUME End PROVE Judged'
    BY <2>4 DEF End, Down, Idle
  <2>5. ASSUME NEW n \in Namespace, NEW h \in Host, Connect(n, h) PROVE Judged'
    BY <2>0, <2>5 DEF Connect, Arrive, InForce
  <2>6. ASSUME IdentifyCaller PROVE Judged'
    <3> DEFINE caller == Identify(fatline.creds, conn.cred)
    <3>1. conn \in [step : {"identify"}, ns : Namespace, host : Host, cred : Nat, since : SUBSET Doc]
          /\ UNCHANGED fatline /\ fatline.up
      BY <1>1, <2>0, <2>6 DEF IdentifyCaller, Serving, PolicyType, ConnState, RelayState, Idle
    <3>2. CASE caller = {}
      BY <2>2, <2>6, <3>1, <3>2 DEF IdentifyCaller, Idle
    <3>3. CASE caller # {}
      <4>1. PICK n \in caller : n = CHOOSE m \in caller : TRUE
        BY <3>3
      <4>2. Stands(n, conn.cred) /\ Stands(conn.ns, conn.cred) /\ conn.cred # 0 /\ n \in Namespace
        BY <3>1, IdentifyNames DEF Stands, Documents
      <4>3. n = conn.ns
        BY <3>1, <4>2 DEF PolicyInv, OneOwner
      <4>4. conn' = [conn EXCEPT !.step = "allow", !.cred = n]
        BY <2>6, <3>3, <4>1 DEF IdentifyCaller
      <4>5. conn'.step = "allow" /\ conn'.cred = conn'.ns /\ conn'.since = conn.since
        BY <3>1, <4>3, <4>4
      <4> QED
        BY <2>0, <3>1, <4>5
    <3> QED
      BY <3>2, <3>3
  <2>7. ASSUME CheckHost PROVE Judged'
    <3>1. conn \in [step : {"allow"}, ns : Namespace, host : Host, cred : Namespace, since : SUBSET Doc]
          /\ UNCHANGED fatline /\ fatline.up
      BY <1>1, <2>0, <2>7 DEF CheckHost, Serving, PolicyType, ConnState, RelayState, Idle
    <3>2. CASE Allow(ByTenant(fatline.list), conn.cred, conn.host)
      <4>1. conn.host \in Apps(fatline.list)[conn.ns].external
        BY <2>0, <3>1, <3>2, AllowDeclared
      <4>2. conn' = [conn EXCEPT !.step = "hello"]
        BY <2>7, <3>2 DEF CheckHost
      <4>3. conn'.step = "hello" /\ conn'.host = conn.host /\ conn'.ns = conn.ns
            /\ conn'.since = conn.since
        BY <3>1, <4>2
      <4> QED
        BY <2>0, <3>1, <4>1, <4>3
    <3>3. CASE ~Allow(ByTenant(fatline.list), conn.cred, conn.host)
      BY <2>2, <2>7, <3>1, <3>3 DEF CheckHost, Idle
    <3> QED
      BY <3>2, <3>3
  <2>8. ASSUME PeekSNI \/ Dial PROVE Judged'
    BY <2>0, <2>2, <2>8 DEF PeekSNI, Dial, Serving, Idle, Relaying
  <2>9. ASSUME RelayStep PROVE Judged'
    <3>1. conn \in RelayState
      BY <1>1, <2>9 DEF RelayStep, ClientEnds, UpstreamEnds, CopyEnds, CopyFails, RelayEnds, Serving,
         PolicyType, ConnState, Idle
    <3>2. conn'.step \notin {"identify", "allow", "hello"}
      BY <2>9, <3>1 DEF RelayStep, ClientEnds, UpstreamEnds, CopyEnds, CopyFails, RelayEnds, RelayState,
         Idle
    <3>3. UNCHANGED fatline
      BY <2>9 DEF RelayStep, ClientEnds, UpstreamEnds, CopyEnds, CopyFails, RelayEnds
    <3> QED
      BY <2>0, <2>2, <3>1, <3>2, <3>3 DEF RelayState, Idle
  <2>10. ASSUME Stream PROVE Judged'
    BY <2>1, <2>2, <2>10 DEF Stream, Arrive, Relaying
  <2> QED
    BY <2>1, <2>3, <2>4, <2>5, <2>6, <2>7, <2>8, <2>9, <2>10
    DEF Next, RunStep, WritePolicy, ApplyWorkloads, Abort, ReadPolicy, EventStep, Deliver, Record,
        ShrikeCrash, ShrikeStart, Plain, RequestStep, vars
<1> QED
  BY <1>1, <1>3, <1>4, <1>5 DEF PolicyInv

\* FatLine denies by default and by each application's own manifest: in every
\* interleaving of runs, hand edits, reloads, restarts and requests, what is
\* let through was declared by the deployment the request came from.
THEOREM DenyByDefault == Spec => []DeclaredOnly
<1>1. PolicyInv => DeclaredOnly
  BY DEF PolicyInv
<1> QED
  BY <1>1, PolicyInvInit, PolicyInvStep, PTL DEF Spec

-----------------------------------------------------------------------------
(* Nothing refused goes unseen *)

\* A class never calls for less as its count grows.
LEMMA SeverityGrows ==
  ASSUME NEW reason, NEW count \in Nat
  PROVE  /\ SeverityOf(reason, count) \in Nat /\ SeverityOf(reason, count + 1) \in Nat
         /\ SeverityOf(reason, count) <= SeverityOf(reason, count + 1)
<1>1. SeverityForReason(reason) \in {1, 2, 3}
  BY DEF SeverityForReason, Info, Warning, Critical
<1>2. /\ Escalate(SeverityForReason(reason)) \in {2, 3}
      /\ SeverityForReason(reason) <= Escalate(SeverityForReason(reason))
  BY <1>1 DEF Escalate, Info, Warning, Critical
<1>3. Burst \in Nat
  BY BurstAssumption
<1> QED
  BY <1>1, <1>2, <1>3 DEF SeverityOf

\* recordDeny leaves a row that was alerted at the severity it calls for,
\* whether or not the alert window has passed.
LEMMA RecordAlerts ==
  ASSUME NEW row \in Row, NEW reason, NEW fresh \in BOOLEAN, RowAlerted(row, reason)
  PROVE  /\ RecordDeny(row, reason, fresh) \in Row
         /\ RecordDeny(row, reason, fresh).count > 0
         /\ RowAlerted(RecordDeny(row, reason, fresh), reason)
<1> DEFINE count == row.count + 1
           severity == SeverityOf(reason, count)
           new == RecordDeny(row, reason, fresh)
<1>1. /\ row.count \in Nat /\ row.severity \in Nat /\ row.alerted \in Nat
      /\ count \in Nat /\ count > 0
  BY DEF Row
<1>2. /\ severity \in Nat
      /\ row.count > 0 => row.severity <= severity /\ row.alerted = row.severity
  BY <1>1, SeverityGrows DEF RowAlerted
<1>3. /\ new.count = count /\ new.severity = severity
      /\ new.alerted = IF Raises(row, count, severity, fresh) THEN severity ELSE row.alerted
      /\ new = [count |-> count, severity |-> severity, alerted |-> new.alerted]
  BY DEF RecordDeny
<1>4. new.alerted = severity
  <2>1. CASE Raises(row, count, severity, fresh)
    BY <1>3, <2>1
  <2>2. CASE ~Raises(row, count, severity, fresh)
    <3>1. count # 1 /\ ~(severity > row.severity)
      BY <2>2 DEF Raises
    <3>2. row.count > 0 /\ row.severity = severity
      BY <1>1, <1>2, <3>1
    <3> QED
      BY <1>2, <1>3, <2>2, <3>2
  <2> QED
    BY <2>1, <2>2
<1> HIDE DEF count, severity, new
<1>5. new \in Row
  BY <1>1, <1>2, <1>3, <1>4 DEF Row
<1>6. RowAlerted(new, reason)
  BY <1>3, <1>4 DEF RowAlerted, severity
<1> QED
  BY <1>1, <1>3, <1>5, <1>6 DEF new

\* A class is waiting in a queue.
In(q, c) == \E i \in 1 .. Len(q) : q[i].kind = "deny" /\ q[i].class = c

\* An event is queued where it is put.
LEMMA AppendIn ==
  ASSUME NEW q \in Seq(Event), NEW e \in Event, NEW c
  PROVE  /\ Append(q, e) \in Seq(Event)
         /\ In(q, c) => In(Append(q, e), c)
         /\ e.kind = "deny" /\ e.class = c => In(Append(q, e), c)
<1>1. Len(q) \in Nat
  OBVIOUS
<1> QED
  BY <1>1, AppendProperties DEF In

\* It stays queued behind the one that is taken.
LEMMA TailIn ==
  ASSUME NEW q \in Seq(Event), q # << >>, NEW c
  PROVE  /\ Head(q) \in Event /\ Tail(q) \in Seq(Event)
         /\ In(q, c) => In(Tail(q), c) \/ (Head(q).kind = "deny" /\ Head(q).class = c)
<1>1. Len(q) \in Nat
  OBVIOUS
<1>2. ASSUME In(q, c)
      PROVE  In(Tail(q), c) \/ (Head(q).kind = "deny" /\ Head(q).class = c)
  <2>1. PICK i \in 1 .. Len(q) : q[i].kind = "deny" /\ q[i].class = c
    BY <1>2 DEF In
  <2>2. CASE i = 1
    BY <2>1, <2>2
  <2>3. CASE i # 1
    <3>1. i - 1 \in 1 .. Len(Tail(q)) /\ Tail(q)[i - 1] = q[i]
      BY <1>1, <2>1, <2>3, HeadTailProperties
    <3> QED
      BY <2>1, <3>1 DEF In
  <2> QED
    BY <2>2, <2>3
<1> QED
  BY <1>2, HeadTailProperties

\* An event is queued when it is in the buffer or on the wire.
LEMMA QueuedIn ==
  ASSUME NEW c
  PROVE  Queued(c) <=> In(buffer, c) \/ In(wire, c)
  BY DEF Queued, In

\* BufferedSink.Emit hides nothing: the refusal is queued or counted.
LEMMA EmitSeen ==
  ASSUME EventInv, NEW e \in Event, Emit(e)
  PROVE  EventInv'
<1>1. buffer' = Append(buffer, e) \/ (buffer' = buffer /\ (e.kind = "deny" => e.class \in counted'))
  BY DEF Emit
<1>2. buffer' \in Seq(Event) /\ UNCHANGED <<wire, shrike>> /\ counted \subseteq counted'
  BY <1>1, AppendProperties DEF Emit, EventInv, EventType
<1>3. /\ \A c \in denied' : c \in denied \/ (e.kind = "deny" /\ c = e.class)
      /\ denied' \in SUBSET Class
  <2>1. e.kind = "deny" => e.class \in Class
    BY DEF Event
  <2> QED
    BY <2>1 DEF Emit, EventInv, EventType
<1>4. ASSUME NEW c \in denied' PROVE Told(c)' \/ Queued(c)' \/ c \in counted'
  <2>1. Told(c) => Told(c)'
    BY <1>2 DEF Told
  <2>2. In(buffer, c) \/ In(wire, c) => In(buffer', c) \/ In(wire', c)
    <3>1. In(buffer, c) => In(Append(buffer, e), c)
      BY AppendIn DEF EventInv, EventType
    <3> QED
      BY <1>1, <1>2, <3>1
  <2>3. CASE c \in denied
    BY <1>2, <2>1, <2>2, <2>3, QueuedIn DEF EventInv, NoBlindSpot, Queued, In
  <2>4. CASE e.kind = "deny" /\ c = e.class
    <3>1. In(buffer', c) \/ c \in counted'
      <4>1. In(Append(buffer, e), c)
        BY <2>4, AppendIn DEF EventInv, EventType
      <4> QED
        BY <1>1, <2>4, <4>1
    <3> QED
      BY <3>1 DEF Queued, In
  <2> QED
    BY <1>3, <2>3, <2>4
<1> QED
  BY <1>2, <1>3, <1>4 DEF EventInv, EventType, TableAlerted, NoBlindSpot

\* The drain loses nothing: what leaves the buffer is on the wire or counted.
LEMMA DeliverSeen ==
  ASSUME EventInv, Deliver
  PROVE  EventInv'
<1> DEFINE e == Head(buffer)
<1>1. /\ buffer \in Seq(Event) /\ buffer # << >> /\ wire \in Seq(Event)
      /\ e \in Event /\ Tail(buffer) \in Seq(Event)
  BY HeadTailProperties DEF EventInv, EventType, Deliver
<1>2. /\ \/ wire' = Append(wire, e) /\ counted' = counted
         \/ wire' = wire /\ counted' = IF e.kind = "deny" THEN counted \union {e.class} ELSE counted
      /\ buffer' = Tail(buffer) /\ UNCHANGED <<shrike, denied>>
  BY DEF Deliver
<1> HIDE DEF e
<1>3. wire' \in Seq(Event)
  BY SMTT(40), <1>1, <1>2, AppendIn
<1>4. ASSUME NEW c \in denied' PROVE Told(c)' \/ Queued(c)' \/ c \in counted'
  <2>1. Told(c) => Told(c)'
    BY <1>2 DEF Told
  <2>2. In(wire, c) => In(wire', c)
    <3>1. In(wire, c) => In(Append(wire, e), c)
      BY <1>1, AppendIn
    <3> QED
      BY <1>2, <3>1
  <2>3. In(buffer, c) => In(buffer', c) \/ (e.kind = "deny" /\ e.class = c)
    BY <1>1, <1>2, TailIn DEF e
  <2>4. e.kind = "deny" /\ e.class = c => In(wire', c) \/ c \in counted'
    <3>1. e.kind = "deny" /\ e.class = c => In(Append(wire, e), c)
      BY <1>1, AppendIn
    <3> QED
      BY <1>2, <3>1
  <2>5. Told(c) \/ In(buffer, c) \/ In(wire, c) \/ c \in counted
    BY <1>2, QueuedIn DEF EventInv, NoBlindSpot
  <2>6. Told(c)' \/ In(buffer', c) \/ In(wire', c) \/ c \in counted'
    BY <1>2, <2>1, <2>2, <2>3, <2>4, <2>5
  <2> QED
    BY <2>6 DEF Queued, In
<1> QED
  BY <1>1, <1>2, <1>3, <1>4 DEF EventInv, EventType, TableAlerted, NoBlindSpot

\* What Shrike takes from the wire it raises, at the severity the class has.
LEMMA RecordSeen ==
  ASSUME EventInv, Record
  PROVE  EventInv'
<1> DEFINE e == Head(wire)
<1>1. /\ wire \in Seq(Event) /\ wire # << >> /\ e \in Event /\ Tail(wire) \in Seq(Event)
      /\ e.kind = "deny" => e.class \in Class
  <2>1. wire \in Seq(Event) /\ wire # << >>
    BY DEF EventInv, EventType, Record
  <2>2. e \in Event /\ Tail(wire) \in Seq(Event)
    BY <2>1, HeadTailProperties
  <2> QED
    BY <2>1, <2>2 DEF Event
<1>2. wire' = Tail(wire) /\ UNCHANGED <<buffer, denied, counted>>
  BY DEF Record
<1>3. /\ shrike' \in [up : BOOLEAN, table : [Class -> Row]] /\ TableAlerted'
      /\ \A c \in Class : Told(c) => Told(c)'
      /\ \A c \in Class : e.kind = "deny" /\ e.class = c => Told(c)'
  <2>1. CASE e.kind # "deny"
    <3>1. shrike' = shrike
      BY <2>1 DEF Record
    <3> QED
      BY <2>1, <3>1 DEF EventInv, EventType, TableAlerted, Told
  <2>2. CASE e.kind = "deny"
    <3>0. PICK k \in Class : k = e.class
      BY <1>1, <2>2
    <3>1. PICK fresh \in BOOLEAN :
            shrike' = [shrike EXCEPT !.table[k] = RecordDeny(@, k[2], fresh)]
      BY <2>2, <3>0 DEF Record
    <3> DEFINE new == RecordDeny(shrike.table[k], k[2], fresh)
    <3>2. /\ shrike.table \in [Class -> Row] /\ k \in Class
          /\ RowAlerted(shrike.table[k], k[2])
      BY DEF EventInv, EventType, TableAlerted
    <3>3. new \in Row /\ new.count > 0 /\ RowAlerted(new, k[2])
      BY <3>2, RecordAlerts
    <3> HIDE DEF new
    <3>4. shrike'.table = [shrike.table EXCEPT ![k] = new] /\ shrike'.up = shrike.up
          /\ shrike' \in [up : BOOLEAN, table : [Class -> Row]]
      BY <3>1, <3>2, <3>3 DEF new, EventInv, EventType
    <3>5. /\ shrike'.table[k] = new
          /\ \A c \in Class \ {k} : shrike'.table[c] = shrike.table[c]
      BY <3>2, <3>4
    <3>6. TableAlerted'
      BY <3>3, <3>5 DEF EventInv, TableAlerted
    <3>7. Told(k)'
      BY <3>3, <3>5 DEF Told, RowAlerted
    <3>8. \A c \in Class : Told(c) => Told(c)'
      BY <3>5, <3>7 DEF Told
    <3> QED
      BY <3>0, <3>4, <3>6, <3>7, <3>8
  <2> QED
    BY <2>1, <2>2
<1>4. ASSUME NEW c \in denied' PROVE Told(c)' \/ Queued(c)' \/ c \in counted'
  <2>1. In(wire, c) => In(wire', c) \/ (e.kind = "deny" /\ e.class = c)
    BY <1>1, <1>2, TailIn
  <2>2. c \in Class /\ (Told(c) \/ In(buffer, c) \/ In(wire, c) \/ c \in counted)
    BY <1>2, QueuedIn DEF EventInv, EventType, NoBlindSpot
  <2>3. Told(c)' \/ In(buffer', c) \/ In(wire', c) \/ c \in counted'
    BY <1>2, <1>3, <2>1, <2>2
  <2> QED
    BY <2>3 DEF Queued, In
<1> QED
  BY <1>1, <1>2, <1>3, <1>4 DEF EventInv, EventType, NoBlindSpot

\* At first nothing was refused, so nothing is owed to Shrike.
LEMMA EventInvInit == Init => EventInv
<1> SUFFICES ASSUME Init PROVE EventInv
  OBVIOUS
<1>1. NoRow \in Row /\ NoTable \in [Class -> Row]
  BY DEF NoRow, Row, NoTable, Class
<1>2. TableAlerted
  BY DEF Init, TableAlerted, RowAlerted, NoTable, NoRow, Class
<1> QED
  BY <1>1, <1>2 DEF Init, EventInv, EventType, NoBlindSpot

\* Every step accounts for every refusal: queued, counted as dropped, or in the table.
LEMMA EventInvStep == PolicyType /\ EventInv /\ [Next]_vars => EventInv'
<1> SUFFICES ASSUME PolicyType, EventInv, [Next]_vars PROVE EventInv'
  OBVIOUS
<1>1. ASSUME UNCHANGED eventVars PROVE EventInv'
  BY <1>1 DEF eventVars, EventInv, EventType, TableAlerted, NoBlindSpot, Told, Queued
<1>2. ASSUME NEW n \in Anybody, NEW reason \in Reason, NEW place \in Place, Deny(n, reason, place)
      PROVE  EventInv'
  <2>1. [kind |-> "deny", class |-> <<n, reason, place>>] \in Event
    BY DEF Event, Class
  <2> QED
    BY <1>2, <2>1, EmitSeen DEF Deny
<1>3. ASSUME Note PROVE EventInv'
  <2>1. [kind |-> "note"] \in Event
    BY DEF Event
  <2> QED
    BY <1>3, <2>1, EmitSeen DEF Note
<1>4. ASSUME ShrikeCrash \/ ShrikeStart PROVE EventInv'
  <2>1. NoTable \in [Class -> Row]
    BY DEF NoRow, Row, NoTable, Class
  <2>2. CASE ShrikeCrash
    <3>1. TableAlerted'
      BY <2>2 DEF ShrikeCrash, TableAlerted, RowAlerted, NoTable, NoRow, Class
    <3> QED
      BY <2>1, <2>2, <3>1 DEF ShrikeCrash, EventInv, EventType, NoBlindSpot
  <2>3. CASE ShrikeStart
    <3>1. shrike'.table = shrike.table /\ shrike' \in [up : BOOLEAN, table : [Class -> Row]]
      BY <2>3 DEF ShrikeStart, EventInv, EventType
    <3> QED
      BY <2>3, <3>1 DEF ShrikeStart, EventInv, EventType, TableAlerted, NoBlindSpot, Told, Queued
  <2> QED
    BY <1>4, <2>2, <2>3
<1>5. ASSUME End PROVE EventInv'
  BY <1>5 DEF End, EventInv, EventType, TableAlerted, NoBlindSpot
<1>6. ASSUME NEW n \in Namespace, NEW h \in Host, Plain(n, h) PROVE EventInv'
  <2> DEFINE caller == Identify(fatline.creds, pods[n])
             name == IF caller = {} THEN "none" ELSE CHOOSE m \in caller : TRUE
  <2>1. name \in Anybody
    BY IdentifyNames DEF Anybody
  <2>2. Deny(name, "cleartext", h)
    BY <1>6 DEF Plain
  <2> QED
    BY <1>2, <2>1, <2>2 DEF Reason, Place
<1>7. ASSUME RequestStep PROVE EventInv'
  <2>1. conn.step \in {"identify", "allow", "hello"} => conn.host \in Place
    BY DEF PolicyType, ConnState, RelayState, Idle, Place
  <2>2. conn.step \in {"allow", "hello"} => conn.cred \in Anybody
    BY DEF PolicyType, ConnState, RelayState, Idle, Anybody
  <2>3. CASE IdentifyCaller
    BY <1>1, <1>2, <2>1, <2>3 DEF IdentifyCaller, Serving, Anybody, Reason
  <2>4. CASE CheckHost
    BY <1>2, <1>3, <2>1, <2>2, <2>4 DEF CheckHost, Serving, Reason
  <2>5. CASE PeekSNI
    BY <1>1, <1>2, <2>1, <2>2, <2>5 DEF PeekSNI, Serving, Reason
  <2>6. CASE Dial
    BY <1>1, <1>3, <2>6 DEF Dial
  <2> QED
    BY <1>7, <2>3, <2>4, <2>5, <2>6 DEF RequestStep
<1>8. ASSUME Stream PROVE EventInv'
  <2>1. "none" \in Anybody /\ "route" \in Reason /\ "route" \in Place
    BY DEF Anybody, Reason, Place
  <2> QED
    BY <1>1, <1>2, <1>8, <2>1 DEF Stream
<1>9. ASSUME RelayStep PROVE EventInv'
  BY <1>1, <1>3, <1>9 DEF RelayStep, ClientEnds, UpstreamEnds, CopyEnds, CopyFails, RelayEnds
<1>10. ASSUME EventStep PROVE EventInv'
  BY <1>4, <1>10, DeliverSeen, RecordSeen DEF EventStep
<1>11. ASSUME PolicyStep PROVE EventInv'
  BY <1>1, <1>11 DEF PolicyStep, Edit, Start, Watch, Poll, ReloadList
<1>12. ASSUME NEW p \in Operator, RunStep(p) \/ \E n \in Namespace : ReadPolicy(p, n) PROVE EventInv'
  BY <1>1, <1>12 DEF RunStep, WritePolicy, ApplyWorkloads, Abort, ReadPolicy
<1>13. ASSUME NEW n \in Namespace, NEW h \in Host, Connect(n, h) PROVE EventInv'
  BY <1>1, <1>13 DEF Connect
<1> QED
  BY <1>1, <1>5, <1>6, <1>7, <1>8, <1>9, <1>10, <1>11, <1>12, <1>13 DEF Next, vars

\* "A deny flood is never a silent blind spot": every refusal has been raised
\* with the operator at the severity its count calls for, is on its way, or
\* was counted as dropped, for every burst threshold and size of the buffer
\* and through crashes of the monitor.
THEOREM NoSilentRefusal == Spec => []NoBlindSpot
<1>1. EventInv => NoBlindSpot
  BY DEF EventInv
<1> QED
  BY <1>1, PolicyTypeInit, PolicyTypeStep, EventInvInit, EventInvStep, PTL DEF Spec

=============================================================================
