------------------------------- MODULE Egress -------------------------------
(***************************************************************************)
(* What applications reach outside, and who hears of it: farcast run       *)
(* writing the instance's egress policy and deploying applications, one    *)
(* FatLine replica (its start, its policy watcher, the forward proxy and   *)
(* the operator's stream relay), and the Shrike monitor beside it.         *)
(*                                                                         *)
(* FatLine handles one connection at a time here; what a connection meets  *)
(* half way is the reload of the policy, the drain of the event buffer and *)
(* the end of the process.  Each step of a connection is a call, so that a *)
(* reload may fall between any two.  Left out: TLS, bytes and their        *)
(* counts, the other replica, and the building of images.                  *)
(***************************************************************************)
EXTENDS EgressPolicy, Inspector, Sequences

CONSTANTS Operator,    \* machines farcast run is used from
          Elder,       \* the deployment that may be there from the start
          Buffer,      \* events the BufferedSink holds
          Wire,        \* events the socket holds; a write waits for room
          MaxRuns,     \* bound: credentials minted
          MaxConns,    \* bound: connections
          MaxFaults    \* bound: failed commands, stops, crashes, edits

ASSUME EgressAssumption ==
    /\ Elder \in Namespace
    /\ Buffer \in Nat \ {0} /\ Wire \in Nat \ {0}
    /\ MaxRuns \in Nat /\ MaxConns \in Nat /\ MaxFaults \in Nat

VARIABLES configmap,   \* the policy, in the cluster and as FatLine's pod sees it
          pods,        \* the credential each deployment's pods present
          op,          \* the run each machine is in
          fatline,     \* the FatLine process
          conn,        \* the connection it serves
          buffer,      \* events waiting in the BufferedSink
          link,        \* the DialSink's connection to Shrike
          wire,        \* events written to it and not read yet
          shrike,      \* Shrike's violation table, and whether it runs
          denied,      \* classes refused since both processes run
          counted,     \* classes with an event that was dropped and counted
          minted, conns, faults

policyVars == <<configmap, pods, op, minted>>
eventVars == <<buffer, link, wire, shrike, denied, counted>>
vars == <<policyVars, fatline, conn, eventVars, conns, faults>>

Idle == [step |-> "none"]

\* creds and list are the two halves of the policy in force, last what the
\* watcher read last.
Down == [up |-> FALSE, watching |-> FALSE, reloading |-> FALSE,
         creds |-> NoDoc, list |-> NoDoc, last |-> NoDoc]

\* A class of refused egress: by whom, why, and where to.
Anybody == Namespace \union {"none"}
Reason == {"unknown", "undeclared", "sni", "cleartext", "route"}
Place == Host \union {"route"}
NoTable == [c \in Anybody \X Reason \X Place |-> NoRow]

\* A new instance, or one whose first deployment an earlier run has made.
Init ==
    /\ \E app \in {NoApp, [cred |-> 1, external |-> Host]} :
         /\ configmap = IF app = NoApp THEN NoDoc ELSE Merge(NoDoc, Elder, app)
         /\ pods = [n \in Namespace |-> IF n = Elder THEN app.cred ELSE 0]
    /\ op = [p \in Operator |-> Idle]
    /\ fatline = Down
    /\ conn = Idle
    /\ buffer = << >> /\ wire = << >> /\ link = "new"
    /\ shrike = [up |-> TRUE, table |-> NoTable]
    /\ denied = {} /\ counted = {}
    /\ minted = 1 /\ conns = 0 /\ faults = 0

Fault == faults < MaxFaults /\ faults' = faults + 1

-----------------------------------------------------------------------------
(* farcast run *)

\* What a manifest may say of its application: nothing any more, or what it
\* declares.
Manifest == {NoApp} \union {[cred |-> minted + 1, external |-> external] : external \in SUBSET Host}

\* The instance has read the manifest, the operator has approved it and the
\* images are built.  egressPolicy takes the cluster's document with this
\* deployment's application replaced, under a new credential.
ReadPolicy(p, n) ==
    /\ op[p] = Idle /\ minted < MaxRuns
    /\ Readable(configmap)
    /\ \E app \in Manifest :
         op' = [op EXCEPT ![p] = [step |-> "write", ns |-> n, cred |-> app.cred,
                                  doc |-> Merge(configmap, n, app)]]
    /\ minted' = minted + 1
    /\ UNCHANGED <<configmap, pods, fatline, conn, eventVars, conns, faults>>

\* The policy goes out before the workloads.
WritePolicy(p) ==
    /\ op[p].step = "write"
    /\ configmap' = op[p].doc
    /\ op' = [op EXCEPT ![p] = [step |-> "apply", ns |-> op[p].ns, cred |-> op[p].cred]]
    /\ UNCHANGED <<pods, minted, fatline, conn, eventVars, conns, faults>>

\* translate and Apply: pods with the new credential replace the old ones.
\* An application the manifest has lost is not removed by an apply.
ApplyWorkloads(p) ==
    /\ op[p].step = "apply"
    /\ pods' = IF op[p].cred = 0 THEN pods ELSE [pods EXCEPT ![op[p].ns] = op[p].cred]
    /\ op' = [op EXCEPT ![p] = Idle]
    /\ UNCHANGED <<configmap, minted, fatline, conn, eventVars, conns, faults>>

\* A run is declined, fails or is killed.
Abort(p) ==
    /\ op[p] # Idle /\ Fault
    /\ op' = [op EXCEPT ![p] = Idle]
    /\ UNCHANGED <<configmap, pods, minted, fatline, conn, eventVars, conns>>

\* Somebody edits the policy by hand and breaks it, or mends it.
Edit ==
    /\ Fault
    /\ configmap' = IF configmap = Broken THEN NoApps ELSE Broken
    /\ UNCHANGED <<pods, op, minted, fatline, conn, eventVars, conns>>

-----------------------------------------------------------------------------
(* The policy in FatLine *)

\* The documents a request may be judged by now.
InForce == {fatline.creds} \union (IF fatline.reloading THEN {fatline.list} ELSE {})

\* A connection that is being served has met the documents in force since.
Meets(docs) ==
    conn' = IF conn.step \in {"identify", "allow"} THEN [conn EXCEPT !.since = @ \union docs] ELSE conn

\* loadPolicy: without a file it starts closed, with a broken one not at all.
Start ==
    /\ ~fatline.up /\ Readable(configmap)
    /\ fatline' = [Down EXCEPT !.up = TRUE, !.creds = configmap, !.list = configmap]
    /\ UNCHANGED <<policyVars, conn, eventVars, conns, faults>>

\* watchPolicy reads the file again for what to compare with.
Watch ==
    /\ fatline.up /\ ~fatline.watching
    /\ fatline' = [fatline EXCEPT !.watching = TRUE, !.last = configmap]
    /\ UNCHANGED <<policyVars, conn, eventVars, conns, faults>>

\* A tick finds a new document that parses; ReloadPolicy swaps its first half.
Poll ==
    /\ fatline.up /\ fatline.watching /\ ~fatline.reloading
    /\ configmap \notin {NoDoc, Broken, fatline.last}
    /\ fatline' = [fatline EXCEPT !.last = configmap, !.creds = configmap, !.reloading = TRUE]
    /\ Meets({configmap})
    /\ UNCHANGED <<policyVars, eventVars, conns, faults>>

\* Mutant: a reload leaves the allowlist as it was.
ReloadList_Kept ==
    /\ fatline.reloading
    /\ fatline' = [fatline EXCEPT !.reloading = FALSE]
    /\ UNCHANGED <<policyVars, conn, eventVars, conns, faults>>

\* ReloadPerApp, the second half.
ReloadList ==
    /\ fatline.reloading
    /\ fatline' = [fatline EXCEPT !.list = fatline.creds, !.reloading = FALSE]
    /\ UNCHANGED <<policyVars, conn, eventVars, conns, faults>>

-----------------------------------------------------------------------------
(* Events *)

\* BufferedSink.Emit: buffered, or dropped and counted.
Emit(e) ==
    LET room == Len(buffer) < Buffer IN
    /\ buffer' = IF room THEN Append(buffer, e) ELSE buffer
    /\ counted' = IF ~room /\ e.kind = "deny" THEN counted \union {e.class} ELSE counted
    /\ denied' = IF e.kind = "deny" THEN denied \union {e.class} ELSE denied
    /\ UNCHANGED <<link, wire, shrike>>

Deny(n, reason, place) == Emit([kind |-> "deny", class |-> <<n, reason, place>>])
Note == Emit([kind |-> "note"])

\* DialSink: an event that finds no monitor is dropped and counted, and so is
\* one whose write fails.  A dial after the first may be throttled.
Deliver ==
    /\ fatline.up /\ buffer # << >>
    /\ LET e == Head(buffer)
           sent == Len(wire) < Wire /\ wire' = Append(wire, e) /\ UNCHANGED counted
           drops == /\ counted' = IF e.kind = "deny" THEN counted \union {e.class} ELSE counted
                    /\ UNCHANGED wire IN
         \/ link = "live" /\ sent /\ UNCHANGED link
         \/ link = "dead" /\ drops /\ link' = "none"
         \/ link \in {"new", "none"} /\ shrike.up /\ sent /\ link' = "live"
         \/ link = "new" /\ ~shrike.up /\ drops /\ link' = "none"
         \/ link = "none" /\ drops /\ UNCHANGED link
    /\ buffer' = Tail(buffer)
    /\ UNCHANGED <<policyVars, fatline, conn, shrike, denied, conns, faults>>

\* handleConn and Record; the class's alert window may have passed.
Record ==
    /\ shrike.up /\ wire # << >>
    /\ LET e == Head(wire) IN
         IF e.kind # "deny" THEN UNCHANGED shrike
         ELSE \E fresh \in BOOLEAN :
                shrike' = [shrike EXCEPT !.table[e.class] = RecordDeny(@, e.class[2], fresh)]
    /\ wire' = Tail(wire)
    /\ UNCHANGED <<policyVars, fatline, conn, buffer, link, denied, counted, conns, faults>>

\* The monitor dies with its table and with what it had not read.
ShrikeCrash ==
    /\ shrike.up /\ Fault
    /\ shrike' = [up |-> FALSE, table |-> NoTable]
    /\ wire' = << >> /\ denied' = {} /\ counted' = {}
    /\ link' = IF link = "live" THEN "dead" ELSE link
    /\ UNCHANGED <<policyVars, fatline, conn, buffer, conns>>

ShrikeStart ==
    /\ ~shrike.up
    /\ shrike' = [shrike EXCEPT !.up = TRUE]
    /\ UNCHANGED <<policyVars, fatline, conn, buffer, link, wire, denied, counted, conns, faults>>

-----------------------------------------------------------------------------
(* The end of FatLine *)

\* FatLine is killed, or stopped: Serve waits for the requests it can see, and
\* neither for a relay nor for Run to drain the buffer.
End ==
    /\ fatline.up /\ Fault
    /\ fatline' = Down /\ conn' = Idle /\ buffer' = << >> /\ link' = "new"
    /\ denied' = {} /\ counted' = {}
    /\ UNCHANGED <<policyVars, wire, shrike, conns>>

-----------------------------------------------------------------------------
(* The forward proxy *)

Arrive == fatline.up /\ conn = Idle /\ conns < MaxConns /\ conns' = conns + 1

Serving(step) == conn.step = step

\* handlePlain: refused, and named if the credential is known.
Plain(n, host) ==
    /\ Arrive /\ pods[n] # 0
    /\ LET caller == Identify(fatline.creds, pods[n]) IN
         Deny(IF caller = {} THEN "none" ELSE CHOOSE m \in caller : TRUE, "cleartext", host)
    /\ UNCHANGED <<policyVars, fatline, conn, faults>>

\* An application's CONNECT, with the credential its pod was given.
Connect(n, host) ==
    /\ Arrive /\ pods[n] # 0
    /\ conn' = [step |-> "identify", ns |-> n, host |-> host, cred |-> pods[n], since |-> InForce]
    /\ UNCHANGED <<policyVars, fatline, eventVars, faults>>

\* Who is asking, before what was asked for.
IdentifyCaller ==
    /\ Serving("identify")
    /\ LET caller == Identify(fatline.creds, conn.cred) IN
         IF caller = {}
           THEN conn' = Idle /\ Deny("none", "unknown", conn.host)
           ELSE /\ conn' = [conn EXCEPT !.step = "allow", !.cred = CHOOSE n \in caller : TRUE]
                /\ UNCHANGED eventVars
    /\ UNCHANGED <<policyVars, fatline, conns, faults>>

\* The caller's own declarations, and nothing else.
CheckHost ==
    /\ Serving("allow")
    /\ IF Allow(ByTenant(fatline.list), conn.cred, conn.host)
         THEN conn' = [conn EXCEPT !.step = "hello"] /\ Note
         ELSE conn' = Idle /\ Deny(conn.cred, "undeclared", conn.host)
    /\ UNCHANGED <<policyVars, fatline, conns, faults>>

\* peekSNI: a name that is there and differs is refused.
PeekSNI ==
    /\ Serving("hello")
    /\ \/ conn' = [step |-> "dial"] /\ UNCHANGED eventVars
       \/ conn' = Idle /\ Deny(conn.cred, "sni", conn.host)
    /\ UNCHANGED <<policyVars, fatline, conns, faults>>

\* A relay has two copies, one for each direction, and two ends.
Relaying == [step |-> "relay", client |-> TRUE, upstream |-> TRUE, up |-> TRUE, down |-> TRUE]

\* A dial that fails is not a violation.
Dial ==
    /\ Serving("dial")
    /\ \/ conn' = Relaying /\ UNCHANGED eventVars
       \/ conn' = Idle /\ Note
    /\ UNCHANGED <<policyVars, fatline, conns, faults>>

-----------------------------------------------------------------------------
(* The operator's stream relay, and the copying both share *)

\* streamHandler: an unknown route, a bad ordinal and a failed dial are
\* refusals; anything else is relayed to the service.
Stream ==
    /\ Arrive
    /\ \/ Deny("none", "route", "route") /\ UNCHANGED conn
       \/ conn' = Relaying /\ UNCHANGED eventVars
    /\ UNCHANGED <<policyVars, fatline, faults>>

\* The caller hangs up, or is done sending.
ClientEnds ==
    /\ Serving("relay") /\ conn.client
    /\ conn' = [conn EXCEPT !.client = FALSE]
    /\ UNCHANGED <<policyVars, fatline, eventVars, conns, faults>>

\* The other side ends when it is told to, or by itself.
UpstreamEnds ==
    /\ Serving("relay") /\ conn.upstream
    /\ conn' = [conn EXCEPT !.upstream = FALSE]
    /\ UNCHANGED <<policyVars, fatline, eventVars, conns, faults>>

\* Mutant: the upstream is not told that the client has ended.
ToldUpstream_Never == FALSE

\* CloseWrite, which the end of the first copy makes.
ToldUpstream == conn.step = "relay" /\ ~conn.up

\* A copy ends when what it reads from has.
CopyEnds ==
    /\ Serving("relay")
    /\ \/ conn.up /\ ~conn.client /\ conn' = [conn EXCEPT !.up = FALSE]
       \/ conn.down /\ ~conn.upstream /\ conn' = [conn EXCEPT !.down = FALSE]
    /\ UNCHANGED <<policyVars, fatline, eventVars, conns, faults>>

\* A copy that has something to write to an end that has gone fails.
CopyFails ==
    /\ Serving("relay")
    /\ \/ conn.up /\ ~conn.upstream /\ conn' = [conn EXCEPT !.up = FALSE]
       \/ conn.down /\ ~conn.client /\ conn' = [conn EXCEPT !.down = FALSE]
    /\ UNCHANGED <<policyVars, fatline, eventVars, conns, faults>>

\* Duplex returns once both copies have.
RelayEnds ==
    /\ Serving("relay") /\ ~conn.up /\ ~conn.down
    /\ conn' = Idle
    /\ Note
    /\ UNCHANGED <<policyVars, fatline, conns, faults>>

-----------------------------------------------------------------------------
RunStep(p) == WritePolicy(p) \/ ApplyWorkloads(p) \/ Abort(p)

PolicyStep == Edit \/ Start \/ Watch \/ Poll \/ ReloadList

EventStep == Deliver \/ Record \/ ShrikeCrash \/ ShrikeStart

RequestStep == IdentifyCaller \/ CheckHost \/ PeekSNI \/ Dial

RelayStep == ClientEnds \/ UpstreamEnds \/ CopyEnds \/ CopyFails \/ RelayEnds

Next ==
    \/ \E p \in Operator : RunStep(p) \/ \E n \in Namespace : ReadPolicy(p, n)
    \/ \E n \in Namespace, h \in Host : Plain(n, h) \/ Connect(n, h)
    \/ Stream
    \/ PolicyStep \/ EventStep \/ End \/ RequestStep \/ RelayStep

Spec == Init /\ [][Next]_vars

\* The kubelet restarts and updates what it runs, FatLine's goroutines go on,
\* and a service that is told its caller has ended closes its side.
Fairness ==
    /\ WF_vars(Start) /\ WF_vars(Watch) /\ WF_vars(Poll) /\ WF_vars(ReloadList)
    /\ WF_vars(CopyEnds) /\ WF_vars(RelayEnds) /\ WF_vars(ToldUpstream /\ UpstreamEnds)

FairSpec == Spec /\ Fairness

-----------------------------------------------------------------------------
(* Correctness *)

\* Deny by default, for each application by its own manifest: a connection is
\* made only to a host that the deployment it came from declared in a policy
\* that was in force while the request was judged.
DeclaredOnly ==
    conn.step = "hello" =>
        \E doc \in conn.since : conn.host \in Apps(doc)[conn.ns].external

\* The operator has been alerted to the class, at the severity its count
\* calls for.
Told(c) ==
    LET row == shrike.table[c] IN
    row.count > 0 /\ row.alerted = SeverityOf(c[2], row.count)

Queued(c) == \E q \in {buffer, wire} : \E i \in 1 .. Len(q) : q[i].kind = "deny" /\ q[i].class = c

\* "A deny flood is never a silent blind spot": what FatLine refused has been
\* raised with the operator, is on its way, or was counted as dropped.  It
\* is said of what was refused since both processes have been running.
NoBlindSpot == \A c \in denied : Told(c) \/ Queued(c) \/ c \in counted

\* A policy that stays in the cluster comes into force, both halves of it,
\* through restarts and a broken document in between; unless the watcher
\* began with a file that FatLine had not loaded.
PolicyTakesEffect ==
    <>[](fatline.last = fatline.creds) /\ <>[](configmap \notin {NoDoc, Broken})
        => <>[](fatline.creds = configmap /\ fatline.list = configmap)

\* A relay whose caller has ended ends as well, and is reported.
RelayReturns == (conn.step = "relay" /\ ~conn.client) ~> (conn.step # "relay" \/ conn.client)
=============================================================================
