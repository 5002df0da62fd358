----------------------------- MODULE Keyholder -----------------------------
(***************************************************************************)
(* One keyholder replica: the vault, the challenger that admits sealed     *)
(* bundles, the control surface (unseal, seal, release-hold) and the data  *)
(* surface (write, delete) of datasphere/keyholder, over process restarts. *)
(*                                                                         *)
(* Every HTTP handler runs on its own goroutine, so a handler is split     *)
(* where it gives up a lock: an unseal opens its envelope, then unseals    *)
(* the vault, then answers and wipes its bundle; a data request resolves   *)
(* its scope, then reads its body and touches the store.                   *)
(*                                                                         *)
(* Key bytes live in numbered buffers.  A buffer that was zeroed is in     *)
(* wiped, and an object wrapped with it is wrapped under a key of zeros.   *)
(* Left out: TLS, the bytes of an envelope, error texts, and reads and     *)
(* lists, which change nothing.                                            *)
(***************************************************************************)
EXTENDS Vault, FiniteSets

CONSTANTS Bundle,          \* the bundles pushers may carry
          Push,            \* who pushes which bundle, with which claims
          OtherInstance,   \* an instance this keyholder does not serve
          Session,         \* challenge session ids
          Request,         \* data requests, one at a time each
          MaxOutstanding,  \* maxOutstanding in envelope.go
          MaxBoots,        \* bound: process starts
          MaxBuffers       \* bound: key buffers allocated

ASSUME BundleAssumption ==
    /\ OtherInstance # Instance
    /\ Bundle \subseteq BundleOf({Instance, OtherInstance})
    /\ Push \subseteq [from : {"operator", "keeper", "device"} \union Scope,
                        bundle : Bundle, intent : Intent,
                        instance : {Instance, OtherInstance}]

ASSUME ScopeAssumption ==
    Scope # {} /\ Scope \intersect {"operator", "keeper", "device", "process"} = {}

ASSUME BoundAssumption ==
    MaxOutstanding \in Nat /\ MaxBoots \in Nat /\ MaxBuffers \in Nat

VARIABLES vault,        \* phase, generation and scopes
          vaultBuf,     \* the buffer holding the vault's key bytes, 0 for none
          boot,         \* which process this is
          outstanding,  \* sessions issued and not answered
          late,         \* outstanding sessions past their deadline
          sent,         \* envelopes pushers have posted; a retry posts one again
          opened,       \* unseal handlers between Open and their answer
          request,      \* data requests in flight
          buffers,      \* number of buffers allocated
          wiped,        \* buffers that were zeroed
          stored,       \* the object under each logical key, in the bucket
          spent,        \* history: sessions an envelope was presented for
          opens,        \* history: how often each session's envelope opened
          actor         \* history: who caused the last change of the seal state

vars == <<vault, vaultBuf, boot, outstanding, late, sent, opened, request,
          buffers, wiped, stored, spent, opens, actor>>

sealVars      == <<vault, vaultBuf, actor>>
challengeVars == <<outstanding, late, spent, opens>>
memoryVars    == <<buffers, wiped>>

-----------------------------------------------------------------------------
(* Identities (identity.go) *)

\* An application is known by the scope that its leaf's namespace and name
\* compose; the other three roles are named alone.
Identity == {"operator", "keeper", "device"} \union Scope

ControlCaller(id) == id \in {"operator", "keeper"}

\* Mutant: the intent is taken as the caller's word.
MayPush_AnyClaim(id, intent) == ControlCaller(id)

MayPush(id, intent) ==
    \/ id = "operator"
    \/ id = "keeper" /\ intent = "restart-reseed"

MaySeal(id) == id = "operator"

MayReach(id, s) == id \in {"operator", "device"} \/ id = s

Area == {"data", "secrets"}

\* Mutant: the secrets subtree is like any other.
MayMutate_Any(id, area) == TRUE

\* refuseSecretMutation: an application never creates or destroys a secret.
MayMutate(id, area) == area = "secrets" => id \notin Scope

-----------------------------------------------------------------------------
(* Values of the state *)

Object == [scope : Scope, area : Area]

Absent == [present |-> FALSE, key |-> NoKey, zeroed |-> FALSE, by |-> "operator"]

ObjectState ==
    [present : BOOLEAN, key : Key \union {NoKey}, zeroed : BOOLEAN, by : Identity]

Envelope == [session : Session, boot : Nat, push : Push]

\* A handler that opened an envelope: its bundle, in its own buffer, and
\* whether the vault has been asked yet.
Opening == [push : Push, buf : Nat, asked : BOOLEAN]

Idle == [op |-> "none", by |-> "operator", scope |-> CHOOSE s \in Scope : TRUE,
         area |-> "data", active |-> NoKey, buf |-> 0]

RequestState ==
    [op : {"none", "write", "delete"}, by : Identity, scope : Scope, area : Area,
     active : Key \union {NoKey}, buf : Nat]

TypeOK ==
    /\ vault \in VaultState
    /\ vaultBuf \in 0 .. buffers
    /\ boot \in Nat
    /\ outstanding \subseteq Session
    /\ late \subseteq outstanding
    /\ sent \subseteq Envelope
    /\ opened \subseteq Opening
    /\ request \in [Request -> RequestState]
    /\ buffers \in Nat
    /\ wiped \subseteq Nat
    /\ stored \in [Object -> ObjectState]
    /\ spent \subseteq Session
    /\ opens \in [Session -> Nat]
    /\ actor \in Identity \union {"process"}

Init ==
    /\ vault = NewVault
    /\ vaultBuf = 0
    /\ boot = 1
    /\ outstanding = {} /\ late = {} /\ sent = {} /\ opened = {}
    /\ request = [r \in Request |-> Idle]
    /\ buffers = 0
    /\ wiped = {}
    /\ stored = [o \in Object |-> Absent]
    /\ spent = {}
    /\ opens = [s \in Session |-> 0]
    /\ actor = "process"

-----------------------------------------------------------------------------
(* The challenger (envelope.go) *)

\* A challenge's two minutes pass.
PassDeadline(s) ==
    /\ s \in outstanding \ late
    /\ late' = late \union {s}
    /\ UNCHANGED <<sealVars, boot, outstanding, sent, opened, request, memoryVars,
                   stored, spent, opens>>

\* Whether Issue still has room, once it has dropped what expired.
HasRoom(live) == Cardinality(live) < MaxOutstanding

\* GET seal-challenge, and the envelope its caller seals to the challenge it
\* got (SealBundle).  The keyholder's recipient key is the process's own.
\* With the table full of live challenges the caller is refused.
Issue(s, p) ==
    /\ ControlCaller(p.from)
    /\ s \notin outstanding \union spent \union {e.session : e \in sent}
    /\ HasRoom(outstanding \ late)
    /\ outstanding' = (outstanding \ late) \union {s}
    /\ late' = {}
    /\ sent' = sent \union {[session |-> s, boot |-> boot, push |-> p]}
    /\ UNCHANGED <<sealVars, boot, opened, request, memoryVars, stored, spent, opens>>

\* Whether an envelope that answers a live challenge decrypts: sealed to this
\* process's key, for this instance.  readable is FALSE for a body damaged on
\* the way, and for a deadline that passes between Open's two clock readings.
Decrypts(e, readable) == e.boot = boot /\ e.push.instance = Instance /\ readable

\* Mutant: a failed attempt leaves its challenge open.
Consume_OnSuccess(e, opensNow) ==
    /\ outstanding' = (outstanding \ late) \ (IF opensNow THEN {e.session} ELSE {})
    /\ late' = {}
    /\ spent' = spent \union {e.session}
    /\ opens' = IF opensNow THEN [opens EXCEPT ![e.session] = @ + 1] ELSE opens

\* Mutant: a challenge's second record outlives it.
Consume_KeepsLate(e, opensNow) ==
    /\ outstanding' = (outstanding \ late) \ {e.session}
    /\ spent' = spent \union {e.session}
    /\ opens' = IF opensNow THEN [opens EXCEPT ![e.session] = @ + 1] ELSE opens
    /\ UNCHANGED late

\* Challenger.Open consumes the session whether or not the envelope opens.
Consume(e, opensNow) ==
    /\ outstanding' = (outstanding \ late) \ {e.session}
    /\ late' = {}
    /\ spent' = spent \union {e.session}
    /\ opens' = IF opensNow THEN [opens EXCEPT ![e.session] = @ + 1] ELSE opens

\* POST unseal, up to a parsed bundle.  A caller that may not claim the
\* intent is refused before its envelope is looked at, so that attempt costs
\* no challenge.
Open(e, readable) ==
    /\ ControlCaller(e.push.from)
    /\ MayPush(e.push.from, e.push.intent)
    /\ LET opensNow == e.session \in outstanding \ late /\ Decrypts(e, readable) IN
         /\ Consume(e, opensNow)
         /\ IF opensNow
              THEN /\ buffers < MaxBuffers
                   /\ buffers' = buffers + 1
                   /\ opened' = opened \union
                        {[push |-> e.push, buf |-> buffers + 1, asked |-> FALSE]}
              ELSE UNCHANGED <<buffers, opened>>
    /\ UNCHANGED <<sealVars, boot, sent, request, wiped, stored>>

-----------------------------------------------------------------------------
(* The seal state (vault.go, the control routes of server.go) *)

\* dropLocked zeroes the vault's own buffer.
Dropped == IF vaultBuf = 0 THEN {} ELSE {vaultBuf}

\* Mutant: the vault keeps the pusher's slices.
InstalledBuffer_Pushers(h) == h.buf

\* The buffer an installed bundle is served from: Unseal clones every scope,
\* because the handler wipes its bundle on the way out.
InstalledBuffer(h) == buffers + 1

\* Vault.Unseal for an opened bundle.  Only an installation touches memory.
Unseal(h) ==
    /\ h \in opened /\ ~h.asked
    /\ vault' = UnsealVault(vault, h.push.bundle, h.push.intent)
    /\ IF UnsealVerdict(vault, h.push.bundle, h.push.intent) = "install"
         THEN /\ buffers < MaxBuffers
              /\ buffers' = buffers + 1
              /\ vaultBuf' = InstalledBuffer(h)
              /\ wiped' = wiped \union Dropped
              /\ actor' = h.push.from
         ELSE UNCHANGED <<buffers, vaultBuf, wiped, actor>>
    /\ opened' = (opened \ {h}) \union {[h EXCEPT !.asked = TRUE]}
    /\ UNCHANGED <<boot, challengeVars, sent, request, stored>>

\* The handler answers with the state it reads afterwards, and wipes its
\* bundle (defer bundle.Zero).
FinishUnseal(h) ==
    /\ h \in opened /\ h.asked
    /\ opened' = opened \ {h}
    /\ wiped' = wiped \union {h.buf}
    /\ UNCHANGED <<sealVars, boot, challengeVars, sent, request, buffers, stored>>

\* POST seal, with or without a hold.
Seal(id, hold) ==
    /\ MaySeal(id)
    /\ vault' = SealVault(vault, hold)
    /\ vaultBuf' = 0
    /\ wiped' = wiped \union Dropped
    /\ actor' = id
    /\ UNCHANGED <<boot, challengeVars, sent, opened, request, buffers, stored>>

\* POST release-hold; without a hold it changes nothing.
ReleaseHold(id) ==
    /\ MaySeal(id)
    /\ vault.phase = "operator-hold"
    /\ vault' = ReleaseVault(vault)
    /\ actor' = id
    /\ UNCHANGED <<vaultBuf, boot, challengeVars, sent, opened, request, memoryVars,
                   stored>>

\* The process dies and a new one starts: sealed, with a new recipient key,
\* no outstanding challenge, no memory of a generation or a hold.  What it
\* had in memory and in flight is gone; envelopes already posted are not.
Restart ==
    /\ boot < MaxBoots
    /\ boot' = boot + 1
    /\ vault' = NewVault
    /\ vaultBuf' = 0
    /\ outstanding' = {} /\ late' = {} /\ opened' = {}
    /\ request' = [r \in Request |-> Idle]
    /\ wiped' = 1 .. buffers
    /\ actor' = "process"
    /\ UNCHANGED <<sent, buffers, stored, spent, opens>>

-----------------------------------------------------------------------------
(* The data surface (server.go) *)

\* Mutant: a request shares the vault's bytes.
ScopeCopy_Shared == vaultBuf

\* The buffer Vault.Scope hands a request: the request's own copy.
ScopeCopy == buffers + 1

\* resolve, and for a write or delete the refusal of an application that
\* mutates a secret.  declared is the scope the request's header names.
Admit(r, id, op, o, declared) ==
    /\ request[r].op = "none"
    /\ id # "keeper"
    /\ Serving(vault)
    /\ HoldsScope(vault.rings, o.scope)
    /\ MayReach(id, o.scope)
    /\ declared = o.scope
    /\ MayMutate(id, o.area)
    /\ buffers < MaxBuffers
    /\ buffers' = buffers + 1
    /\ request' = [request EXCEPT ![r] =
         [op |-> op, by |-> id, scope |-> o.scope, area |-> o.area,
          active |-> vault.rings[o.scope].active, buf |-> ScopeCopy]]
    /\ UNCHANGED <<sealVars, boot, challengeVars, sent, opened, wiped, stored>>

\* The rest of the handler, once its body is uploaded: the store seals the
\* object under the scope the request was admitted with, or fails, and the
\* request wipes its copy either way.
Finish(r, succeeds) ==
    /\ request[r].op # "none"
    /\ LET q == request[r]
           o == [scope |-> q.scope, area |-> q.area] IN
         /\ stored' = IF ~succeeds THEN stored
                      ELSE [stored EXCEPT ![o] =
                              IF q.op = "delete" THEN Absent
                              ELSE [present |-> TRUE, key |-> q.active,
                                    zeroed |-> q.buf \in wiped, by |-> q.by]]
         /\ wiped' = wiped \union {q.buf}
    /\ request' = [request EXCEPT ![r] = Idle]
    /\ UNCHANGED <<sealVars, boot, challengeVars, sent, opened, buffers>>

-----------------------------------------------------------------------------
ChallengeStep ==
    \/ \E s \in Session : PassDeadline(s)
    \/ \E s \in Session, p \in Push : Issue(s, p)
    \/ \E e \in sent, readable \in BOOLEAN : Open(e, readable)

SealStep ==
    \/ \E h \in opened : Unseal(h) \/ FinishUnseal(h)
    \/ \E id \in Identity : ReleaseHold(id) \/ \E hold \in BOOLEAN : Seal(id, hold)
    \/ Restart

DataStep ==
    \/ \E r \in Request, id \in Identity, op \in {"write", "delete"}, o \in Object,
          declared \in Scope : Admit(r, id, op, o, declared)
    \/ \E r \in Request, succeeds \in BOOLEAN : Finish(r, succeeds)

Next == ChallengeStep \/ SealStep \/ DataStep

Spec == Init /\ [][Next]_vars

-----------------------------------------------------------------------------
(* Correctness *)

HandlerBuffers == {h.buf : h \in opened}

ActiveRequests == {r \in Request : request[r].op # "none"}

\* Every buffer of key bytes that has not been wiped belongs to exactly one
\* owner - the vault while it serves, an unseal handler, or a data request -
\* and nobody holds a wiped one.  This is what makes the zeroing in
\* dropLocked, bundle.Zero and scope.Zero safe, and what leaves no key bytes
\* behind in a sealed keyholder once the requests it admitted have returned.
KeyBytesOwned ==
    LET vaultOwns   == IF Serving(vault) THEN {vaultBuf} ELSE {}
        requestOwns == {request[r].buf : r \in ActiveRequests} IN
      /\ vaultBuf = 0 <=> ~Serving(vault)
      /\ wiped \subseteq 1 .. buffers
      /\ (1 .. buffers) \ wiped = vaultOwns \union HandlerBuffers \union requestOwns
      /\ vaultOwns \intersect (HandlerBuffers \union requestOwns) = {}
      /\ HandlerBuffers \intersect requestOwns = {}
      /\ \A r, q \in ActiveRequests : request[r].buf = request[q].buf => r = q
      /\ \A h, g \in opened : h.buf = g.buf => h = g

\* A sealed vault holds no scope (Seal, ReleaseHold and a restart drop them).
SealedHoldsNoScope == ~Serving(vault) => vault.rings = NoRings

\* No object is ever wrapped under a key of zeros, although a hand-over, a
\* seal or the end of another handler may zero key bytes while an upload is
\* between resolving its scope and sealing its body (the comment on
\* Vault.Scope).
NoZeroedWrite == \A o \in Object : ~stored[o].zeroed

\* What is stored was put there by someone who may: the operator, a device,
\* or - outside secrets - the application the scope belongs to.
WrittenByOwner ==
    \A o \in Object : stored[o].present =>
        \/ stored[o].by \in {"operator", "device"}
        \/ stored[o].by = o.scope /\ o.area = "data"

\* The table of challenges keeps to its limit.
ChallengesBounded == Cardinality(outstanding) <= MaxOutstanding

\* A challenge is a single attempt: once an envelope was presented for it,
\* opened or not, no envelope ever opens for it again.
SingleAttempt == [][\A s \in spent : opens'[s] = opens[s]]_vars

\* Whatever a keeper causes is a re-seed of a restarted replica: it never
\* clears a hold, replaces the keys of a serving replica or seals one.
KeeperOnlyReseeds ==
    [][ vault' # vault /\ actor' = "keeper" =>
          /\ vault.phase = "restart-sealed"
          /\ vault'.phase = "unsealed"]_vars

\* Within one process keys never go back: the generation only grows, a seal
\* does not rewind it, and while the replica serves one generation its keys
\* do not change under it.
NoRollback ==
    [][ boot' = boot =>
          /\ vault'.generation >= vault.generation
          /\ Serving(vault) /\ Serving(vault)' /\ vault'.generation = vault.generation
               => vault'.rings = vault.rings]_vars
=============================================================================
