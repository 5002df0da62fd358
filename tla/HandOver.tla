------------------------------ MODULE HandOver ------------------------------
(***************************************************************************)
(* Handing keys to a fleet of keyholder replicas: the commands of an       *)
(* operator machine that do it (storage key rotate, run, storage unseal),  *)
(* all through handOverKeys; keeper devices re-seeding restarted replicas; *)
(* seals, holds, restarts and a network that loses or delays calls.        *)
(*                                                                         *)
(* One step of a command is one call to one replica, or one replacement of *)
(* a file on its machine; what it computes in between belongs to the step  *)
(* before.  The vaults are Vault's.  Left out: printing, the unseal ledger,*)
(* replicas of an outdated image, the instance's own key space (no         *)
(* keyholder ever holds it), and a machine without a keyholder deployed.   *)
(***************************************************************************)
EXTENDS HandOverPlan, FiniteSets

CONSTANTS Command,      \* command processes, each running one command at a time
          Kind,         \* the commands that are run
          Machine,      \* operator machines
          Keeper,       \* keeper devices
          MachineOf,    \* the machine a command runs on
          FirstKeys,    \* the keyring every machine starts with
          Scene         \* what may happen in one behaviour

Kinds == {"rotate", "run", "unseal", "unseal-unchecked"}

Scenes ==
    [overlap : BOOLEAN,  \* whether commands and keeper passes overlap
     commands : Nat,     \* bound: commands started
     events : Nat,       \* bound: restarts, seals, released holds, enrolments and imports
     faults : Nat]       \* bound: lost or late calls, and killed commands

ASSUME HandOverAssumption ==
    /\ Kind \subseteq Kinds
    /\ MachineOf \in [Command -> Machine]
    /\ FirstKeys \in Rings
    /\ Scene \subseteq Scenes

VARIABLES vault,     \* each replica's vault
          late,      \* pushes a replica has received and not yet acted on
          keyring,   \* keys.yaml of each machine
          recorded,  \* the generation in each machine's instance metadata
          minted,    \* the newest key minted anywhere
          cmd,       \* the command each process is running
          bundle,    \* what each keeper was enrolled with
          pass,      \* each keeper's pass over the fleet
          written,   \* history: keys some object of a scope is wrapped under
          scene,     \* what may happen in this behaviour
          commands, events, faults  \* counts against the bounds

vars == <<vault, late, keyring, recorded, minted, cmd, bundle, pass, written,
          scene, commands, events, faults>>

fleetVars   == <<vault, late>>
machineVars == <<keyring, recorded, minted>>
keeperVars  == <<bundle, pass>>
boundVars   == <<commands, events, faults>>

-----------------------------------------------------------------------------
(* State *)

AllSilent == [r \in Replica |-> Silent]

NoPrevious == [s \in Scope |-> NoKey]

\* A command that is not running.
Idle ==
    [kind |-> "unseal", pc |-> "idle", round |-> 1,
     keys |-> NoRings, file |-> NoRings, held |-> NoRings, previous |-> NoPrevious,
     metaGen |-> 0, highest |-> 0, taken |-> 0, leaveSealed |-> FALSE,
     states |-> AllSilent, next |-> 0,
     loaded |-> {}, refused |-> {}, unreached |-> {}, heldLoaded |-> {},
     activated |-> FALSE, toConfirm |-> {}, unconfirmed |-> {}]

Steps == {"idle", "save", "load", "read", "hold", "push", "activate", "confirm",
          "record", "fallback"}

CommandState ==
    [kind : Kinds, pc : Steps, round : {1, 2},
     keys : Rings,          \* the keyring to hand over
     file : Rings,          \* the keys.yaml this command last read or wrote
     held : Rings,          \* the keyring of the first of two pushes
     previous : [Scope -> Key \union {NoKey}],
     metaGen : Nat,         \* the generation in the metadata it loaded
     highest : Nat, taken : Nat, leaveSealed : BOOLEAN,
     states : [Replica -> Answer], next : Nat,
     loaded : SUBSET Replica, refused : SUBSET Replica, unreached : SUBSET Replica,
     heldLoaded : SUBSET Replica, activated : BOOLEAN,
     toConfirm : SUBSET Replica, unconfirmed : SUBSET Replica]

Resting == [pc |-> "idle", states |-> AllSilent, next |-> 0]

PassState == [pc : {"idle", "read", "push"}, states : [Replica -> Answer], next : Nat]

InFlight == [bundle : BundleOf({Instance}), intent : Intent]

TypeOK ==
    /\ vault \in [Replica -> VaultState]
    /\ \A r \in Replica : late[r] \subseteq InFlight
    /\ keyring \in [Machine -> Rings]
    /\ recorded \in [Machine -> Nat]
    /\ minted \in Nat
    /\ cmd \in [Command -> CommandState]
    /\ bundle \in [Keeper -> BundleOf({Instance})]
    /\ pass \in [Keeper -> PassState]
    /\ written \in [Scope -> SUBSET Key]

\* The instance as a first unseal leaves it: every replica serves the first
\* keyring, and each keeper was enrolled with it.
Init ==
    /\ vault = [r \in Replica |->
                  [phase |-> "unsealed", generation |-> 1, rings |-> FirstKeys]]
    /\ late = [r \in Replica |-> {}]
    /\ keyring = [m \in Machine |-> FirstKeys]
    /\ recorded = [m \in Machine |-> 1]
    /\ minted = 1
    /\ cmd = [p \in Command |-> Idle]
    /\ bundle = [k \in Keeper |->
                   [instance |-> Instance, generation |-> 1, rings |-> FirstKeys]]
    /\ pass = [k \in Keeper |-> Resting]
    /\ written = [s \in Scope |-> FirstKeys[s].held]
    /\ scene \in Scene
    /\ commands = 0 /\ events = 0 /\ faults = 0

Max2(a, b) == IF a >= b THEN a ELSE b

\* Nothing that moves keys is under way, a push still in flight included.
Quiet ==
    /\ \A p \in Command : cmd[p].pc = "idle"
    /\ \A k \in Keeper : pass[k].pc = "idle"
    /\ \A r \in Replica : late[r] = {}

\* Nothing in the code makes a command or a pass wait for another.  Where it
\* does here, a careful operator runs one at a time.
MayStart == scene.overlap \/ Quiet

\* Every write by an application through a serving replica, and by a machine
\* (secret set, storage cp), is wrapped under the writer's active key.
ActiveKeys(s) ==
    {vault[r].rings[s].active : r \in {q \in Replica : Serving(vault[q])}}
      \union {keyring[m][s].active : m \in Machine}

Writes == written' = [s \in Scope |-> written[s] \union (ActiveKeys(s)' \ {NoKey})]

Background == Writes /\ UNCHANGED scene

-----------------------------------------------------------------------------
(* Starting a command *)

Start(p, c) ==
    /\ cmd[p].pc = "idle"
    /\ MayStart
    /\ commands < scene.commands
    /\ commands' = commands + 1
    /\ cmd' = [cmd EXCEPT ![p] = c]
    /\ UNCHANGED <<fleetVars, machineVars, keeperVars, events, faults>>

\* storage unseal: load the metadata, then the keyring.
BeginUnseal(p, kind) ==
    /\ kind \in Kind \intersect {"unseal", "unseal-unchecked"}
    /\ LET m == MachineOf[p] IN
         Start(p, [Idle EXCEPT !.kind = kind, !.pc = "read", !.keys = keyring[m],
                               !.metaGen = recorded[m], !.highest = recorded[m]])

\* storage key rotate, up to its prompt; run, up to minting a scope.
BeginSaving(p, kind) ==
    /\ kind \in Kind \intersect {"rotate", "run"}
    /\ kind = "run" => \E s \in Scope : ~HoldsScope(keyring[MachineOf[p]], s)
    /\ LET m == MachineOf[p] IN
         Start(p, [Idle EXCEPT !.kind = kind, !.pc = "save", !.file = keyring[m],
                               !.metaGen = recorded[m], !.highest = recorded[m]])

\* Mutant: the keyring in hand replaces whatever is there.
UnchangedFile_Any(m, file) == TRUE

\* SaveInstanceKeyring replaces keys.yaml only if it still is the file the
\* command read.
UnchangedFile(m, file) == keyring[m] = file

\* Mutant: the new key takes the place of the old ones.
RotatedRing_Replaces(ring, k) == [active |-> k, held |-> {k}]

\* AddKEK prepends: the new key is active and every old one stays.
RotatedRing(ring, k) == [active |-> k, held |-> ring.held \union {k}]

\* NewScope: a scope begins with one key of its own.
MintedRing(k) == [active |-> k, held |-> {k}]

\* Mutant: the new keys are active at once.
StillUsing_New(rotated, before) == rotated

\* The rotated keyring with every scope's key of before still active.
StillUsing(rotated, before) ==
    [s \in Scope |-> [rotated[s] EXCEPT !.active = before[s].active]]

\* RotateScopeKEKs mints a key for every scope; saved with the keys that
\* were in use still active.  The metadata is loaded afterwards.
SaveRotated(p) ==
    LET c       == cmd[p]
        m       == MachineOf[p]
        k       == minted + 1
        scopes  == {s \in Scope : HoldsScope(c.file, s)}
        rotated == [s \in Scope |-> IF s \in scopes
                      THEN RotatedRing(c.file[s], k) ELSE NoRing]
        held    == StillUsing(rotated, c.file) IN
    /\ c.pc = "save" /\ c.kind = "rotate"
    /\ k \in Key
    /\ minted' = k
    /\ IF UnchangedFile(m, c.file)
         THEN /\ keyring' = [keyring EXCEPT ![m] = held]
              /\ cmd' = [cmd EXCEPT ![p] =
                   IF scopes = {} THEN Idle
                   ELSE [c EXCEPT !.pc = "read", !.keys = rotated, !.file = held,
                                  !.previous = [s \in Scope |-> c.file[s].active],
                                  !.metaGen = recorded[m], !.highest = recorded[m]]]
         ELSE /\ cmd' = [cmd EXCEPT ![p] = Idle]
              /\ UNCHANGED keyring
    /\ UNCHANGED <<fleetVars, recorded, keeperVars, boundVars>>

\* ensureAppScopes: mint a scope for an application that has none.
SaveScope(p, s) ==
    LET c == cmd[p]
        m == MachineOf[p]
        k == minted + 1 IN
    /\ c.pc = "save" /\ c.kind = "run"
    /\ ~HoldsScope(c.file, s)
    /\ k \in Key
    /\ minted' = k
    /\ IF UnchangedFile(m, c.file)
         THEN /\ keyring' = [keyring EXCEPT ![m][s] = MintedRing(k)]
              /\ cmd' = [cmd EXCEPT ![p].pc = "load"]
         ELSE /\ cmd' = [cmd EXCEPT ![p] = Idle]
              /\ UNCHANGED keyring
    /\ UNCHANGED <<fleetVars, recorded, keeperVars, boundVars>>

\* handScopesToTheKeyholder reads the keyring again, whatever it is by then.
LoadKeys(p) ==
    /\ cmd[p].pc = "load"
    /\ cmd' = [cmd EXCEPT ![p].pc = "read", ![p].keys = keyring[MachineOf[p]]]
    /\ UNCHANGED <<fleetVars, machineVars, keeperVars, boundVars>>

-----------------------------------------------------------------------------
(* handOverKeys *)

Unseals(c) == c.kind \in {"unseal", "unseal-unchecked"}

Stop(c) == [c EXCEPT !.pc = "record"]

\* h.push begins with a generation none of the replicas has seen.
StartPush(c) ==
    [c EXCEPT !.pc = "push", !.next = 0, !.highest = @ + 1,
              !.loaded = {}, !.refused = {}, !.unreached = {}]

\* After the first read: refuse, push the held keyring first, or push once.
Planned(c) ==
    LET d == [c EXCEPT !.leaveSealed = /\ c.kind = "unseal"
                                       /\ Unchecked(c.states)] IN
    IF Refused(c.keys, c.states, c.previous) THEN {Stop(d)}
    ELSE IF HeldBack(c.keys, c.states, c.previous) = {}
           THEN {StartPush([d EXCEPT !.round = 2])}
           ELSE {IF c.kind = "rotate" THEN [d EXCEPT !.pc = "hold", !.held = h]
                                      ELSE StartPush([d EXCEPT !.held = h]) :
                   h \in HeldKeyrings(c.keys, c.states, c.previous)}

\* What the second read must show before any replica is told to use the keys:
\* one serves, no replica that never took the keys is silent, and the keyring
\* could now go over in one push.
MayActivate(c) ==
    /\ \E r \in Replica : Serving(c.states[r])
    /\ \A r \in Replica : c.states[r] = Silent => r \in c.heldLoaded
    /\ ~Refused(c.keys, c.states, NoPrevious)
    /\ HeldBack(c.keys, c.states, NoPrevious) = {}

Replanned(c) ==
    IF ~MayActivate(c) THEN {Stop(c)}
    ELSE IF c.kind = "rotate" THEN {[c EXCEPT !.pc = "activate"]}
    ELSE {StartPush(c)}

\* One State call.  A replica that does not answer is silent.
ReadReplica(p, answered) ==
    LET c == cmd[p]
        r == c.next
        a == IF answered THEN vault[r] ELSE Silent
        d == [c EXCEPT !.states[r] = a, !.next = r + 1,
                       !.highest = Max2(@, a.generation)] IN
    /\ c.pc = "read"
    /\ answered \/ faults < scene.faults
    /\ faults' = IF answered THEN faults ELSE faults + 1
    /\ \E e \in IF r + 1 < Replicas THEN {d}
                ELSE IF c.round = 1 THEN Planned(d) ELSE Replanned(d) :
         cmd' = [cmd EXCEPT ![p] = e]
    /\ UNCHANGED <<fleetVars, machineVars, keeperVars, commands, events>>

\* beforeHold: a rotation saves the keyring it is about to hand over.
SaveHeld(p) ==
    LET c == cmd[p]
        m == MachineOf[p] IN
    /\ c.pc = "hold"
    /\ IF UnchangedFile(m, c.file)
         THEN /\ keyring' = [keyring EXCEPT ![m] = c.held]
              /\ cmd' = [cmd EXCEPT ![p] = StartPush([c EXCEPT !.file = c.held])]
         ELSE /\ cmd' = [cmd EXCEPT ![p] = Stop(c)]
              /\ UNCHANGED keyring
    /\ UNCHANGED <<fleetVars, recorded, minted, keeperVars, boundVars>>

\* beforeActivate: and the keyring itself, once every replica holds its keys.
SaveActive(p) ==
    LET c == cmd[p]
        m == MachineOf[p] IN
    /\ c.pc = "activate"
    /\ IF UnchangedFile(m, c.file)
         THEN /\ keyring' = [keyring EXCEPT ![m] = c.keys]
              /\ cmd' = [cmd EXCEPT ![p] = StartPush([c EXCEPT !.file = c.keys])]
         ELSE /\ cmd' = [cmd EXCEPT ![p] = Stop(c)]
              /\ UNCHANGED keyring
    /\ UNCHANGED <<fleetVars, recorded, minted, keeperVars, boundVars>>

HeldStepDone(c) == c.unreached = {} /\ c.refused = {} /\ c.loaded # {}

AfterPush(c) ==
    IF c.round = 1
      THEN IF HeldStepDone(c)
             THEN [c EXCEPT !.round = 2, !.pc = "read", !.next = 0,
                            !.states = AllSilent, !.heldLoaded = c.loaded]
             ELSE Stop(c)
      ELSE [c EXCEPT !.activated = TRUE, !.toConfirm = c.refused,
                     !.pc = IF c.refused = {} THEN "record" ELSE "confirm"]

\* The command is done with replica r, which ended up in where.
PushedTo(c, r, where) ==
    LET d == [c EXCEPT !.next = r + 1,
                !.loaded    = IF where = "loaded"    THEN @ \union {r} ELSE @,
                !.refused   = IF where = "refused"   THEN @ \union {r} ELSE @,
                !.unreached = IF where = "unreached" THEN @ \union {r} ELSE @,
                !.taken     = IF where = "loaded" THEN Max2(@, c.highest) ELSE @] IN
      IF r + 1 < Replicas THEN d ELSE AfterPush(d)

\* A replica the push passes over: it did not say what it holds, or it is
\* sealed and this command does not unseal it.
LeavesAlone(c, r) ==
    \/ c.states[r] = Silent
    \/ ~Serving(c.states[r]) /\ (~Unseals(c) \/ c.leaveSealed)

PassOver(p) ==
    LET c == cmd[p]
        r == c.next IN
    /\ c.pc = "push" /\ LeavesAlone(c, r)
    /\ cmd' = [cmd EXCEPT ![p] =
                 PushedTo(c, r, IF c.states[r] = Silent THEN "unreached" ELSE "waiting")]
    /\ UNCHANGED <<fleetVars, machineVars, keeperVars, boundVars>>

Sent(c) == [bundle |-> [instance |-> Instance, generation |-> c.highest,
                        rings |-> IF c.round = 1 THEN c.held ELSE c.keys],
            intent |-> IF Unseals(c) THEN "operator-unseal" ELSE "hand-over"]

\* One Unseal call whose answer arrives.  Proof, not a status code: a replica
\* counts as loaded only if it reports exactly the keys it was sent.
PushReplica(p) ==
    LET c       == cmd[p]
        r       == c.next
        x       == Sent(c)
        verdict == UnsealVerdict(vault[r], x.bundle, x.intent)
        after   == UnsealVault(vault[r], x.bundle, x.intent) IN
    /\ c.pc = "push" /\ ~LeavesAlone(c, r)
    /\ vault' = [vault EXCEPT ![r] = after]
    /\ cmd' = [cmd EXCEPT ![p] =
         PushedTo(c, r, IF verdict = "not-serving" THEN "waiting"
                        ELSE IF Accepted(verdict) /\ after.rings = x.bundle.rings
                               THEN "loaded" ELSE "refused")]
    /\ UNCHANGED <<late, machineVars, keeperVars, boundVars>>

\* One Unseal call that fails for the caller: it was lost on the way, its
\* answer was, or the replica acts on it after the caller has given up.
PushFails(p, how) ==
    LET c == cmd[p]
        r == c.next
        x == Sent(c) IN
    /\ c.pc = "push" /\ ~LeavesAlone(c, r)
    /\ faults < scene.faults
    /\ faults' = faults + 1
    /\ vault' = IF how = "answer lost"
                  THEN [vault EXCEPT ![r] = UnsealVault(@, x.bundle, x.intent)] ELSE vault
    /\ late' = IF how = "late" THEN [late EXCEPT ![r] = @ \union {x}] ELSE late
    /\ cmd' = [cmd EXCEPT ![p] = PushedTo(c, r, "refused")]
    /\ UNCHANGED <<machineVars, keeperVars, commands, events>>

\* confirmRefused asks each replica that refused the keyring what it holds,
\* because a push can land and its answer be lost.
ConfirmReplica(p, r, answered) ==
    LET c     == cmd[p]
        d     == [c EXCEPT !.toConfirm = @ \ {r},
                           !.pc = IF c.toConfirm = {r} THEN "record" ELSE "confirm"]
        holds == Serving(vault[r]) /\ vault[r].rings = c.keys IN
    /\ c.pc = "confirm"
    /\ r \in c.toConfirm /\ \A q \in c.toConfirm : r <= q
    /\ answered \/ faults < scene.faults
    /\ faults' = IF answered THEN faults ELSE faults + 1
    /\ cmd' = [cmd EXCEPT ![p] =
         IF ~answered THEN [d EXCEPT !.unconfirmed = @ \union {r}]
         ELSE IF holds THEN [d EXCEPT !.refused = @ \ {r}, !.loaded = @ \union {r},
                                      !.taken = Max2(@, vault[r].generation)]
         ELSE d]
    /\ UNCHANGED <<fleetVars, machineVars, keeperVars, commands, events>>

\* record: the highest generation a replica took goes into the metadata,
\* unless another command recorded a different one meanwhile.
Record(p) ==
    LET c == cmd[p]
        m == MachineOf[p]
        putBack == /\ c.kind = "rotate" /\ c.activated
                   /\ c.loaded = {} /\ c.unconfirmed = {} IN
    /\ c.pc = "record"
    /\ recorded' = IF c.taken > c.metaGen /\ recorded[m] = c.metaGen
                     THEN [recorded EXCEPT ![m] = c.taken] ELSE recorded
    /\ cmd' = [cmd EXCEPT ![p] = IF putBack THEN [c EXCEPT !.pc = "fallback"] ELSE Idle]
    /\ UNCHANGED <<fleetVars, keyring, minted, keeperVars, boundVars>>

\* A rotation whose last push reached no replica puts this machine back on
\* the keys the replicas use.
PutBack(p) ==
    LET c == cmd[p]
        m == MachineOf[p] IN
    /\ c.pc = "fallback"
    /\ keyring' = IF UnchangedFile(m, c.file) THEN [keyring EXCEPT ![m] = c.held]
                                              ELSE keyring
    /\ cmd' = [cmd EXCEPT ![p] = Idle]
    /\ UNCHANGED <<fleetVars, recorded, minted, keeperVars, boundVars>>

\* The operator interrupts a command, or its machine goes down.
Kill(p) ==
    /\ cmd[p].pc # "idle"
    /\ faults < scene.faults
    /\ faults' = faults + 1
    /\ cmd' = [cmd EXCEPT ![p] = Idle]
    /\ UNCHANGED <<fleetVars, machineVars, keeperVars, commands, events>>

\* mergeScopes: a scope that two machines each minted for themselves shares
\* no key; otherwise this machine's active key stays and it gains the others.
MintedTwice(live, incoming) ==
    live.held # {} /\ incoming.held # {} /\ live.held \intersect incoming.held = {}

MergedRing(live, incoming) ==
    IF live.held = {} THEN incoming
    ELSE [live EXCEPT !.held = @ \union incoming.held]

\* storage key import of another machine's export.
ImportKeys(m, from) ==
    /\ m # from
    /\ MayStart
    /\ events < scene.events
    /\ events' = events + 1
    /\ \A s \in Scope : ~MintedTwice(keyring[m][s], keyring[from][s])
    /\ keyring' = [keyring EXCEPT ![m] =
         [s \in Scope |-> MergedRing(keyring[m][s], keyring[from][s])]]
    /\ UNCHANGED <<fleetVars, recorded, minted, cmd, keeperVars, commands, faults>>

-----------------------------------------------------------------------------
(* Keepers *)

\* keeper enroll: a bundle of the machine's scopes at the recorded generation.
Enrol(k, m) ==
    /\ pass[k].pc = "idle"
    /\ MayStart
    /\ events < scene.events
    /\ events' = events + 1
    /\ bundle' = [bundle EXCEPT ![k] = [instance |-> Instance, generation |-> recorded[m],
                                        rings |-> keyring[m]]]
    /\ UNCHANGED <<fleetVars, machineVars, cmd, pass, commands, faults>>

\* A keeper asks every replica before it decides about any.
KeeperRead(k, answered) ==
    LET r == pass[k].next
        a == IF answered THEN vault[r] ELSE Silent IN
    /\ pass[k].pc = "read" \/ (pass[k].pc = "idle" /\ MayStart)
    /\ answered \/ faults < scene.faults
    /\ faults' = IF answered THEN faults ELSE faults + 1
    /\ pass' = [pass EXCEPT ![k] =
         IF r + 1 < Replicas
           THEN [pc |-> "read", states |-> [@.states EXCEPT ![r] = a], next |-> r + 1]
           ELSE [pc |-> "push", states |-> [@.states EXCEPT ![r] = a], next |-> 0]]
    /\ UNCHANGED <<fleetVars, machineVars, cmd, bundle, commands, events>>

Decided(k) ==
    pass' = [pass EXCEPT ![k] =
               IF @.next + 1 < Replicas THEN [@ EXCEPT !.next = pass[k].next + 1] ELSE Resting]

\* No reason to re-seed this replica, or a budget already spent.
KeeperLeaves(k, withinBudget) ==
    /\ pass[k].pc = "push"
    /\ ~Reseeds(bundle[k], pass[k].states, pass[k].next, withinBudget)
    /\ Decided(k)
    /\ UNCHANGED <<fleetVars, machineVars, cmd, bundle, boundVars>>

KeeperReseeds(k, how) ==
    LET r == pass[k].next
        x == [bundle |-> bundle[k], intent |-> "restart-reseed"] IN
    /\ pass[k].pc = "push"
    /\ Reseeds(bundle[k], pass[k].states, r, TRUE)
    /\ how = "answered" \/ faults < scene.faults
    /\ faults' = IF how = "answered" THEN faults ELSE faults + 1
    /\ vault' = IF how = "answered" THEN [vault EXCEPT ![r] = UnsealVault(@, x.bundle, x.intent)]
                                    ELSE vault
    /\ late' = IF how = "late" THEN [late EXCEPT ![r] = @ \union {x}] ELSE late
    /\ Decided(k)
    /\ UNCHANGED <<machineVars, cmd, bundle, commands, events>>

-----------------------------------------------------------------------------
(* The replicas themselves *)

Event ==
    /\ events < scene.events
    /\ events' = events + 1
    /\ UNCHANGED <<machineVars, cmd, keeperVars, commands, faults>>

\* A new process starts sealed; calls to the old one are gone.
Restart(r) ==
    /\ Event
    /\ vault' = [vault EXCEPT ![r] = NewVault]
    /\ late' = [late EXCEPT ![r] = {}]

\* storage seal, one replica at a time, any of which may fail.
SealReplica(r, hold) ==
    /\ Event
    /\ vault' = [vault EXCEPT ![r] = SealVault(@, hold)]
    /\ UNCHANGED late

ReleaseReplica(r) ==
    /\ vault[r].phase = "operator-hold"
    /\ Event
    /\ vault' = [vault EXCEPT ![r] = ReleaseVault(@)]
    /\ UNCHANGED late

DeliverLate(r, x) ==
    /\ x \in late[r]
    /\ late' = [late EXCEPT ![r] = @ \ {x}]
    /\ vault' = [vault EXCEPT ![r] = UnsealVault(@, x.bundle, x.intent)]
    /\ UNCHANGED <<machineVars, cmd, keeperVars, boundVars>>

-----------------------------------------------------------------------------
CommandStep(p) ==
    \/ \E kind \in Kind : BeginUnseal(p, kind) \/ BeginSaving(p, kind)
    \/ SaveRotated(p) \/ LoadKeys(p) \/ SaveHeld(p) \/ SaveActive(p)
    \/ \E s \in Scope : SaveScope(p, s)
    \/ \E answered \in BOOLEAN : ReadReplica(p, answered)
    \/ PassOver(p) \/ PushReplica(p)
    \/ \E how \in {"lost", "answer lost", "late"} : PushFails(p, how)
    \/ \E r \in Replica, answered \in BOOLEAN : ConfirmReplica(p, r, answered)
    \/ Record(p) \/ PutBack(p) \/ Kill(p)

KeeperStep(k) ==
    \/ \E m \in Machine : Enrol(k, m)
    \/ \E answered \in BOOLEAN : KeeperRead(k, answered)
    \/ \E withinBudget \in BOOLEAN : KeeperLeaves(k, withinBudget)
    \/ \E how \in {"answered", "lost", "late"} : KeeperReseeds(k, how)

ReplicaStep(r) ==
    \/ Restart(r) \/ ReleaseReplica(r)
    \/ \E hold \in BOOLEAN : SealReplica(r, hold)
    \/ \E x \in late[r] : DeliverLate(r, x)

Next ==
    /\ \/ \E p \in Command : CommandStep(p)
       \/ \E k \in Keeper : KeeperStep(k)
       \/ \E r \in Replica : ReplicaStep(r)
       \/ \E m, from \in Machine : ImportKeys(m, from)
    /\ Background

Spec == Init /\ [][Next]_vars

\* A keeper keeps making passes, and now and then a pass gets its answers and
\* finds its budget unspent.
KeeperFairness ==
    \A k \in Keeper :
        /\ WF_vars((\E answered \in BOOLEAN : KeeperRead(k, answered)) /\ Background)
        /\ WF_vars((\E withinBudget \in BOOLEAN : KeeperLeaves(k, withinBudget)) /\ Background)
        /\ SF_vars(KeeperReseeds(k, "answered") /\ Background)

\* A replica acts, sooner or later, on a call it has received.
ReplicaFairness ==
    \A r \in Replica : WF_vars((\E x \in late[r] : DeliverLate(r, x)) /\ Background)

FairSpec == Spec /\ KeeperFairness /\ ReplicaFairness

-----------------------------------------------------------------------------
(* Correctness *)

ServingReplicas == {r \in Replica : Serving(vault[r])}

\* "No replica is told to write under a key another serving replica lacks":
\* whatever one serving replica writes under, every other serving replica that
\* serves the scope can read.
NoSplit ==
    \A r, q \in ServingReplicas, s \in Scope :
        HoldsScope(vault[r].rings, s) /\ HoldsScope(vault[q].rings, s) =>
            vault[r].rings[s].active \in vault[q].rings[s].held

\* The machine writes to storage too: its active key of a scope is one every
\* replica serving that scope holds.
MachineNeverAhead ==
    \A m \in Machine, r \in ServingReplicas, s \in Scope :
        HoldsScope(keyring[m], s) /\ HoldsScope(vault[r].rings, s) =>
            keyring[m][s].active \in vault[r].rings[s].held

\* Everything that was ever written stays readable through every replica
\* that serves the scope.
WrittenReadable ==
    \A r \in ServingReplicas, s \in Scope :
        HoldsScope(vault[r].rings, s) => written[s] \subseteq vault[r].rings[s].held

\* A rotation or a deploy never unseals a replica: what leaves the seal does
\* so by an unseal or by a keeper's re-seed.
HandOverNeverUnseals ==
    [][ \A r \in Replica : ~Serving(vault[r]) /\ Serving(vault[r])' =>
          \/ \E p \in Command : Unseals(cmd[p]) /\ cmd[p].pc = "push" /\ cmd'[p] # cmd[p]
          \/ \E k \in Keeper : pass'[k] # pass[k]
          \/ \E x \in late[r] : x.intent # "hand-over"]_vars

\* An instance heals by itself: while its operator runs no command, a replica
\* that restarts does not stay sealed, but is brought back by a keeper.
RestartsHealed ==
    [](\A p \in Command : cmd[p].pc = "idle") =>
        \A r \in Replica : []<>(vault[r].phase # "restart-sealed")

\* Every serving replica has the keys that this pass read of it, or the keys
\* that the pass has brought it since.
FreshReading(k) ==
    \A q \in ServingReplicas :
        \/ Serving(pass[k].states[q]) /\ pass[k].states[q].rings = vault[q].rings
        \/ vault[q].rings = bundle[k].rings

\* A keeper that decides on what the fleet still is leaves a whole fleet whole,
\* however commands, other passes and late calls overlap its own: the verdict of
\* FleetOf is enough but for being stale.
FreshReseedKeepsWhole ==
    [][ \A k \in Keeper :
          NoSplit /\ FreshReading(k) /\ pass[k].pc = "push" /\ pass'[k] # pass[k]
            => NoSplit']_vars

\* A keeper's re-seed, a late one too, leaves a whole fleet whole: the verdict
\* on the whole fleet stops pre-rotation keys from coming back.
KeeperNeverSplits ==
    [][ /\ NoSplit
        /\ \/ \E k \in Keeper : pass'[k] # pass[k]
           \/ \E r \in Replica : \E x \in late[r] \ late'[r] : x.intent = "restart-reseed"
        => NoSplit']_vars

\* While commands and passes take turns, no push takes from a serving replica
\* the key it is writing under.
NoKeyTaken ==
    [][ ~scene.overlap => \A r \in Replica, s \in Scope :
          Serving(vault[r]) /\ Serving(vault[r])' /\ HoldsScope(vault[r].rings, s) =>
            vault[r].rings[s].active \in vault'[r].rings[s].held]_vars

\* keys.yaml only grows: however commands on one machine overlap, each holding
\* the keyring it read, none writes over keys another one saved.
KeyringsGrow ==
    [][ \A m \in Machine, s \in Scope :
          keyring[m][s].held \subseteq keyring'[m][s].held]_vars
=============================================================================
