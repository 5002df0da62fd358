--------------------------- MODULE HandOverProofs ---------------------------
(***************************************************************************)
(* Proofs about the hand-over of keys to a fleet of keyholder replicas.    *)
(***************************************************************************)
EXTENDS HandOver, TLAPS

-----------------------------------------------------------------------------
(* One command *)

SameHeld(a, b) == \A s \in Scope : a[s].held = b[s].held

\* A rotation's file, the keyring it hands over and, once it has chosen one,
\* the keyring it hands over first differ in their active keys alone; and there
\* is a scope that has to go over in two pushes.
RotationSound(c) ==
    /\ SameHeld(c.file, c.keys)
    /\ \E s \in Scope : HoldsScope(c.keys, s) /\ c.previous[s] # NoKey
    /\ c.pc \in {"hold", "push"} \/ c.round = 2 => SameHeld(c.held, c.keys)

CommandSound(c) ==
    /\ c \in CommandState
    /\ c.pc \in {"read", "push"} => c.next \in Replica
    /\ c.pc \in {"save", "load"} => c.next = 0 /\ c.round = 1
    /\ c.pc = "load" => c.kind = "run"
    /\ c.pc \in {"hold", "activate", "fallback"} => c.kind = "rotate"
    /\ c.pc \in {"activate", "confirm", "fallback"} \/ c.activated => c.round = 2
    /\ c.kind = "rotate" /\ c.pc \notin {"idle", "save"} => RotationSound(c)

PassSound(a) == a \in PassState /\ a.next \in Replica

StateType ==
    /\ vault \in [Replica -> VaultState]
    /\ late \in [Replica -> SUBSET InFlight]
    /\ keyring \in [Machine -> Rings] /\ recorded \in [Machine -> Nat]
    /\ minted \in Nat
    /\ cmd \in [Command -> CommandState]
    /\ \A p \in Command : CommandSound(cmd[p])
    /\ bundle \in [Keeper -> BundleOf({Instance})]
    /\ pass \in [Keeper -> PassState]
    /\ \A k \in Keeper : PassSound(pass[k])

\* The inductive type invariant; it implies TypeOK.
HandOverType == StateType /\ written \in [Scope -> SUBSET Key]

-----------------------------------------------------------------------------
(* Types of the values the steps compute *)

\* Nobody holds anything in NoRings, and nobody answers in AllSilent.
LEMMA NothingTypes ==
    /\ NoRings \in Rings /\ Silent \in Answer /\ AllSilent \in [Replica -> Answer]
    /\ NoPrevious \in [Scope -> Key \union {NoKey}] /\ 0 \in Replica
<1>1. NoRings \in Rings
      BY DEF NoRings, Rings
<1>2. Silent \in Answer
      BY DEF Answer
<1>3. AllSilent \in [Replica -> Answer]
      BY <1>2 DEF AllSilent
<1>4. NoPrevious \in [Scope -> Key \union {NoKey}]
      BY DEF NoPrevious
<1>5. 0 \in Replica
      BY PlanAssumption DEF Replica
<1> QED BY <1>1, <1>2, <1>3, <1>4, <1>5

\* A process between two commands.
LEMMA IdleSound == CommandSound(Idle)
<1>1. Idle \in CommandState
      BY NothingTypes DEF Idle, CommandState, Kinds, Steps
<1> QED BY <1>1 DEF CommandSound, Idle

\* A keeper between two passes.
LEMMA RestingSound == PassSound(Resting)
BY NothingTypes DEF PassSound, Resting, PassState

\* A ring holds its active key, or nothing.
LEMMA RingFacts ==
    ASSUME NEW rings \in Rings, NEW s \in Scope
    PROVE  /\ rings[s].held \subseteq Key
           /\ rings[s].held # {} => rings[s].active \in rings[s].held
           /\ rings[s].held # {} => rings[s].active # NoKey
           /\ rings[s].held = {} => rings[s] = NoRing /\ rings[s].active = NoKey
<1>1. rings[s] \in Ring \/ rings[s] = NoRing
      BY DEF Rings
<1> QED BY <1>1, KeyAssumption DEF Ring, NoRing, NoKey

\* Serving replicas answer with their vault.
LEMMA AnswerTypes ==
    /\ VaultState \subseteq Answer
    /\ \A a \in Answer : a.generation \in Nat /\ a.rings \in Rings
    /\ \A a \in Answer : a = Silent \/ a \in VaultState
<1>1. VaultState \subseteq Answer
      BY DEF Answer
<1>2. ASSUME NEW a \in Answer
      PROVE  a.generation \in Nat /\ a.rings \in Rings
      <2>1. CASE a \in VaultState
            BY <2>1 DEF VaultState
      <2>2. CASE a = Silent
            BY <2>2, NothingTypes DEF Silent
      <2> QED BY <2>1, <2>2 DEF Answer
<1>3. \A a \in Answer : a = Silent \/ a \in VaultState
      BY DEF Answer
<1> QED BY <1>1, <1>2, <1>3

\* What the vault's operations make of a vault.
LEMMA VaultTypes ==
    ASSUME NEW v \in VaultState
    PROVE  /\ NewVault \in VaultState
           /\ \A hold \in BOOLEAN : SealVault(v, hold) \in VaultState
           /\ ReleaseVault(v) \in VaultState
           /\ \A b \in BundleOf({Instance}), intent \in Intent :
                UnsealVault(v, b, intent) \in VaultState
<1>1. NewVault \in VaultState
      BY NothingTypes DEF NewVault, VaultState, Phase
<1>2. \A hold \in BOOLEAN : SealVault(v, hold) \in VaultState
      BY NothingTypes DEF SealVault, VaultState, Phase
<1>3. ReleaseVault(v) \in VaultState
      BY DEF ReleaseVault, VaultState, Phase
<1>4. ASSUME NEW b \in BundleOf({Instance}), NEW intent \in Intent
      PROVE  UnsealVault(v, b, intent) \in VaultState
      BY DEF UnsealVault, VaultState, BundleOf, Phase
<1> QED BY <1>1, <1>2, <1>3, <1>4

\* The keyring of the first push: the same keys, each scope active under one
\* of them.
LEMMA HeldKeyringTypes ==
    ASSUME NEW keys \in Rings, NEW states, NEW previous,
           NEW h \in HeldKeyrings(keys, states, previous)
    PROVE  h \in Rings /\ SameHeld(h, keys)
<1> DEFINE back == HeldBack(keys, states, previous)
<1>1. PICK a \in [back -> Key] :
        /\ h = WithActive(keys, a)
        /\ \A s \in back : a[s] \in Meanwhile(keys, states, previous, s)
      BY DEF HeldKeyrings
<1>2. ASSUME NEW s \in back
      PROVE  a[s] \in keys[s].held /\ s \in Scope
      <2>1. Meanwhile(keys, states, previous, s) \subseteq keys[s].held
            BY DEF Meanwhile, Usable
      <2> QED BY <1>1, <2>1 DEF HeldBack
<1>3. ASSUME NEW s \in Scope
      PROVE  /\ h[s] \in Ring \union {NoRing}
             /\ h[s].held = keys[s].held
      <2>1. DOMAIN a = back
            OBVIOUS
      <2>2. h[s] = IF s \in back THEN [keys[s] EXCEPT !.active = a[s]] ELSE keys[s]
            BY <1>1, <2>1 DEF WithActive
      <2>3. keys[s] \in Ring \/ keys[s] = NoRing
            BY DEF Rings
      <2>4. CASE s \notin back
            BY <2>2, <2>3, <2>4
      <2>5. CASE s \in back
            <3>1. a[s] \in keys[s].held
                  BY <1>2, <2>5
            <3>2. keys[s] \in Ring
                  BY <3>1, <2>3 DEF NoRing
            <3> QED BY <3>1, <3>2, <2>2, <2>5 DEF Ring
      <2> QED BY <2>4, <2>5
<1>4. h = [s \in Scope |-> h[s]]
      BY <1>1 DEF WithActive
<1>5. h \in Rings
      BY <1>3, <1>4 DEF Rings
<1> QED BY <1>3, <1>5 DEF SameHeld

\* Giving up goes on to record what was reached.
LEMMA StopSound ==
    ASSUME NEW c \in CommandState, c.activated => c.round = 2,
           c.kind = "rotate" => RotationSound(c), c.pc # "push" \/ c.round = 1
    PROVE  CommandSound(Stop(c))
<1>1. Stop(c) \in CommandState
      BY DEF Stop, CommandState, Steps
<1>2. /\ Stop(c).pc = "record" /\ Stop(c).kind = c.kind /\ Stop(c).round = c.round
      /\ Stop(c).keys = c.keys /\ Stop(c).file = c.file /\ Stop(c).held = c.held
      /\ Stop(c).previous = c.previous /\ Stop(c).activated = c.activated
      BY DEF Stop, CommandState
<1>3. c.kind = "rotate" => RotationSound(Stop(c))
      BY <1>2 DEF RotationSound
<1> QED BY <1>1, <1>2, <1>3 DEF CommandSound

\* A push begins at the first replica.
LEMMA StartPushSound ==
    ASSUME NEW c \in CommandState, c.activated => c.round = 2,
           c.kind = "rotate" => RotationSound(c) /\ SameHeld(c.held, c.keys)
    PROVE  CommandSound(StartPush(c))
<1>0. PICK g \in Nat : g = c.highest + 1
      BY DEF CommandState
<1>1. StartPush(c) \in CommandState
      <2>1. StartPush(c) = [c EXCEPT !.pc = "push", !.next = 0, !.highest = g,
                                     !.loaded = {}, !.refused = {}, !.unreached = {}]
            BY <1>0 DEF StartPush
      <2>2. PICK none \in SUBSET Replica : none = {}
            OBVIOUS
      <2>3. PICK pc \in Steps : pc = "push"
            BY DEF Steps
      <2>4. StartPush(c) = [c EXCEPT !.pc = pc, !.next = 0, !.highest = g,
                                     !.loaded = none, !.refused = none, !.unreached = none]
            BY <2>1, <2>2, <2>3
      <2>5. PICK f \in CommandState : f = [c EXCEPT !.pc = pc, !.next = 0, !.highest = g]
            BY DEF CommandState
      <2>6. StartPush(c) = [f EXCEPT !.loaded = none, !.refused = none, !.unreached = none]
            BY <2>4, <2>5 DEF CommandState
      <2> QED BY ZenonT(40), <2>6 DEF CommandState
<1>2. /\ StartPush(c).pc = "push" /\ StartPush(c).kind = c.kind
      /\ StartPush(c).round = c.round /\ StartPush(c).next = 0
      /\ StartPush(c).keys = c.keys /\ StartPush(c).file = c.file
      /\ StartPush(c).held = c.held /\ StartPush(c).previous = c.previous
      /\ StartPush(c).activated = c.activated
      BY DEF StartPush, CommandState
<1>3. c.kind = "rotate" => RotationSound(StartPush(c))
      BY <1>2 DEF RotationSound
<1> QED BY <1>1, <1>2, <1>3, NothingTypes DEF CommandSound

\* A rotation always has a scope to hold back, so it never pushes its new keys
\* without having saved and pushed them held.
LEMMA RotationHolds ==
    ASSUME NEW c \in CommandState, RotationSound(c), NEW states
    PROVE  HeldBack(c.keys, states, c.previous) # {}
BY DEF RotationSound, HeldBack, NeedsHold

\* What a command does after its first read.
LEMMA PlannedSound ==
    ASSUME NEW c \in CommandState, c.pc = "read", c.round = 1, ~c.activated,
           c.kind = "rotate" => RotationSound(c),
           NEW e \in Planned(c)
    PROVE  CommandSound(e)
<1> DEFINE d == [c EXCEPT !.leaveSealed = c.kind = "unseal" /\ Unchecked(c.states)]
<1>1. /\ d \in CommandState /\ d.kind = c.kind /\ d.round = c.round /\ d.pc = c.pc
      /\ d.keys = c.keys /\ d.file = c.file /\ d.held = c.held
      /\ d.previous = c.previous /\ d.activated = c.activated
      BY DEF CommandState
<1>2. d.kind = "rotate" => RotationSound(d)
      BY <1>1 DEF RotationSound
<1> HIDE DEF d
<1>3. CASE Refused(c.keys, c.states, c.previous)
      <2>1. e = Stop(d)
            BY <1>3 DEF Planned, d
      <2> QED BY <2>1, <1>1, <1>2, StopSound
<1>4. CASE ~Refused(c.keys, c.states, c.previous) /\ HeldBack(c.keys, c.states, c.previous) = {}
      <2>1. e = StartPush([d EXCEPT !.round = 2])
            BY <1>4 DEF Planned, d
      <2>2. c.kind # "rotate"
            BY <1>4, RotationHolds
      <2> DEFINE f == [d EXCEPT !.round = 2]
      <2>3. f \in CommandState /\ f.kind = d.kind /\ f.round = 2 /\ f.activated = d.activated
            BY <1>1 DEF CommandState
      <2> HIDE DEF f
      <2> QED BY <2>1, <2>2, <2>3, <1>1, StartPushSound DEF f
<1>5. CASE ~Refused(c.keys, c.states, c.previous) /\ HeldBack(c.keys, c.states, c.previous) # {}
      <2>1. PICK h \in HeldKeyrings(c.keys, c.states, c.previous) :
              e = IF c.kind = "rotate" THEN [d EXCEPT !.pc = "hold", !.held = h]
                                       ELSE StartPush([d EXCEPT !.held = h])
            BY <1>5 DEF Planned, d
      <2>2. h \in Rings /\ SameHeld(h, c.keys)
            <3>1. c.keys \in Rings
                  BY DEF CommandState
            <3> QED BY <3>1, HeldKeyringTypes
      <2>3. CASE c.kind = "rotate"
            <3>1. e = [d EXCEPT !.pc = "hold", !.held = h]
                  BY <2>1, <2>3
            <3>2. /\ e \in CommandState /\ e.kind = d.kind /\ e.round = d.round
                  /\ e.pc = "hold" /\ e.keys = d.keys /\ e.file = d.file /\ e.held = h
                  /\ e.previous = d.previous /\ e.activated = d.activated
                  BY <3>1, <2>2, <1>1 DEF CommandState, Steps
            <3>3. RotationSound(e)
                  BY <3>2, <2>2, <2>3, <1>1, <1>2 DEF RotationSound
            <3> QED BY <3>2, <3>3, <2>3, <1>1 DEF CommandSound
      <2>4. CASE c.kind # "rotate"
            <3> DEFINE f == [d EXCEPT !.held = h]
            <3>1. /\ f \in CommandState /\ f.kind = d.kind /\ f.round = d.round
                  /\ f.activated = d.activated
                  BY <2>2, <1>1 DEF CommandState
            <3>2. e = StartPush(f)
                  BY <2>1, <2>4
            <3> HIDE DEF f
            <3> QED BY <3>1, <3>2, <2>4, <1>1, StartPushSound
      <2> QED BY <2>3, <2>4
<1> QED BY <1>3, <1>4, <1>5

\* What a command does after its second read.
LEMMA ReplannedSound ==
    ASSUME NEW c \in CommandState, c.pc = "read", c.round = 2,
           c.kind = "rotate" => RotationSound(c),
           NEW e \in Replanned(c)
    PROVE  CommandSound(e)
<1>1. CASE e = Stop(c)
      BY <1>1, StopSound
<1>2. CASE c.kind = "rotate" /\ e = [c EXCEPT !.pc = "activate"]
      <2>1. /\ e \in CommandState /\ e.kind = c.kind /\ e.round = c.round
            /\ e.pc = "activate" /\ e.keys = c.keys /\ e.file = c.file /\ e.held = c.held
            /\ e.previous = c.previous /\ e.activated = c.activated
            BY <1>2 DEF CommandState, Steps
      <2>2. RotationSound(e)
            BY <2>1, <1>2 DEF RotationSound
      <2> QED BY <1>2, <2>1, <2>2 DEF CommandSound
<1>3. CASE c.kind # "rotate" /\ e = StartPush(c)
      BY <1>3, StartPushSound
<1> QED BY <1>1, <1>2, <1>3 DEF Replanned

\* What a command does once it has been to every replica.
LEMMA AfterPushSound ==
    ASSUME NEW c \in CommandState, c.pc = "push", c.activated => c.round = 2,
           c.kind = "rotate" => RotationSound(c)
    PROVE  CommandSound(AfterPush(c))
<1> DEFINE e == AfterPush(c)
<1>1. CASE c.round = 1 /\ HeldStepDone(c)
      <2>1. /\ e \in CommandState /\ e.kind = c.kind /\ e.round = 2 /\ e.next = 0
            /\ e.pc = "read" /\ e.keys = c.keys /\ e.file = c.file /\ e.held = c.held
            /\ e.previous = c.previous /\ e.activated = c.activated
            BY ZenonT(40), <1>1, NothingTypes DEF AfterPush, CommandState, Steps
      <2>2. c.kind = "rotate" => RotationSound(e)
            BY <2>1 DEF RotationSound
      <2> HIDE DEF e
      <2>3. CommandSound(e)
            BY <2>1, <2>2, NothingTypes DEF CommandSound
      <2> QED BY <2>3 DEF e
<1>2. CASE c.round = 1 /\ ~HeldStepDone(c)
      BY <1>2, StopSound DEF AfterPush
<1>3. CASE c.round # 1
      <2>1. /\ e \in CommandState /\ e.kind = c.kind /\ e.round = 2
            /\ e.pc \in {"record", "confirm"}
            /\ e.keys = c.keys /\ e.file = c.file /\ e.held = c.held
            /\ e.previous = c.previous
            BY <1>3 DEF AfterPush, CommandState, Steps
      <2>2. c.kind = "rotate" => RotationSound(e)
            BY <2>1 DEF RotationSound
      <2> HIDE DEF e
      <2>3. CommandSound(e)
            BY <2>1, <2>2 DEF CommandSound
      <2> QED BY <2>3 DEF e
<1> QED BY <1>1, <1>2, <1>3

\* One replica further.
LEMMA PushedToSound ==
    ASSUME NEW c, CommandSound(c), c.pc = "push", NEW where
    PROVE  CommandSound(PushedTo(c, c.next, where))
<1> DEFINE r == c.next
           d == [c EXCEPT !.next = r + 1,
                !.loaded    = IF where = "loaded"    THEN @ \union {r} ELSE @,
                !.refused   = IF where = "refused"   THEN @ \union {r} ELSE @,
                !.unreached = IF where = "unreached" THEN @ \union {r} ELSE @,
                !.taken     = IF where = "loaded" THEN Max2(@, c.highest) ELSE @]
<1>1. c \in CommandState /\ r \in Replica /\ r \in Nat
      BY DEF CommandSound, Replica
<1>2. Max2(c.taken, c.highest) \in Nat
      BY <1>1 DEF Max2, CommandState
<1>3. /\ d \in CommandState /\ d.kind = c.kind /\ d.round = c.round /\ d.pc = "push"
      /\ d.next = c.next + 1
      /\ d.keys = c.keys /\ d.file = c.file /\ d.held = c.held
      /\ d.previous = c.previous /\ d.activated = c.activated
      <2>1. PICK n \in Nat : n = r + 1
            BY <1>1
      <2>2. PICK ls \in SUBSET Replica : ls = IF where = "loaded" THEN c.loaded \union {r} ELSE c.loaded
            BY <1>1 DEF CommandState
      <2>3. PICK rs \in SUBSET Replica : rs = IF where = "refused" THEN c.refused \union {r} ELSE c.refused
            BY <1>1 DEF CommandState
      <2>4. PICK us \in SUBSET Replica : us = IF where = "unreached" THEN c.unreached \union {r} ELSE c.unreached
            BY <1>1 DEF CommandState
      <2>5. PICK g \in Nat : g = IF where = "loaded" THEN Max2(c.taken, c.highest) ELSE c.taken
            BY <1>1, <1>2 DEF CommandState
      <2>6. d = [c EXCEPT !.next = n, !.loaded = ls, !.refused = rs, !.unreached = us, !.taken = g]
            BY <2>1, <2>2, <2>3, <2>4, <2>5
      <2> HIDE DEF d
      <2> QED BY <2>1, <2>6, <1>1 DEF CommandState
<1>4. PushedTo(c, c.next, where) = IF r + 1 < Replicas THEN d ELSE AfterPush(d)
      BY DEF PushedTo
<1> HIDE DEF d
<1>5. d.kind = "rotate" => RotationSound(d)
      BY <1>3 DEF RotationSound, CommandSound
<1>6. d.activated => d.round = 2
      BY <1>3 DEF CommandSound
<1>7. CASE r + 1 < Replicas
      <2>1. d.next \in Replica
            BY <1>1, <1>3, <1>7, PlanAssumption DEF Replica
      <2> QED BY <2>1, <1>3, <1>4, <1>5, <1>6, <1>7 DEF CommandSound
<1>8. CASE ~(r + 1 < Replicas)
      BY <1>3, <1>4, <1>5, <1>6, <1>8, AfterPushSound
<1> QED BY <1>7, <1>8

\* A push as it is sent.
LEMMA SentType ==
    ASSUME NEW c \in CommandState
    PROVE  Sent(c) \in InFlight
<1>1. PICK rings \in Rings : rings = IF c.round = 1 THEN c.held ELSE c.keys
      BY DEF CommandState
<1>2. c.highest \in Nat
      BY DEF CommandState
<1>3. PICK intent \in Intent : intent = IF Unseals(c) THEN "operator-unseal" ELSE "hand-over"
      BY DEF Intent
<1>4. Sent(c) = [bundle |-> [instance |-> Instance, generation |-> c.highest, rings |-> rings],
                 intent |-> intent]
      BY <1>1, <1>3 DEF Sent
<1> QED BY <1>2, <1>4 DEF InFlight, BundleOf

-----------------------------------------------------------------------------
(* Type correctness *)

\* A step of one command leaves the others as they are.
LEMMA CommandMoves ==
    ASSUME StateType, NEW p \in Command, NEW c, CommandSound(c),
           cmd' = [cmd EXCEPT ![p] = c]
    PROVE  /\ cmd' \in [Command -> CommandState]
           /\ \A q \in Command : CommandSound(cmd[q])'
<1>1. c \in CommandState
      BY DEF CommandSound
<1>2. cmd' \in [Command -> CommandState]
      BY <1>1 DEF StateType
<1>3. ASSUME NEW q \in Command
      PROVE  CommandSound(cmd'[q])
      <2>1. CASE q = p
            BY <2>1 DEF StateType
      <2>2. CASE q # p
            <3>1. cmd'[q] = cmd[q] /\ CommandSound(cmd[q])
                  BY <2>2 DEF StateType
            <3> QED BY <3>1
      <2> QED BY <2>1, <2>2
<1>4. \A q \in Command : CommandSound(cmd[q])'
      BY <1>3 DEF CommandSound, RotationSound, SameHeld, HoldsScope
<1> QED BY <1>2, <1>4

\* What a step leaves alone keeps its type.
LEMMA Unmoved ==
    /\ StateType /\ UNCHANGED cmd =>
         cmd' \in [Command -> CommandState] /\ \A p \in Command : CommandSound(cmd[p])'
    /\ StateType /\ UNCHANGED keeperVars =>
         /\ bundle' \in [Keeper -> BundleOf({Instance})] /\ pass' \in [Keeper -> PassState]
         /\ \A k \in Keeper : PassSound(pass[k])'
    /\ StateType /\ UNCHANGED fleetVars =>
         vault' \in [Replica -> VaultState] /\ late' \in [Replica -> SUBSET InFlight]
    /\ StateType /\ UNCHANGED machineVars =>
         /\ keyring' \in [Machine -> Rings] /\ recorded' \in [Machine -> Nat]
         /\ minted' \in Nat
<1>1. ASSUME StateType, UNCHANGED cmd
      PROVE  cmd' \in [Command -> CommandState] /\ \A p \in Command : CommandSound(cmd[p])'
      BY <1>1 DEF StateType, CommandSound, RotationSound, SameHeld, HoldsScope
<1>2. ASSUME StateType, UNCHANGED keeperVars
      PROVE  /\ bundle' \in [Keeper -> BundleOf({Instance})] /\ pass' \in [Keeper -> PassState]
             /\ \A k \in Keeper : PassSound(pass[k])'
      BY <1>2 DEF StateType, keeperVars, PassSound
<1>3. ASSUME StateType, UNCHANGED fleetVars
      PROVE  vault' \in [Replica -> VaultState] /\ late' \in [Replica -> SUBSET InFlight]
      BY <1>3 DEF StateType, fleetVars
<1>4. ASSUME StateType, UNCHANGED machineVars
      PROVE  /\ keyring' \in [Machine -> Rings] /\ recorded' \in [Machine -> Nat]
             /\ minted' \in Nat
      BY <1>4 DEF StateType, machineVars
<1> QED BY <1>1, <1>2, <1>3, <1>4

\* The keys in use are keys.
LEMMA WritesType ==
    ASSUME HandOverType, StateType', Writes
    PROVE  HandOverType'
<1>1. ASSUME NEW s \in Scope
      PROVE  ActiveKeys(s)' \ {NoKey} \subseteq Key
      <2>1. ASSUME NEW r \in Replica
            PROVE  vault'[r].rings[s].active \in Key \union {NoKey}
            <3>1. vault'[r].rings \in Rings
                  BY DEF StateType, VaultState
            <3> QED BY <3>1, RingFacts
      <2>2. ASSUME NEW m \in Machine
            PROVE  keyring'[m][s].active \in Key \union {NoKey}
            <3>1. keyring'[m] \in Rings
                  BY DEF StateType
            <3> QED BY <3>1, RingFacts
      <2> QED BY <2>1, <2>2 DEF ActiveKeys
<1>2. written' = [s \in Scope |-> written[s] \union (ActiveKeys(s)' \ {NoKey})]
      BY DEF Writes
<1>3. written' \in [Scope -> SUBSET Key]
      BY <1>1, <1>2 DEF HandOverType
<1> QED BY <1>3 DEF HandOverType

\* Starting a command.
LEMMA StartType ==
    ASSUME StateType, NEW p \in Command, NEW c, CommandSound(c), Start(p, c)
    PROVE  StateType'
<1>1. /\ cmd' = [cmd EXCEPT ![p] = c]
      /\ UNCHANGED <<fleetVars, machineVars, keeperVars>>
      BY DEF Start
<1> QED BY <1>1, CommandMoves, Unmoved DEF StateType

\* storage unseal begins.
LEMMA BeginUnsealType ==
    ASSUME StateType, NEW p \in Command, NEW kind, BeginUnseal(p, kind)
    PROVE  StateType'
<1> DEFINE m == MachineOf[p]
           c == [Idle EXCEPT !.kind = kind, !.pc = "read", !.keys = keyring[m],
                             !.metaGen = recorded[m], !.highest = recorded[m]]
<1>1. m \in Machine
      BY HandOverAssumption
<1>2. kind \in {"unseal", "unseal-unchecked"}
      BY DEF BeginUnseal
<1>3. PICK ring \in Rings, g \in Nat : ring = keyring[m] /\ g = recorded[m]
      BY <1>1 DEF StateType
<1>4. c = [Idle EXCEPT !.kind = kind, !.pc = "read", !.keys = ring, !.metaGen = g, !.highest = g]
      BY <1>3
<1>5. c \in CommandState /\ c.pc = "read" /\ c.next = 0 /\ ~c.activated /\ c.kind # "rotate"
      BY ZenonT(40), <1>2, <1>4, NothingTypes DEF Idle, CommandState, Kinds, Steps
<1>6. Start(p, c)
      BY DEF BeginUnseal
<1> HIDE DEF c
<1>7. CommandSound(c)
      BY <1>5, NothingTypes DEF CommandSound
<1> QED BY <1>6, <1>7, StartType

\* storage key rotate and run begin.
LEMMA BeginSavingType ==
    ASSUME StateType, NEW p \in Command, NEW kind, BeginSaving(p, kind)
    PROVE  StateType'
<1> DEFINE m == MachineOf[p]
           c == [Idle EXCEPT !.kind = kind, !.pc = "save", !.file = keyring[m],
                             !.metaGen = recorded[m], !.highest = recorded[m]]
<1>1. m \in Machine
      BY HandOverAssumption
<1>2. kind \in {"rotate", "run"}
      BY DEF BeginSaving
<1>3. PICK ring \in Rings, g \in Nat : ring = keyring[m] /\ g = recorded[m]
      BY <1>1 DEF StateType
<1>4. c = [Idle EXCEPT !.kind = kind, !.pc = "save", !.file = ring, !.metaGen = g, !.highest = g]
      BY <1>3
<1>5. c \in CommandState /\ c.pc = "save" /\ ~c.activated /\ c.next = 0 /\ c.round = 1
      BY ZenonT(40), <1>2, <1>4, NothingTypes DEF Idle, CommandState, Kinds, Steps
<1>6. Start(p, c)
      BY DEF BeginSaving
<1> HIDE DEF c
<1>7. CommandSound(c)
      BY <1>5 DEF CommandSound
<1> QED BY <1>6, <1>7, StartType

\* Rotated(file, k): every scope of the file with a new key in front.
Rotated(file, k) ==
    [s \in Scope |-> IF HoldsScope(file, s) THEN RotatedRing(file[s], k) ELSE NoRing]

\* A rotation adds its key to every scope, and until it is handed over every
\* scope stays active under the key it was active under.
LEMMA RotatedTypes ==
    ASSUME NEW file \in Rings, NEW k \in Key
    PROVE  /\ Rotated(file, k) \in Rings
           /\ StillUsing(Rotated(file, k), file) \in Rings
           /\ SameHeld(StillUsing(Rotated(file, k), file), Rotated(file, k))
           /\ \A s \in Scope : StillUsing(Rotated(file, k), file)[s].active = file[s].active
           /\ \A s \in Scope : file[s].held \subseteq Rotated(file, k)[s].held
           /\ \A s \in Scope : HoldsScope(Rotated(file, k), s) <=> HoldsScope(file, s)
<1> DEFINE new == Rotated(file, k)
           old == StillUsing(new, file)
<1>1. ASSUME NEW s \in Scope
      PROVE  /\ new[s] \in Ring \union {NoRing} /\ old[s] \in Ring \union {NoRing}
             /\ old[s].held = new[s].held /\ file[s].held \subseteq new[s].held
             /\ old[s].active = file[s].active
             /\ new[s].held # {} <=> file[s].held # {}
      <2>1. file[s] \in Ring \/ file[s] = NoRing
            BY DEF Rings
      <2>2. old[s] = [new[s] EXCEPT !.active = file[s].active]
            BY DEF StillUsing
      <2>3. CASE file[s].held # {}
            <3>1. new[s] = [active |-> k, held |-> file[s].held \union {k}]
                  BY <2>3 DEF Rotated, HoldsScope, RotatedRing
            <3>2. file[s] \in Ring
                  BY <2>1, <2>3 DEF NoRing
            <3>3. old[s] = [active |-> file[s].active, held |-> file[s].held \union {k}]
                  BY <2>2, <3>1
            <3> QED BY <3>1, <3>2, <3>3 DEF Ring
      <2>4. CASE file[s].held = {}
            <3>1. new[s] = NoRing
                  BY <2>4 DEF Rotated, HoldsScope
            <3>2. file[s] = NoRing
                  BY <2>4, RingFacts
            <3>3. old[s] = NoRing
                  BY <2>2, <3>1, <3>2 DEF NoRing
            <3> QED BY <3>1, <3>2, <3>3 DEF NoRing
      <2> QED BY <2>3, <2>4
<1>2. new = [s \in Scope |-> new[s]] /\ old = [s \in Scope |-> old[s]]
      BY DEF Rotated, StillUsing
<1>3. new \in Rings /\ old \in Rings
      BY <1>1, <1>2 DEF Rings
<1> QED BY <1>1, <1>3 DEF SameHeld, HoldsScope

\* What SaveRotated does, in terms of Rotated.
LEMMA SaveRotatedMoves ==
    ASSUME StateType, NEW p \in Command, SaveRotated(p)
    PROVE  LET c == cmd[p]
               m == MachineOf[p]
               k == minted + 1
               held == StillUsing(Rotated(c.file, k), c.file) IN
           /\ c.pc = "save" /\ c.kind = "rotate" /\ k \in Key /\ minted' = k
           /\ UNCHANGED <<fleetVars, recorded, keeperVars, boundVars>>
           /\ \/ /\ keyring[m] = c.file /\ keyring' = [keyring EXCEPT ![m] = held]
                 /\ \/ cmd' = [cmd EXCEPT ![p] = Idle]
                    \/ /\ \E s \in Scope : HoldsScope(c.file, s)
                       /\ cmd' = [cmd EXCEPT ![p] =
                           [c EXCEPT !.pc = "read", !.keys = Rotated(c.file, k), !.file = held,
                                  !.previous = [s \in Scope |-> c.file[s].active],
                                  !.metaGen = recorded[m], !.highest = recorded[m]]]
              \/ UNCHANGED keyring /\ cmd' = [cmd EXCEPT ![p] = Idle]
<1> DEFINE c == cmd[p]
           scopes  == {s \in Scope : HoldsScope(c.file, s)}
           rotated == [s \in Scope |-> IF s \in scopes
                         THEN RotatedRing(c.file[s], minted + 1) ELSE NoRing]
<1>1. rotated = Rotated(c.file, minted + 1)
      BY DEF Rotated
<1>2. scopes # {} => \E s \in Scope : HoldsScope(c.file, s)
      OBVIOUS
<1> QED BY <1>1, <1>2 DEF SaveRotated, UnchangedFile

\* storage key rotate saves the keys it minted.
LEMMA SaveRotatedType ==
    ASSUME StateType, NEW p \in Command, SaveRotated(p)
    PROVE  StateType'
<1> DEFINE c == cmd[p]
           m == MachineOf[p]
           k == minted + 1
           held == StillUsing(Rotated(c.file, k), c.file)
           e == [c EXCEPT !.pc = "read", !.keys = Rotated(c.file, k), !.file = held,
                          !.previous = [s \in Scope |-> c.file[s].active],
                          !.metaGen = recorded[m], !.highest = recorded[m]]
<1>1. /\ c.pc = "save" /\ c.kind = "rotate" /\ k \in Key /\ minted' = k
      /\ UNCHANGED <<fleetVars, recorded, keeperVars, boundVars>>
      /\ \/ /\ keyring' = [keyring EXCEPT ![m] = held]
            /\ \/ cmd' = [cmd EXCEPT ![p] = Idle]
               \/ /\ \E s \in Scope : HoldsScope(c.file, s)
                  /\ cmd' = [cmd EXCEPT ![p] = e]
         \/ UNCHANGED keyring /\ cmd' = [cmd EXCEPT ![p] = Idle]
      BY SaveRotatedMoves
<1>2. c \in CommandState /\ CommandSound(c) /\ c.file \in Rings /\ m \in Machine
      BY HandOverAssumption DEF StateType, CommandState
<1>3. PICK new \in Rings, old \in Rings : new = Rotated(c.file, k) /\ old = held
      BY <1>1, <1>2, RotatedTypes
<1>4. PICK g \in Nat : g = recorded[m]
      BY <1>2 DEF StateType
<1>5. PICK previous \in [Scope -> Key \union {NoKey}] :
        previous = [s \in Scope |-> c.file[s].active]
      <2>1. \A s \in Scope : c.file[s].active \in Key \union {NoKey}
            BY <1>2, RingFacts
      <2> QED BY <2>1
<1>6. e = [c EXCEPT !.pc = "read", !.keys = new, !.file = old, !.previous = previous,
                    !.metaGen = g, !.highest = g]
      BY <1>3, <1>4, <1>5
<1>7. PICK f \in CommandState : f = [c EXCEPT !.pc = "read", !.keys = new, !.file = old]
      BY <1>2 DEF CommandState, Steps
<1>8. e = [f EXCEPT !.previous = previous, !.metaGen = g, !.highest = g]
      BY <1>2, <1>6, <1>7 DEF CommandState
<1> HIDE DEF e, held
<1>9. /\ e \in CommandState /\ e.pc = "read" /\ e.kind = c.kind /\ e.round = c.round
      /\ e.keys = new /\ e.file = old /\ e.previous = previous /\ e.next = c.next
      /\ e.activated = c.activated
      BY ZenonT(40), <1>2, <1>7, <1>8 DEF CommandState
<1>10. keyring' \in [Machine -> Rings] /\ minted' \in Nat
      BY <1>1, <1>2, <1>3, KeyAssumption DEF StateType
<1>11. CASE cmd' = [cmd EXCEPT ![p] = Idle]
      BY <1>1, <1>10, <1>11, IdleSound, CommandMoves, Unmoved DEF StateType
<1>12. CASE cmd' = [cmd EXCEPT ![p] = e] /\ \E s \in Scope : HoldsScope(c.file, s)
      <2>1. PICK s \in Scope : HoldsScope(c.file, s)
            BY <1>12
      <2>2. HoldsScope(new, s) /\ previous[s] # NoKey
            BY <2>1, <1>1, <1>2, <1>3, <1>5, RotatedTypes, RingFacts DEF HoldsScope
      <2>3. SameHeld(old, new)
            BY <1>1, <1>2, <1>3, RotatedTypes DEF held
      <2>4. c.next = 0 /\ c.round = 1 /\ ~c.activated
            BY <1>1, <1>2 DEF CommandSound
      <2>5. RotationSound(e)
            BY <2>2, <2>3, <2>4, <1>9 DEF RotationSound
      <2>6. CommandSound(e)
            BY <2>4, <2>5, <1>1, <1>9, NothingTypes DEF CommandSound
      <2> QED BY <2>6, <1>1, <1>10, <1>12, CommandMoves, Unmoved DEF StateType
<1> QED BY <1>1, <1>11, <1>12

\* run saves the scope it minted.
LEMMA SaveScopeType ==
    ASSUME StateType, NEW p \in Command, NEW s \in Scope, SaveScope(p, s)
    PROVE  StateType'
<1> DEFINE m == MachineOf[p]
           k == minted + 1
<1>1. PICK c \in CommandState : c = cmd[p] /\ CommandSound(c)
      BY DEF StateType
<1>2. /\ c.pc = "save" /\ c.kind = "run" /\ k \in Key /\ minted' = k
      /\ UNCHANGED <<fleetVars, recorded, keeperVars, boundVars>>
      /\ \/ /\ keyring' = [keyring EXCEPT ![m][s] = MintedRing(k)]
            /\ cmd' = [cmd EXCEPT ![p] = [c EXCEPT !.pc = "load"]]
         \/ UNCHANGED keyring /\ cmd' = [cmd EXCEPT ![p] = Idle]
      BY <1>1 DEF SaveScope
<1>3. m \in Machine
      BY HandOverAssumption
<1>4. keyring' \in [Machine -> Rings] /\ minted' \in Nat
      <2>1. MintedRing(k) \in Ring
            BY <1>2 DEF MintedRing, Ring
      <2>2. PICK rings \in Rings : rings = keyring[m]
            BY <1>3 DEF StateType
      <2>3. [rings EXCEPT ![s] = MintedRing(k)] \in Rings
            BY <2>1 DEF Rings
      <2>4. CASE keyring' = [keyring EXCEPT ![m][s] = MintedRing(k)]
            BY <1>2, <1>3, <2>2, <2>3, <2>4, KeyAssumption DEF StateType
      <2>5. CASE UNCHANGED keyring
            BY <1>2, <2>5, KeyAssumption DEF StateType
      <2> QED BY <1>2, <2>4, <2>5
<1>5. CASE cmd' = [cmd EXCEPT ![p] = Idle]
      BY <1>2, <1>4, <1>5, IdleSound, CommandMoves, Unmoved DEF StateType
<1>6. CASE cmd' = [cmd EXCEPT ![p] = [c EXCEPT !.pc = "load"]]
      <2>1. PICK e : e = [c EXCEPT !.pc = "load"]
            OBVIOUS
      <2>2. /\ e \in CommandState /\ e.pc = "load" /\ e.kind = c.kind /\ e.round = c.round
            /\ e.next = c.next /\ e.activated = c.activated
            BY <2>1 DEF CommandState, Steps
      <2>3. CommandSound(e)
            BY <2>2, <1>1, <1>2 DEF CommandSound
      <2> QED BY <2>1, <2>3, <1>2, <1>4, <1>6, CommandMoves, Unmoved DEF StateType
<1> QED BY <1>2, <1>5, <1>6

\* run reads the keyring again.
LEMMA LoadKeysType ==
    ASSUME StateType, NEW p \in Command, LoadKeys(p)
    PROVE  StateType'
<1>1. PICK c \in CommandState : c = cmd[p] /\ CommandSound(c)
      BY DEF StateType
<1>2. PICK ring \in Rings : ring = keyring[MachineOf[p]]
      BY HandOverAssumption DEF StateType
<1>3. PICK e : e = [c EXCEPT !.pc = "read", !.keys = ring]
      OBVIOUS
<1>4. c.pc = "load" /\ cmd' = [cmd EXCEPT ![p] = e]
      BY <1>1, <1>2, <1>3 DEF LoadKeys, StateType
<1>5. /\ e \in CommandState /\ e.pc = "read" /\ e.kind = c.kind /\ e.round = c.round
      /\ e.next = c.next /\ e.activated = c.activated
      BY <1>3 DEF CommandState, Steps
<1>6. CommandSound(e)
      BY <1>1, <1>4, <1>5, NothingTypes DEF CommandSound
<1>7. UNCHANGED <<fleetVars, machineVars, keeperVars>>
      BY DEF LoadKeys
<1> QED BY <1>4, <1>6, <1>7, CommandMoves, Unmoved DEF StateType

\* The command once it has asked replica r, which answered a.
AskedOf(c, r, a) ==
    [c EXCEPT !.states[r] = a, !.next = r + 1, !.highest = Max2(@, a.generation)]

\* What asking one replica changes in the command.
LEMMA AskedType ==
    ASSUME NEW c, CommandSound(c), c.pc = "read", NEW a \in Answer,
           NEW d, d = AskedOf(c, c.next, a)
    PROVE  /\ d \in CommandState /\ d.kind = c.kind /\ d.round = c.round /\ d.pc = "read"
           /\ d.next = c.next + 1
           /\ d.keys = c.keys /\ d.file = c.file /\ d.held = c.held
           /\ d.previous = c.previous /\ d.activated = c.activated
           /\ d.states[c.next] = a
           /\ \A r \in Replica : r # c.next => d.states[r] = c.states[r]
           /\ d.loaded = c.loaded /\ d.heldLoaded = c.heldLoaded /\ d.refused = c.refused
           /\ d.leaveSealed = c.leaveSealed
<1>1. c \in CommandState /\ c.next \in Replica /\ c.next \in Nat
      BY DEF CommandSound, Replica
<1>2. PICK states \in [Replica -> Answer] : states = [c.states EXCEPT ![c.next] = a]
      BY <1>1 DEF CommandState
<1>3. PICK n \in Nat : n = c.next + 1
      BY <1>1
<1>4. PICK g \in Nat : g = Max2(c.highest, a.generation)
      BY <1>1, AnswerTypes DEF Max2, CommandState
<1>5. d = [c EXCEPT !.states = states, !.next = n, !.highest = g]
      BY <1>1, <1>2, <1>3, <1>4 DEF AskedOf, CommandState
<1>6. /\ d \in CommandState /\ d.kind = c.kind /\ d.round = c.round /\ d.pc = c.pc
      /\ d.next = n /\ d.states = states
      /\ d.keys = c.keys /\ d.file = c.file /\ d.held = c.held
      /\ d.previous = c.previous /\ d.activated = c.activated
      /\ d.loaded = c.loaded /\ d.heldLoaded = c.heldLoaded /\ d.refused = c.refused
      /\ d.leaveSealed = c.leaveSealed
      BY ZenonT(40), <1>1, <1>5 DEF CommandState
<1>7. states[c.next] = a /\ \A r \in Replica : r # c.next => states[r] = c.states[r]
      <2>1. c.states \in [Replica -> Answer]
            BY <1>1 DEF CommandState
      <2> QED BY <2>1, <1>1, <1>2
<1> QED BY <1>3, <1>6, <1>7

\* What ReadReplica does, in terms of AskedOf.
LEMMA ReadReplicaMoves ==
    ASSUME StateType, NEW p \in Command, NEW answered \in BOOLEAN, ReadReplica(p, answered)
    PROVE  LET c == cmd[p]
               a == IF answered THEN vault[c.next] ELSE Silent
               d == AskedOf(c, c.next, a) IN
           /\ c.pc = "read" /\ c.next \in Replica /\ a \in Answer
           /\ UNCHANGED <<fleetVars, machineVars, keeperVars, commands, events>>
           /\ \/ c.next + 1 < Replicas /\ cmd' = [cmd EXCEPT ![p] = d]
              \/ /\ ~(c.next + 1 < Replicas) /\ c.round = 1
                 /\ \E e \in Planned(d) : cmd' = [cmd EXCEPT ![p] = e]
              \/ /\ ~(c.next + 1 < Replicas) /\ c.round = 2
                 /\ \E e \in Replanned(d) : cmd' = [cmd EXCEPT ![p] = e]
<1> DEFINE c == cmd[p]
           a == IF answered THEN vault[c.next] ELSE Silent
           d == AskedOf(c, c.next, a)
<1>1. /\ c.pc = "read"
      /\ UNCHANGED <<fleetVars, machineVars, keeperVars, commands, events>>
      /\ \E e \in IF c.next + 1 < Replicas THEN {d}
                ELSE IF c.round = 1 THEN Planned(d) ELSE Replanned(d) :
           cmd' = [cmd EXCEPT ![p] = e]
      BY DEF ReadReplica, AskedOf
<1>2. c.next \in Replica /\ c.round \in {1, 2}
      BY <1>1 DEF StateType, CommandSound, CommandState
<1>3. a \in Answer
      BY <1>2, NothingTypes, AnswerTypes DEF StateType
<1>4. CASE c.next + 1 < Replicas
      BY <1>1, <1>2, <1>3, <1>4
<1>5. CASE ~(c.next + 1 < Replicas) /\ c.round = 1
      BY <1>1, <1>2, <1>3, <1>5
<1>6. CASE ~(c.next + 1 < Replicas) /\ c.round = 2
      BY <1>1, <1>2, <1>3, <1>6
<1> QED BY <1>2, <1>4, <1>5, <1>6

\* A command asks a replica.
LEMMA ReadReplicaType ==
    ASSUME StateType, NEW p \in Command, NEW answered \in BOOLEAN, ReadReplica(p, answered)
    PROVE  StateType'
<1>1. PICK c : c = cmd[p] /\ CommandSound(c)
      BY DEF StateType
<1>2. PICK a : a = IF answered THEN vault[c.next] ELSE Silent
      OBVIOUS
<1>3. PICK d : d = AskedOf(c, c.next, a)
      OBVIOUS
<1>4. /\ c.pc = "read" /\ c.next \in Replica /\ a \in Answer
      /\ UNCHANGED <<fleetVars, machineVars, keeperVars, commands, events>>
      /\ \/ c.next + 1 < Replicas /\ cmd' = [cmd EXCEPT ![p] = d]
         \/ c.round = 1 /\ \E e \in Planned(d) : cmd' = [cmd EXCEPT ![p] = e]
         \/ c.round = 2 /\ \E e \in Replanned(d) : cmd' = [cmd EXCEPT ![p] = e]
      BY <1>1, <1>2, <1>3, ReadReplicaMoves
<1>5. /\ d \in CommandState /\ d.kind = c.kind /\ d.round = c.round /\ d.pc = "read"
      /\ d.next = c.next + 1
      /\ d.keys = c.keys /\ d.file = c.file /\ d.held = c.held
      /\ d.previous = c.previous /\ d.activated = c.activated
      <2>1. CommandSound(c) /\ c.pc = "read" /\ a \in Answer
            BY <1>1, <1>4
      <2>2. d = AskedOf(c, c.next, a)
            BY <1>3
      <2> QED BY ONLY <2>1, <2>2, AskedType
<1>6. d.kind = "rotate" => RotationSound(d)
      BY <1>1, <1>4, <1>5 DEF CommandSound, RotationSound
<1>7. d.activated => d.round = 2
      BY <1>1, <1>5 DEF CommandSound
<1>8. \E e : CommandSound(e) /\ cmd' = [cmd EXCEPT ![p] = e]
      <2>1. CASE c.next + 1 < Replicas /\ cmd' = [cmd EXCEPT ![p] = d]
            <3>1. d.next \in Replica
                  BY <1>4, <1>5, <2>1, PlanAssumption DEF Replica
            <3> QED BY <2>1, <3>1, <1>5, <1>6, <1>7 DEF CommandSound
      <2>2. CASE c.round = 1 /\ \E e \in Planned(d) : cmd' = [cmd EXCEPT ![p] = e]
            <3>1. PICK e \in Planned(d) : cmd' = [cmd EXCEPT ![p] = e]
                  BY <2>2
            <3>2. d.round = 1 /\ ~d.activated
                  BY <2>2, <1>5, <1>7
            <3>3. CommandSound(e)
                  BY <3>2, <1>5, <1>6, PlannedSound
            <3> QED BY <3>1, <3>3
      <2>3. CASE c.round = 2 /\ \E e \in Replanned(d) : cmd' = [cmd EXCEPT ![p] = e]
            <3>1. PICK e \in Replanned(d) : cmd' = [cmd EXCEPT ![p] = e]
                  BY <2>3
            <3>2. CommandSound(e)
                  BY <2>3, <1>5, <1>6, ReplannedSound
            <3> QED BY <3>1, <3>2
      <2> QED BY <1>4, <2>1, <2>2, <2>3
<1> QED BY <1>4, <1>8, CommandMoves, Unmoved DEF StateType

\* A rotation replaces its file and begins a push, or finds it changed.
LEMMA SaveSound ==
    ASSUME NEW c, CommandSound(c), c.kind = "rotate", c.pc \in {"hold", "activate"},
           NEW ring \in Rings, SameHeld(ring, c.keys)
    PROVE  CommandSound(StartPush([c EXCEPT !.file = ring])) /\ CommandSound(Stop(c))
<1>1. c \in CommandState /\ RotationSound(c) /\ (c.activated => c.round = 2)
      BY DEF CommandSound
<1>2. PICK f : f = [c EXCEPT !.file = ring]
      OBVIOUS
<1>3. /\ f \in CommandState /\ f.kind = c.kind /\ f.round = c.round /\ f.pc = c.pc
      /\ f.keys = c.keys /\ f.file = ring /\ f.held = c.held
      /\ f.previous = c.previous /\ f.activated = c.activated
      BY <1>1, <1>2 DEF CommandState
<1>4. RotationSound(f) /\ SameHeld(f.held, f.keys)
      BY <1>1, <1>3 DEF RotationSound, CommandSound
<1>5. CommandSound(StartPush(f))
      BY <1>1, <1>3, <1>4, StartPushSound
<1>6. CommandSound(Stop(c))
      BY <1>1, StopSound
<1> QED BY <1>2, <1>5, <1>6

\* beforeHold.
LEMMA SaveHeldType ==
    ASSUME StateType, NEW p \in Command, SaveHeld(p)
    PROVE  StateType'
<1>1. PICK c \in CommandState : c = cmd[p] /\ CommandSound(c)
      BY DEF StateType
<1>2. /\ c.pc = "hold" /\ UNCHANGED <<fleetVars, recorded, minted, keeperVars>>
      /\ \/ /\ keyring' = [keyring EXCEPT ![MachineOf[p]] = c.held]
            /\ cmd' = [cmd EXCEPT ![p] = StartPush([c EXCEPT !.file = c.held])]
         \/ UNCHANGED keyring /\ cmd' = [cmd EXCEPT ![p] = Stop(c)]
      BY <1>1 DEF SaveHeld
<1>3. c.kind = "rotate" /\ c.held \in Rings /\ SameHeld(c.held, c.keys)
      BY <1>1, <1>2 DEF CommandSound, RotationSound, CommandState
<1>4. keyring' \in [Machine -> Rings]
      BY <1>2, <1>3 DEF StateType
<1>5. \E e : CommandSound(e) /\ cmd' = [cmd EXCEPT ![p] = e]
      BY <1>1, <1>2, <1>3, SaveSound
<1> QED BY <1>2, <1>4, <1>5, CommandMoves, Unmoved DEF StateType

\* beforeActivate.
LEMMA SaveActiveType ==
    ASSUME StateType, NEW p \in Command, SaveActive(p)
    PROVE  StateType'
<1>1. PICK c \in CommandState : c = cmd[p] /\ CommandSound(c)
      BY DEF StateType
<1>2. /\ c.pc = "activate" /\ UNCHANGED <<fleetVars, recorded, minted, keeperVars>>
      /\ \/ /\ keyring' = [keyring EXCEPT ![MachineOf[p]] = c.keys]
            /\ cmd' = [cmd EXCEPT ![p] = StartPush([c EXCEPT !.file = c.keys])]
         \/ UNCHANGED keyring /\ cmd' = [cmd EXCEPT ![p] = Stop(c)]
      BY <1>1 DEF SaveActive
<1>3. c.kind = "rotate" /\ c.keys \in Rings /\ SameHeld(c.keys, c.keys)
      BY <1>1, <1>2 DEF CommandSound, SameHeld, CommandState
<1>4. keyring' \in [Machine -> Rings]
      BY <1>2, <1>3 DEF StateType
<1>5. \E e : CommandSound(e) /\ cmd' = [cmd EXCEPT ![p] = e]
      BY <1>1, <1>2, <1>3, SaveSound
<1> QED BY <1>2, <1>4, <1>5, CommandMoves, Unmoved DEF StateType

\* A push passes a replica over.
LEMMA PassOverType ==
    ASSUME StateType, NEW p \in Command, PassOver(p)
    PROVE  StateType'
<1>1. PICK c : c = cmd[p] /\ CommandSound(c)
      BY DEF StateType
<1>2. /\ c.pc = "push" /\ UNCHANGED <<fleetVars, machineVars, keeperVars>>
      /\ \E where : cmd' = [cmd EXCEPT ![p] = PushedTo(c, c.next, where)]
      BY <1>1 DEF PassOver
<1> QED BY <1>1, <1>2, PushedToSound, CommandMoves, Unmoved DEF StateType

\* A push is answered.
LEMMA PushReplicaType ==
    ASSUME StateType, NEW p \in Command, PushReplica(p)
    PROVE  StateType'
<1>1. PICK c : c = cmd[p] /\ CommandSound(c)
      BY DEF StateType
<1>2. /\ c.pc = "push" /\ UNCHANGED <<late, machineVars, keeperVars>>
      /\ vault' = [vault EXCEPT ![c.next] = UnsealVault(vault[c.next], Sent(c).bundle, Sent(c).intent)]
      /\ \E where : cmd' = [cmd EXCEPT ![p] = PushedTo(c, c.next, where)]
      BY <1>1 DEF PushReplica
<1>3. Sent(c).bundle \in BundleOf({Instance}) /\ Sent(c).intent \in Intent /\ c.next \in Replica
      BY <1>1, <1>2, SentType DEF InFlight, CommandSound
<1>4. vault' \in [Replica -> VaultState] /\ late' \in [Replica -> SUBSET InFlight]
      BY <1>2, <1>3, VaultTypes DEF StateType
<1> QED BY <1>1, <1>2, <1>4, PushedToSound, CommandMoves, Unmoved DEF StateType

\* A push fails for its caller.
LEMMA PushFailsType ==
    ASSUME StateType, NEW p \in Command, NEW how, PushFails(p, how)
    PROVE  StateType'
<1>1. PICK c : c = cmd[p] /\ CommandSound(c)
      BY DEF StateType
<1>2. /\ c.pc = "push" /\ UNCHANGED <<machineVars, keeperVars>>
      /\ vault' = IF how = "answer lost"
           THEN [vault EXCEPT ![c.next] = UnsealVault(vault[c.next], Sent(c).bundle, Sent(c).intent)]
           ELSE vault
      /\ late' = IF how = "late" THEN [late EXCEPT ![c.next] = late[c.next] \union {Sent(c)}] ELSE late
      /\ cmd' = [cmd EXCEPT ![p] = PushedTo(c, c.next, "refused")]
      BY <1>1 DEF PushFails
<1>3. /\ Sent(c).bundle \in BundleOf({Instance}) /\ Sent(c).intent \in Intent /\ c.next \in Replica
      /\ Sent(c) \in InFlight
      BY <1>1, <1>2, SentType DEF InFlight, CommandSound
<1>4. vault' \in [Replica -> VaultState]
      BY <1>2, <1>3, VaultTypes DEF StateType
<1>5. late' \in [Replica -> SUBSET InFlight]
      BY <1>2, <1>3 DEF StateType
<1> QED BY <1>1, <1>2, <1>4, <1>5, PushedToSound, CommandMoves, Unmoved DEF StateType

\* A command that asks what a replica ended up with.
LEMMA ConfirmMoves ==
    ASSUME StateType, NEW p \in Command, NEW r \in Replica, NEW answered \in BOOLEAN,
           ConfirmReplica(p, r, answered)
    PROVE  \E e \in CommandState :
             /\ cmd' = [cmd EXCEPT ![p] = e]
             /\ cmd[p].pc = "confirm" /\ e.pc \in {"record", "confirm"}
             /\ e.kind = cmd[p].kind /\ e.round = cmd[p].round /\ e.activated = cmd[p].activated
             /\ e.keys = cmd[p].keys /\ e.file = cmd[p].file /\ e.held = cmd[p].held
             /\ e.previous = cmd[p].previous
<1>1. PICK c \in CommandState : c = cmd[p]
      BY DEF StateType
<1>2. PICK ask \in SUBSET Replica, pc \in {"record", "confirm"} :
        /\ ask = c.toConfirm \ {r}
        /\ pc = IF c.toConfirm = {r} THEN "record" ELSE "confirm"
      BY DEF CommandState
<1>3. PICK d : d = [c EXCEPT !.toConfirm = ask, !.pc = pc]
      OBVIOUS
<1>4. /\ d \in CommandState /\ d.pc \in {"record", "confirm"} /\ d.kind = c.kind
      /\ d.round = c.round /\ d.activated = c.activated
      /\ d.keys = c.keys /\ d.file = c.file /\ d.held = c.held /\ d.previous = c.previous
      BY <1>3 DEF CommandState, Steps
<1>5. PICK un \in SUBSET Replica, rs \in SUBSET Replica, ls \in SUBSET Replica, g \in Nat :
        /\ un = d.unconfirmed \union {r} /\ rs = d.refused \ {r} /\ ls = d.loaded \union {r}
        /\ g = Max2(d.taken, vault[r].generation)
      BY <1>4 DEF CommandState, StateType, VaultState, Max2
<1>6. \E e : /\ \/ e = [d EXCEPT !.unconfirmed = un]
                \/ e = [d EXCEPT !.refused = rs, !.loaded = ls, !.taken = g]
                \/ e = d
             /\ cmd' = [cmd EXCEPT ![p] = e] /\ c.pc = "confirm"
      BY <1>1, <1>2, <1>3, <1>5 DEF ConfirmReplica
<1>7. PICK e : /\ \/ e = [d EXCEPT !.unconfirmed = un]
                  \/ e = [d EXCEPT !.refused = rs, !.loaded = ls, !.taken = g]
                  \/ e = d
               /\ cmd' = [cmd EXCEPT ![p] = e] /\ c.pc = "confirm"
      BY <1>6
<1>8. /\ e \in CommandState /\ e.pc = d.pc /\ e.kind = d.kind
      /\ e.round = d.round /\ e.activated = d.activated
      /\ e.keys = d.keys /\ e.file = d.file /\ e.held = d.held /\ e.previous = d.previous
      <2>1. CASE e = [d EXCEPT !.unconfirmed = un]
            BY <1>4, <2>1 DEF CommandState
      <2>2. CASE e = [d EXCEPT !.refused = rs, !.loaded = ls, !.taken = g]
            BY <1>4, <2>2 DEF CommandState
      <2>3. CASE e = d
            BY <1>4, <2>3
      <2> QED BY <1>7, <2>1, <2>2, <2>3
<1> QED BY <1>1, <1>4, <1>7, <1>8

\* confirmRefused.
LEMMA ConfirmReplicaType ==
    ASSUME StateType, NEW p \in Command, NEW r \in Replica, NEW answered \in BOOLEAN,
           ConfirmReplica(p, r, answered)
    PROVE  StateType'
<1>1. PICK c : c = cmd[p] /\ CommandSound(c)
      BY DEF StateType
<1>2. PICK e \in CommandState :
        /\ cmd' = [cmd EXCEPT ![p] = e]
        /\ c.pc = "confirm" /\ e.pc \in {"record", "confirm"}
        /\ e.kind = c.kind /\ e.round = c.round /\ e.activated = c.activated
        /\ e.keys = c.keys /\ e.file = c.file /\ e.held = c.held /\ e.previous = c.previous
      BY <1>1, ConfirmMoves
<1>3. CommandSound(e)
      BY <1>1, <1>2 DEF CommandSound, RotationSound
<1>4. UNCHANGED <<fleetVars, machineVars, keeperVars>>
      BY DEF ConfirmReplica
<1> QED BY <1>2, <1>3, <1>4, CommandMoves, Unmoved DEF StateType

\* record.
LEMMA RecordType ==
    ASSUME StateType, NEW p \in Command, Record(p)
    PROVE  StateType'
<1>1. PICK c \in CommandState : c = cmd[p] /\ CommandSound(c)
      BY DEF StateType
<1>2. PICK e : e = [c EXCEPT !.pc = "fallback"]
      OBVIOUS
<1>3. /\ c.pc = "record" /\ UNCHANGED <<fleetVars, keyring, minted, keeperVars>>
      /\ \/ recorded' = recorded
         \/ recorded' = [recorded EXCEPT ![MachineOf[p]] = c.taken]
      /\ \/ cmd' = [cmd EXCEPT ![p] = Idle]
         \/ c.kind = "rotate" /\ c.activated /\ cmd' = [cmd EXCEPT ![p] = e]
      BY <1>1, <1>2 DEF Record
<1>4. recorded' \in [Machine -> Nat]
      BY <1>3 DEF StateType, CommandState
<1>5. /\ e \in CommandState /\ e.pc = "fallback" /\ e.kind = c.kind /\ e.round = c.round
      /\ e.activated = c.activated /\ e.keys = c.keys /\ e.file = c.file /\ e.held = c.held
      /\ e.previous = c.previous
      BY <1>2 DEF CommandState, Steps
<1>6. c.kind = "rotate" /\ c.activated => CommandSound(e)
      BY <1>1, <1>3, <1>5 DEF CommandSound, RotationSound
<1> QED BY <1>3, <1>4, <1>6, IdleSound, CommandMoves, Unmoved DEF StateType

\* A rotation goes back to the keys the replicas use.
LEMMA PutBackType ==
    ASSUME StateType, NEW p \in Command, PutBack(p)
    PROVE  StateType'
<1>1. /\ UNCHANGED <<fleetVars, recorded, minted, keeperVars>>
      /\ cmd' = [cmd EXCEPT ![p] = Idle]
      /\ keyring' = keyring \/ keyring' = [keyring EXCEPT ![MachineOf[p]] = cmd[p].held]
      BY DEF PutBack
<1>2. cmd[p].held \in Rings
      BY DEF StateType, CommandState
<1>3. keyring' \in [Machine -> Rings]
      BY <1>1, <1>2 DEF StateType
<1> QED BY <1>1, <1>3, IdleSound, CommandMoves, Unmoved DEF StateType

\* A command is killed.
LEMMA KillType ==
    ASSUME StateType, NEW p \in Command, Kill(p)
    PROVE  StateType'
<1>1. UNCHANGED <<fleetVars, machineVars, keeperVars>> /\ cmd' = [cmd EXCEPT ![p] = Idle]
      BY DEF Kill
<1> QED BY <1>1, IdleSound, CommandMoves, Unmoved DEF StateType

\* What an import makes of a machine's scope.
LEMMA MergedTypes ==
    ASSUME NEW mine \in Rings, NEW other \in Rings, NEW s \in Scope
    PROVE  /\ MergedRing(mine[s], other[s]) \in Ring \union {NoRing}
           /\ MergedRing(mine[s], other[s]).held = mine[s].held \union other[s].held
           /\ mine[s].held # {} => MergedRing(mine[s], other[s]).active = mine[s].active
           /\ mine[s].held = {} => MergedRing(mine[s], other[s]).active = other[s].active
<1>1. mine[s] \in Ring \union {NoRing} /\ other[s] \in Ring \union {NoRing}
      BY DEF Rings
<1>2. CASE mine[s].held = {}
      BY <1>1, <1>2 DEF MergedRing
<1>3. CASE mine[s].held # {}
      <2>1. mine[s] \in Ring /\ other[s].held \subseteq Key
            BY <1>1, <1>3, RingFacts DEF NoRing
      <2>2. MergedRing(mine[s], other[s])
              = [active |-> mine[s].active, held |-> mine[s].held \union other[s].held]
            BY <1>3, <2>1 DEF MergedRing, Ring
      <2> QED BY <1>3, <2>1, <2>2 DEF Ring
<1> QED BY <1>2, <1>3

\* storage key import.
LEMMA ImportType ==
    ASSUME StateType, NEW m \in Machine, NEW from \in Machine, ImportKeys(m, from)
    PROVE  StateType'
<1>1. PICK new : new = [s \in Scope |-> MergedRing(keyring[m][s], keyring[from][s])]
      OBVIOUS
<1>2. /\ keyring' = [keyring EXCEPT ![m] = new]
      /\ UNCHANGED <<fleetVars, recorded, minted, cmd, keeperVars>>
      BY <1>1 DEF ImportKeys
<1>3. keyring[m] \in Rings /\ keyring[from] \in Rings
      BY DEF StateType
<1>4. new \in Rings
      BY <1>1, <1>3, MergedTypes DEF Rings
<1>5. keyring' \in [Machine -> Rings]
      BY <1>2, <1>4 DEF StateType
<1> QED BY <1>2, <1>5, Unmoved DEF StateType

\* A step of one keeper leaves the others as they are.
LEMMA PassMoves ==
    ASSUME StateType, NEW k \in Keeper, NEW a, PassSound(a), pass' = [pass EXCEPT ![k] = a]
    PROVE  pass' \in [Keeper -> PassState] /\ \A j \in Keeper : PassSound(pass[j])'
BY DEF StateType, PassSound

\* keeper enroll.
LEMMA EnrolType ==
    ASSUME StateType, NEW k \in Keeper, NEW m \in Machine, Enrol(k, m)
    PROVE  StateType'
<1>1. PICK b : b = [instance |-> Instance, generation |-> recorded[m], rings |-> keyring[m]]
      OBVIOUS
<1>2. b \in BundleOf({Instance})
      BY <1>1 DEF StateType, BundleOf
<1>3. /\ bundle' = [bundle EXCEPT ![k] = b]
      /\ UNCHANGED <<fleetVars, machineVars, cmd, pass>>
      BY <1>1 DEF Enrol
<1>4. bundle' \in [Keeper -> BundleOf({Instance})] /\ pass' \in [Keeper -> PassState]
      BY <1>2, <1>3 DEF StateType
<1>5. \A j \in Keeper : PassSound(pass[j])'
      BY <1>3 DEF StateType, PassSound
<1> QED BY <1>3, <1>4, <1>5, Unmoved DEF StateType

\* A keeper asks a replica.
LEMMA KeeperReadType ==
    ASSUME StateType, NEW k \in Keeper, NEW answered \in BOOLEAN, KeeperRead(k, answered)
    PROVE  StateType'
<1>1. PICK b : b = pass[k] /\ PassSound(b)
      BY DEF StateType
<1>2. b.next \in Replica /\ b.next \in Nat /\ b.states \in [Replica -> Answer]
      BY <1>1 DEF PassSound, PassState, Replica
<1>3. PICK a \in Answer : a = IF answered THEN vault[b.next] ELSE Silent
      BY <1>2, NothingTypes, AnswerTypes DEF StateType
<1>4. PICK states \in [Replica -> Answer] : states = [b.states EXCEPT ![b.next] = a]
      BY <1>2
<1>5. PICK e : e = IF b.next + 1 < Replicas
                     THEN [pc |-> "read", states |-> states, next |-> b.next + 1]
                     ELSE [pc |-> "push", states |-> states, next |-> 0]
      OBVIOUS
<1>6. pass' = [pass EXCEPT ![k] = e] /\ UNCHANGED <<fleetVars, machineVars, cmd, bundle>>
      BY <1>1, <1>3, <1>4, <1>5 DEF KeeperRead
<1>7. PassSound(e)
      <2>1. CASE b.next + 1 < Replicas
            <3>1. b.next + 1 \in Replica /\ b.next + 1 \in Nat
                  BY <1>2, <2>1, PlanAssumption DEF Replica
            <3> QED BY <3>1, <1>5, <2>1 DEF PassSound, PassState
      <2>2. CASE ~(b.next + 1 < Replicas)
            BY <1>5, <2>2, NothingTypes DEF PassSound, PassState
      <2> QED BY <2>1, <2>2
<1>8. bundle' \in [Keeper -> BundleOf({Instance})]
      BY <1>6 DEF StateType
<1> QED BY <1>6, <1>7, <1>8, PassMoves, Unmoved DEF StateType

\* A keeper goes on to the next replica, or rests.
LEMMA DecidedType ==
    ASSUME StateType, NEW k \in Keeper, Decided(k)
    PROVE  pass' \in [Keeper -> PassState] /\ \A j \in Keeper : PassSound(pass[j])'
<1>1. PICK b : b = pass[k] /\ PassSound(b)
      BY DEF StateType
<1>2. b \in PassState /\ b.next \in Replica /\ b.next \in Nat
      BY <1>1 DEF PassSound, Replica
<1>3. PICK e : e = IF b.next + 1 < Replicas THEN [b EXCEPT !.next = b.next + 1] ELSE Resting
      OBVIOUS
<1>4. pass' = [pass EXCEPT ![k] = e]
      <2>1. CASE b.next + 1 < Replicas
            BY <1>1, <1>3, <2>1 DEF Decided
      <2>2. CASE ~(b.next + 1 < Replicas)
            BY <1>1, <1>3, <2>2 DEF Decided
      <2> QED BY <2>1, <2>2
<1>5. PassSound(e)
      <2>1. CASE b.next + 1 < Replicas
            <3>1. b.next + 1 \in Replica /\ b.next + 1 \in Nat
                  BY <1>2, <2>1, PlanAssumption DEF Replica
            <3> QED BY <3>1, <1>2, <1>3, <2>1 DEF PassSound, PassState
      <2>2. CASE ~(b.next + 1 < Replicas)
            BY <1>3, <2>2, RestingSound
      <2> QED BY <2>1, <2>2
<1> QED BY <1>4, <1>5, PassMoves

\* A keeper leaves a replica alone.
LEMMA KeeperLeavesType ==
    ASSUME StateType, NEW k \in Keeper, NEW withinBudget, KeeperLeaves(k, withinBudget)
    PROVE  StateType'
<1>1. Decided(k) /\ UNCHANGED <<fleetVars, machineVars, cmd, bundle>>
      BY DEF KeeperLeaves
<1>2. bundle' \in [Keeper -> BundleOf({Instance})]
      BY <1>1 DEF StateType
<1> QED BY <1>1, <1>2, DecidedType, Unmoved DEF StateType

\* A keeper re-seeds a replica.
LEMMA KeeperReseedsType ==
    ASSUME StateType, NEW k \in Keeper, NEW how, KeeperReseeds(k, how)
    PROVE  StateType'
<1>1. PICK r : r = pass[k].next
      OBVIOUS
<1>2. PICK x : x = [bundle |-> bundle[k], intent |-> "restart-reseed"]
      OBVIOUS
<1>3. r \in Replica /\ x \in InFlight /\ x.bundle \in BundleOf({Instance}) /\ x.intent \in Intent
      BY <1>1, <1>2 DEF StateType, PassSound, InFlight, Intent
<1>4. /\ vault' = IF how = "answered" THEN [vault EXCEPT ![r] = UnsealVault(vault[r], x.bundle, x.intent)]
                                      ELSE vault
      /\ late' = IF how = "late" THEN [late EXCEPT ![r] = late[r] \union {x}] ELSE late
      /\ Decided(k) /\ UNCHANGED <<machineVars, cmd, bundle>>
      BY <1>1, <1>2 DEF KeeperReseeds
<1>5. vault' \in [Replica -> VaultState]
      BY <1>3, <1>4, VaultTypes DEF StateType
<1>6. late' \in [Replica -> SUBSET InFlight]
      BY <1>3, <1>4 DEF StateType
<1>7. bundle' \in [Keeper -> BundleOf({Instance})]
      BY <1>4 DEF StateType
<1> QED BY <1>4, <1>5, <1>6, <1>7, DecidedType, Unmoved DEF StateType

\* Restarts, seals, released holds and late pushes.
LEMMA ReplicaType ==
    ASSUME StateType, NEW r \in Replica, ReplicaStep(r)
    PROVE  StateType'
<1>1. UNCHANGED <<machineVars, cmd, keeperVars>>
      BY DEF ReplicaStep, Restart, ReleaseReplica, SealReplica, DeliverLate, Event
<1>2. vault[r] \in VaultState
      BY DEF StateType
<1>3. vault' \in [Replica -> VaultState] /\ late' \in [Replica -> SUBSET InFlight]
      <2>1. CASE Restart(r)
            BY <1>2, <2>1, VaultTypes DEF Restart, StateType
      <2>2. CASE ReleaseReplica(r)
            BY <1>2, <2>2, VaultTypes DEF ReleaseReplica, StateType
      <2>3. CASE \E hold \in BOOLEAN : SealReplica(r, hold)
            BY <1>2, <2>3, VaultTypes DEF SealReplica, StateType
      <2>4. CASE \E x \in late[r] : DeliverLate(r, x)
            <3>1. PICK x \in late[r] : DeliverLate(r, x)
                  BY <2>4
            <3>2. x.bundle \in BundleOf({Instance}) /\ x.intent \in Intent
                  <4>1. x \in InFlight
                        BY DEF StateType
                  <4> QED BY <4>1 DEF InFlight
            <3>3. UnsealVault(vault[r], x.bundle, x.intent) \in VaultState
                  BY <1>2, <3>2, VaultTypes
            <3> QED BY <3>1, <3>3 DEF DeliverLate, StateType
      <2> QED BY <2>1, <2>2, <2>3, <2>4 DEF ReplicaStep
<1> QED BY <1>1, <1>3, Unmoved DEF StateType

\* The instance as a first unseal leaves it.
LEMMA HandOverTypeInit == Init => HandOverType
<1> SUFFICES ASSUME Init PROVE HandOverType
    OBVIOUS
<1>1. FirstKeys \in Rings
      BY HandOverAssumption
<1>2. vault \in [Replica -> VaultState] /\ late \in [Replica -> SUBSET InFlight]
      BY <1>1 DEF Init, VaultState, Phase
<1>3. keyring \in [Machine -> Rings] /\ recorded \in [Machine -> Nat] /\ minted \in Nat
      BY <1>1 DEF Init
<1>4. cmd \in [Command -> CommandState] /\ \A p \in Command : CommandSound(cmd[p])
      <2>1. Idle \in CommandState
            BY IdleSound DEF CommandSound
      <2>2. cmd = [p \in Command |-> Idle]
            BY DEF Init
      <2> QED BY <2>1, <2>2, IdleSound
<1>5. bundle \in [Keeper -> BundleOf({Instance})]
      BY <1>1 DEF Init, BundleOf
<1>6. pass \in [Keeper -> PassState] /\ \A k \in Keeper : PassSound(pass[k])
      <2>1. Resting \in PassState
            BY RestingSound DEF PassSound
      <2>2. pass = [k \in Keeper |-> Resting]
            BY DEF Init
      <2> QED BY <2>1, <2>2, RestingSound
<1>7. written \in [Scope -> SUBSET Key]
      BY <1>1, RingFacts DEF Init
<1> QED BY <1>2, <1>3, <1>4, <1>5, <1>6, <1>7 DEF HandOverType, StateType

\* Every step keeps the types.
LEMMA HandOverTypeStep == HandOverType /\ [Next]_vars => HandOverType'
<1> SUFFICES ASSUME HandOverType, [Next]_vars PROVE HandOverType'
    OBVIOUS
<1> USE DEF HandOverType
<1>1. CASE UNCHANGED vars
      BY <1>1, Unmoved DEF vars, StateType, fleetVars, machineVars, keeperVars
<1>2. CASE Next
      <2>1. ASSUME NEW p \in Command, CommandStep(p)
            PROVE  StateType'
            BY <2>1, BeginUnsealType, BeginSavingType, SaveRotatedType, LoadKeysType,
               SaveHeldType, SaveActiveType, SaveScopeType, ReadReplicaType, PassOverType,
               PushReplicaType, PushFailsType, ConfirmReplicaType, RecordType, PutBackType,
               KillType DEF CommandStep
      <2>2. ASSUME NEW k \in Keeper, KeeperStep(k)
            PROVE  StateType'
            BY <2>2, EnrolType, KeeperReadType, KeeperLeavesType, KeeperReseedsType
               DEF KeeperStep
      <2>3. StateType'
            BY <1>2, <2>1, <2>2, ReplicaType, ImportType DEF Next
      <2>4. Writes
            BY <1>2 DEF Next, Background
      <2> QED BY <2>3, <2>4, WritesType
<1> QED BY <1>1, <1>2

\* Every reachable state has the types HandOver declares: what a command keeps
\* of its plan and progress (handOver), a keeper of its pass, and the network of
\* a push are what the code's types say.
THEOREM HandOverTypeCorrect == Spec => [](TypeOK /\ HandOverType)
<1>1. HandOverType => TypeOK
      BY DEF HandOverType, StateType, TypeOK
<1> QED BY <1>1, HandOverTypeInit, HandOverTypeStep, PTL DEF Spec

-----------------------------------------------------------------------------
(* keys.yaml only grows *)

\* A command saves a keyring that holds all the machine's file held when the
\* command looked last, and only if the file still is that one.
LEMMA CommandGrows ==
    ASSUME StateType, NEW p \in Command, CommandStep(p), NEW m \in Machine, NEW s \in Scope
    PROVE  keyring[m][s].held \subseteq keyring'[m][s].held
<1>1. PICK c \in CommandState : c = cmd[p] /\ CommandSound(c)
      BY DEF StateType
<1>2. c.file \in Rings /\ c.keys \in Rings /\ c.held \in Rings /\ MachineOf[p] \in Machine
      BY HandOverAssumption DEF CommandState
<1>3. ASSUME NEW ring \in Rings,
             keyring' = keyring
               \/ (keyring[MachineOf[p]] = c.file /\ keyring' = [keyring EXCEPT ![MachineOf[p]] = ring]),
             c.file[s].held \subseteq ring[s].held
      PROVE  keyring[m][s].held \subseteq keyring'[m][s].held
      BY <1>2, <1>3 DEF StateType
<1>4. CASE SaveRotated(p)
      <2>1. PICK k \in Key : k = minted + 1
            BY <1>4, SaveRotatedMoves
      <2>2. PICK file \in Rings : file = c.file
            BY <1>2
      <2>3. /\ StillUsing(Rotated(file, k), file) \in Rings
            /\ SameHeld(StillUsing(Rotated(file, k), file), Rotated(file, k))
            /\ file[s].held \subseteq Rotated(file, k)[s].held
            BY RotatedTypes
      <2>4. PICK old \in Rings : old = StillUsing(Rotated(c.file, k), c.file)
            BY <2>2, <2>3
      <2>5. c.file[s].held \subseteq old[s].held
            BY <2>2, <2>3, <2>4 DEF SameHeld
      <2>6. \/ keyring' = keyring
            \/ keyring[MachineOf[p]] = c.file /\ keyring' = [keyring EXCEPT ![MachineOf[p]] = old]
            BY <1>1, <1>4, <2>1, <2>4, SaveRotatedMoves
      <2> QED BY <2>5, <2>6, <1>3
<1>5. CASE SaveHeld(p)
      <2>1. c.file[s].held \subseteq c.held[s].held
            BY <1>1, <1>5 DEF SaveHeld, CommandSound, RotationSound, SameHeld
      <2> QED BY <2>1, <1>1, <1>2, <1>3, <1>5 DEF SaveHeld, UnchangedFile
<1>6. CASE SaveActive(p)
      <2>1. c.file[s].held \subseteq c.keys[s].held
            BY <1>1, <1>6 DEF SaveActive, CommandSound, RotationSound, SameHeld
      <2> QED BY <2>1, <1>1, <1>2, <1>3, <1>6 DEF SaveActive, UnchangedFile
<1>7. CASE PutBack(p)
      <2>1. c.file[s].held \subseteq c.held[s].held
            BY <1>1, <1>7 DEF PutBack, CommandSound, RotationSound, SameHeld
      <2>2. \/ keyring' = keyring
            \/ keyring[MachineOf[p]] = c.file /\ keyring' = [keyring EXCEPT ![MachineOf[p]] = c.held]
            BY <1>1, <1>7 DEF PutBack, UnchangedFile
      <2> QED BY <2>1, <2>2, <1>2, <1>3
<1>8. ASSUME NEW t \in Scope, SaveScope(p, t)
      PROVE  keyring[m][s].held \subseteq keyring'[m][s].held
      <2>1. PICK ring : ring = [keyring[MachineOf[p]] EXCEPT ![t] = MintedRing(minted + 1)]
            OBVIOUS
      <2>2. c.file[t].held = {}
            BY <1>1, <1>8 DEF SaveScope, HoldsScope
      <2>3. \/ keyring' = keyring
            \/ keyring[MachineOf[p]] = c.file /\ keyring' = [keyring EXCEPT ![MachineOf[p]] = ring]
            BY <1>1, <1>8, <2>1 DEF SaveScope, UnchangedFile
      <2>4. keyring[MachineOf[p]] = c.file => c.file[s].held \subseteq ring[s].held
            BY <1>2, <2>1, <2>2 DEF Rings
      <2> QED BY <2>3, <2>4, <1>2 DEF StateType
<1>9. CASE UNCHANGED keyring
      BY <1>9
<1> QED BY <1>4, <1>5, <1>6, <1>7, <1>8, <1>9
        DEF CommandStep, BeginUnseal, BeginSaving, Start, machineVars, LoadKeys, ReadReplica,
            PassOver, PushReplica, PushFails, ConfirmReplica, Record, Kill

\* keys.yaml only grows, however commands of one machine overlap: each replaces
\* the file only if it still is the one it read (SaveInstanceKeyring), and a
\* rotation keeps every old key (AddKEK).
THEOREM KeyringsOnlyGrow == Spec => KeyringsGrow
<1>1. ASSUME HandOverType, [Next]_vars
      PROVE  [\A m \in Machine, s \in Scope : keyring[m][s].held \subseteq keyring'[m][s].held]_vars
      <2>1. SUFFICES ASSUME Next, NEW m \in Machine, NEW s \in Scope
                     PROVE  keyring[m][s].held \subseteq keyring'[m][s].held
            BY <1>1
      <2>2. CASE \E p \in Command : CommandStep(p)
            BY <1>1, <2>2, CommandGrows DEF HandOverType
      <2>3. CASE \E k \in Keeper : KeeperStep(k)
            BY <2>3 DEF KeeperStep, Enrol, KeeperRead, KeeperLeaves, KeeperReseeds, machineVars
      <2>4. CASE \E r \in Replica : ReplicaStep(r)
            BY <2>4 DEF ReplicaStep, Restart, ReleaseReplica, SealReplica, DeliverLate, Event,
                        machineVars
      <2>5. ASSUME NEW n \in Machine, NEW from \in Machine, ImportKeys(n, from)
            PROVE  keyring[m][s].held \subseteq keyring'[m][s].held
            <3>1. keyring[n] \in Rings /\ keyring[from] \in Rings
                  BY <1>1 DEF HandOverType, StateType
            <3>2. keyring[n][s].held \subseteq MergedRing(keyring[n][s], keyring[from][s]).held
                  BY <3>1, MergedTypes
            <3> QED BY <1>1, <2>5, <3>2 DEF ImportKeys, HandOverType, StateType
      <2> QED BY <2>1, <2>2, <2>3, <2>4, <2>5 DEF Next
<1> QED BY <1>1, HandOverTypeInit, HandOverTypeStep, PTL DEF Spec, KeyringsGrow

-----------------------------------------------------------------------------
(* A hand-over never unseals *)

\* What Unseal does to a replica: it installs the bundle, and a hand-over only
\* where the replica serves already.
LEMMA UnsealFacts ==
    ASSUME NEW v \in VaultState, NEW b \in BundleOf({Instance}), NEW intent \in Intent,
           NEW after, after = UnsealVault(v, b, intent)
    PROVE  /\ after \in VaultState
           /\ \/ after = v
              \/ /\ Serving(after) /\ after.rings = b.rings /\ after.generation = b.generation
                 /\ v.generation <= b.generation
                 /\ intent = "hand-over" => Serving(v)
                 /\ intent = "restart-reseed" => ~Serving(v)
<1>1. after \in VaultState
      BY VaultTypes
<1>2. CASE UnsealVerdict(v, b, intent) # "install"
      BY <1>1, <1>2 DEF UnsealVault
<1>3. CASE UnsealVerdict(v, b, intent) = "install"
      <2>1. after = [phase |-> "unsealed", generation |-> b.generation, rings |-> b.rings]
            BY <1>3 DEF UnsealVault
      <2>2. /\ ~(intent = "hand-over" /\ ~Serving(v)) /\ ~(intent = "restart-reseed" /\ Serving(v))
            /\ ~(b.generation < v.generation)
            BY <1>3 DEF UnsealVerdict
      <2>3. b.generation \in Nat /\ v.generation \in Nat
            BY DEF BundleOf, VaultState
      <2> QED BY <1>1, <2>1, <2>2, <2>3 DEF Serving
<1> QED BY <1>2, <1>3

\* A replica either stays as it is or serves the bundle it was sent.
LEMMA UnsealInstalls ==
    ASSUME NEW v \in VaultState, NEW b \in BundleOf({Instance}), NEW intent \in Intent
    PROVE  /\ UnsealVault(v, b, intent) \in VaultState
           /\ \/ UnsealVault(v, b, intent) = v
              \/ /\ Serving(UnsealVault(v, b, intent))
                 /\ UnsealVault(v, b, intent).rings = b.rings
BY VaultTypes DEF UnsealVault, Serving

\* Where a command is once it is done with one replica: at the next one, at its
\* second read if the first push reached every replica, or done pushing.
LEMMA PushedMoves ==
    ASSUME NEW c, CommandSound(c), c.pc = "push", NEW where,
           NEW e, e = PushedTo(c, c.next, where),
           NEW ls, ls = (IF where = "loaded" THEN c.loaded \union {c.next} ELSE c.loaded),
           NEW rs, rs = (IF where = "refused" THEN c.refused \union {c.next} ELSE c.refused)
    PROVE  /\ e.kind = c.kind /\ e.keys = c.keys /\ e.file = c.file /\ e.held = c.held
           /\ e.previous = c.previous
           /\ \/ /\ e.pc = "push" /\ e.round = c.round /\ e.next = c.next + 1
                 /\ e.loaded = ls /\ e.refused = rs
              \/ /\ e.pc = "read" /\ c.round = 1 /\ e.round = 2
                 /\ e.states = AllSilent /\ e.heldLoaded = ls /\ rs = {}
              \/ e.pc \in {"record", "confirm"} /\ e.round = c.round
<1> DEFINE r == c.next
           d == [c EXCEPT !.next = r + 1,
                !.loaded    = IF where = "loaded"    THEN @ \union {r} ELSE @,
                !.refused   = IF where = "refused"   THEN @ \union {r} ELSE @,
                !.unreached = IF where = "unreached" THEN @ \union {r} ELSE @,
                !.taken     = IF where = "loaded" THEN Max2(@, c.highest) ELSE @]
<1>1. c \in CommandState /\ r \in Replica /\ r \in Nat
      BY DEF CommandSound, Replica
<1>2. Max2(c.taken, c.highest) \in Nat
      BY <1>1 DEF Max2, CommandState
<1>3. /\ d \in CommandState /\ d.kind = c.kind /\ d.round = c.round /\ d.pc = "push"
      /\ d.next = c.next + 1 /\ d.loaded = ls /\ d.refused = rs
      /\ d.keys = c.keys /\ d.file = c.file /\ d.held = c.held
      /\ d.previous = c.previous
      <2>1. PICK n \in Nat : n = r + 1
            BY <1>1
      <2>2. ls \in SUBSET Replica /\ rs \in SUBSET Replica
            BY <1>1 DEF CommandState
      <2>3. PICK us \in SUBSET Replica : us = IF where = "unreached" THEN c.unreached \union {r} ELSE c.unreached
            BY <1>1 DEF CommandState
      <2>4. PICK g \in Nat : g = IF where = "loaded" THEN Max2(c.taken, c.highest) ELSE c.taken
            BY <1>1, <1>2 DEF CommandState
      <2>5. d = [c EXCEPT !.next = n, !.loaded = ls, !.refused = rs, !.unreached = us, !.taken = g]
            BY <2>1, <2>3, <2>4
      <2> HIDE DEF d
      <2> QED BY ZenonT(40), <2>1, <2>2, <2>5, <1>1 DEF CommandState
<1>4. e = IF r + 1 < Replicas THEN d ELSE AfterPush(d)
      BY DEF PushedTo
<1> HIDE DEF d
<1>5. CASE e = d
      BY <1>3, <1>5
<1>6. CASE e = AfterPush(d) /\ d.round = 1 /\ HeldStepDone(d)
      <2>1. e = [d EXCEPT !.round = 2, !.pc = "read", !.next = 0,
                          !.states = AllSilent, !.heldLoaded = d.loaded]
            BY <1>6 DEF AfterPush
      <2> QED BY <1>3, <1>6, <2>1 DEF HeldStepDone, CommandState
<1>7. CASE e = AfterPush(d) /\ d.round = 1 /\ ~HeldStepDone(d)
      <2>1. e = [d EXCEPT !.pc = "record"]
            BY <1>7 DEF AfterPush, Stop
      <2> QED BY <1>3, <2>1 DEF CommandState
<1>8. CASE e = AfterPush(d) /\ d.round # 1
      <2>1. e = [d EXCEPT !.activated = TRUE, !.toConfirm = d.refused,
                          !.pc = IF d.refused = {} THEN "record" ELSE "confirm"]
            BY <1>8 DEF AfterPush
      <2> QED BY <1>3, <2>1 DEF CommandState
<1> QED BY <1>4, <1>5, <1>6, <1>7, <1>8

\* Going on to the next replica, the command keeps what the replicas answered.
LEMMA PushedStates ==
    ASSUME NEW c \in CommandState, NEW r, NEW where,
           NEW e, e = PushedTo(c, r, where), e.pc = "push"
    PROVE  e.states = c.states
<1>1. PICK d : d = [c EXCEPT !.next = r + 1,
                !.loaded    = IF where = "loaded"    THEN @ \union {r} ELSE @,
                !.refused   = IF where = "refused"   THEN @ \union {r} ELSE @,
                !.unreached = IF where = "unreached" THEN @ \union {r} ELSE @,
                !.taken     = IF where = "loaded" THEN Max2(@, c.highest) ELSE @]
      OBVIOUS
<1>2. d.states = c.states
      BY <1>1 DEF CommandState
<1>3. e = d \/ e = AfterPush(d)
      BY <1>1 DEF PushedTo
<1>4. "pc" \in DOMAIN d
      BY <1>1 DEF CommandState
<1>5. e = AfterPush(d) => e.pc # "push"
      BY <1>4 DEF AfterPush, Stop
<1> QED BY <1>2, <1>3, <1>5

\* Going on to the next replica changes nothing of what the command hands over.
LEMMA PushedKeeps ==
    ASSUME NEW c, CommandSound(c), c.pc = "push", NEW where
    PROVE  LET e == PushedTo(c, c.next, where) IN
           /\ e.kind = c.kind /\ e.keys = c.keys /\ e.file = c.file /\ e.held = c.held
           /\ e.previous = c.previous
<1>1. PICK e, ls, rs :
        /\ e = PushedTo(c, c.next, where)
        /\ ls = (IF where = "loaded" THEN c.loaded \union {c.next} ELSE c.loaded)
        /\ rs = (IF where = "refused" THEN c.refused \union {c.next} ELSE c.refused)
      OBVIOUS
<1> QED BY <1>1, PushedMoves, SMTT(180)

\* Of a command's steps only its pushes reach a vault, and a push is not an
\* idle step of the command.
LEMMA CommandPushes ==
    ASSUME StateType, NEW p \in Command, CommandStep(p), NEW r \in Replica, vault'[r] # vault[r]
    PROVE  /\ cmd[p].pc = "push" /\ r = cmd[p].next
           /\ vault'[r] = UnsealVault(vault[r], Sent(cmd[p]).bundle, Sent(cmd[p]).intent)
           /\ ~LeavesAlone(cmd[p], r)
           /\ cmd'[p] # cmd[p]
<1>1. PICK c \in CommandState : c = cmd[p] /\ CommandSound(c)
      BY DEF StateType
<1>2. ~UNCHANGED vault
      OBVIOUS
<1>3. PushReplica(p) \/ \E how \in {"lost", "answer lost", "late"} : PushFails(p, how)
      BY <1>2 DEF CommandStep, BeginUnseal, BeginSaving, Start, fleetVars, LoadKeys, ReadReplica,
                  PassOver, ConfirmReplica, Record, Kill, SaveRotated, SaveHeld, SaveActive,
                  PutBack, SaveScope
<1>4. /\ c.pc = "push" /\ r = c.next /\ ~LeavesAlone(c, r)
      /\ vault'[r] = UnsealVault(vault[r], Sent(c).bundle, Sent(c).intent)
      /\ \E where : cmd' = [cmd EXCEPT ![p] = PushedTo(c, c.next, where)]
      <2>1. CASE PushReplica(p)
            BY <1>1, <2>1 DEF PushReplica, StateType
      <2>2. CASE \E how \in {"lost", "answer lost", "late"} : PushFails(p, how)
            BY <1>1, <2>2 DEF PushFails, StateType
      <2> QED BY <1>3, <2>1, <2>2
<1>5. PICK where : cmd' = [cmd EXCEPT ![p] = PushedTo(c, c.next, where)]
      BY <1>4
<1>6. PICK e, ls, rs :
        /\ e = PushedTo(c, c.next, where)
        /\ ls = (IF where = "loaded" THEN c.loaded \union {c.next} ELSE c.loaded)
        /\ rs = (IF where = "refused" THEN c.refused \union {c.next} ELSE c.refused)
      OBVIOUS
<1>7. e # c
      <2>1. c.next \in Nat
            BY <1>1, <1>4 DEF CommandSound, Replica
      <2>2. CommandSound(c) /\ c.pc = "push"
            BY <1>1, <1>4
      <2>3. e.pc # "push" \/ e.next = c.next + 1
            BY ONLY <2>2, <1>6, PushedMoves
      <2> QED BY <2>1, <2>2, <2>3
<1> QED BY <1>1, <1>4, <1>5, <1>6, <1>7 DEF StateType


\* A rotation or a deploy never unseals a replica: whatever overlaps, a hand-over
\* that meets a replica sealed meanwhile is refused (Unseal's errNotServing).
THEOREM NeverUnsealsByHandOver == Spec => HandOverNeverUnseals
<1> DEFINE A == \A r \in Replica : ~Serving(vault[r]) /\ Serving(vault[r])' =>
                  \/ \E p \in Command : Unseals(cmd[p]) /\ cmd[p].pc = "push" /\ cmd'[p] # cmd[p]
                  \/ \E k \in Keeper : pass'[k] # pass[k]
                  \/ \E x \in late[r] : x.intent # "hand-over"
<1>1. ASSUME HandOverType, [Next]_vars
      PROVE  [A]_vars
      <2>1. SUFFICES ASSUME Next, NEW r \in Replica, ~Serving(vault[r]), Serving(vault'[r])
                     PROVE  \/ \E p \in Command :
                                 Unseals(cmd[p]) /\ cmd[p].pc = "push" /\ cmd'[p] # cmd[p]
                            \/ \E k \in Keeper : pass'[k] # pass[k]
                            \/ \E x \in late[r] : x.intent # "hand-over"
            BY <1>1 DEF Serving
      <2>2. vault[r] # vault'[r] /\ StateType /\ vault[r] \in VaultState
            BY <2>1, <1>1 DEF HandOverType, StateType
      <2>3. ASSUME NEW p \in Command, CommandStep(p)
            PROVE  Unseals(cmd[p]) /\ cmd[p].pc = "push" /\ cmd'[p] # cmd[p]
            <3>1. PICK c \in CommandState : c = cmd[p]
                  BY <2>2 DEF StateType
            <3>2. PICK b \in BundleOf({Instance}), intent \in Intent :
                    b = Sent(c).bundle /\ intent = Sent(c).intent
                  BY SentType DEF InFlight
            <3>3. vault'[r] = UnsealVault(vault[r], b, intent) /\ c.pc = "push" /\ cmd'[p] # c
                  BY <2>2, <2>3, <3>1, <3>2, CommandPushes
            <3>4. intent # "hand-over"
                  BY <2>1, <2>2, <3>3, UnsealFacts
            <3>5. Unseals(c)
                  BY <3>2, <3>4 DEF Sent
            <3> QED BY <3>1, <3>3, <3>5
      <2>4. ASSUME NEW k \in Keeper, KeeperStep(k)
            PROVE  pass'[k] # pass[k]
            <3>1. PICK how : KeeperReseeds(k, how)
                  BY <2>2, <2>4 DEF KeeperStep, Enrol, KeeperRead, KeeperLeaves, fleetVars
            <3>2. pass[k].pc = "push" /\ Decided(k)
                  BY <3>1 DEF KeeperReseeds
            <3>3. PICK b \in PassState : b = pass[k] /\ b.next \in Nat
                  BY <2>2 DEF StateType, PassSound, PassState
            <3>4. CASE b.next + 1 < Replicas
                  <4>1. pass'[k] = [b EXCEPT !.next = b.next + 1]
                        BY <2>2, <3>2, <3>3, <3>4 DEF Decided, StateType
                  <4>2. pass'[k].next = b.next + 1
                        BY <3>3, <4>1 DEF PassState
                  <4> QED BY <3>3, <4>2
            <3>5. CASE ~(b.next + 1 < Replicas)
                  <4>1. pass'[k] = Resting
                        BY <2>2, <3>2, <3>3, <3>5 DEF Decided, StateType
                  <4> QED BY <3>2, <4>1 DEF Resting
            <3> QED BY <3>4, <3>5
      <2>5. ASSUME NEW q \in Replica, ReplicaStep(q)
            PROVE  \E x \in late[r] : x.intent # "hand-over"
            <3>1. q = r
                  BY <2>2, <2>5 DEF ReplicaStep, Restart, ReleaseReplica, SealReplica, DeliverLate,
                                    StateType
            <3>2. PICK x \in late[r] : DeliverLate(r, x)
                  BY <2>1, <2>2, <2>5, <3>1 DEF ReplicaStep, Restart, ReleaseReplica, SealReplica,
                       NewVault, SealVault, ReleaseVault, Serving, StateType, VaultState
            <3>3. x \in InFlight
                  BY <2>2 DEF StateType
            <3>4. PICK b \in BundleOf({Instance}), intent \in Intent : b = x.bundle /\ intent = x.intent
                  BY <3>3 DEF InFlight
            <3>5. vault'[r] = UnsealVault(vault[r], b, intent)
                  BY <2>2, <3>2, <3>4 DEF DeliverLate, StateType
            <3>6. intent # "hand-over"
                  BY <2>1, <2>2, <3>5, UnsealFacts
            <3> QED BY <3>4, <3>6
      <2>6. ~\E m, from \in Machine : ImportKeys(m, from)
            BY <2>2 DEF ImportKeys, fleetVars
      <2> QED BY <2>1, <2>3, <2>4, <2>5, <2>6 DEF Next
<1> QED BY <1>1, HandOverTypeInit, HandOverTypeStep, PTL DEF Spec, HandOverNeverUnseals

-----------------------------------------------------------------------------
(* The keys of a fleet that one machine hands out *)

\* Every replica of v that serves scope s has key k.
Has(v, s, k) ==
    \A r \in Replica : Serving(v[r]) /\ HoldsScope(v[r].rings, s) => k \in v[r].rings[s].held

\* A keyring that may replace any replica's, and the machine's file: it has all
\* the file's keys, and every replica can read what is written under it.
Sendable(rings, v, file) ==
    /\ SameHeld(rings, file)
    /\ \A s \in Scope : rings[s].active # NoKey => Has(v, s, rings[s].active)

\* If replica r serves, it serves all the machine has.
Whole(v, r, file) == Serving(v[r]) => SameHeld(v[r].rings, file)

NoneLate(l) == \A r \in Replica : l[r] = {}

\* The machine's file holds every key a replica serves and every key written
\* under, and what was written every replica can read.
FileCovers(v, w, file) ==
    /\ \A r \in Replica, s \in Scope : Serving(v[r]) => v[r].rings[s].held \subseteq file[s].held
    /\ \A s \in Scope : \A k \in w[s] : k \in file[s].held /\ Has(v, s, k)

\* What replica r answered is still so, unless the replica has been sealed.
StillTrue(c, v, w, r) ==
    /\ Serving(v[r]) => Serving(c.states[r]) /\ SameHeld(v[r].rings, c.states[r].rings)
    /\ Serving(c.states[r]) =>
         \A s \in Scope : c.states[r].rings[s].active \in w[s] \union {NoKey}

HeldMatters(c) == \/ c.pc = "hold"
                  \/ c.pc = "push" /\ c.round = 1
                  \/ c.kind = "rotate" /\ c.round = 2

\* What a running command relies on.
CommandFits(c, v, l, w, file) ==
    /\ c.pc \in {"save", "load", "read", "hold", "activate"} => NoneLate(l)
    /\ c.pc = "push" /\ c.refused = {} => NoneLate(l)
    /\ c.pc \in {"save", "load"} => \A r \in Replica : c.states[r] = Silent
    /\ c.pc = "hold" => c.round = 1
    /\ c.pc # "idle" => \A s \in Scope : c.previous[s] \in w[s] \union {NoKey}
    /\ c.pc \notin {"idle", "save", "load"} =>
         /\ SameHeld(c.keys, file)
         /\ c.kind # "rotate" => c.keys = file
         /\ c.kind = "rotate" => \A s \in Scope : HoldsScope(c.keys, s) => c.previous[s] # NoKey
    /\ c.pc # "idle" /\ HeldMatters(c) => Sendable(c.held, v, file)
    /\ c.pc = "activate" \/ (c.pc = "push" /\ c.round = 2) => Sendable(c.keys, v, file)
    /\ c.pc = "read" => \A r \in Replica : c.states[r] # Silent => StillTrue(c, v, w, r)
    /\ c.pc = "push" /\ c.round = 1 => \A r \in c.loaded : Whole(v, r, file)
    /\ c.pc = "read" /\ c.round = 2 => \A r \in c.heldLoaded : Whole(v, r, file)

\* What every writer writes under is among the keys written under.
InUseWritten(v, kr, w) ==
    /\ \A r \in Replica, s \in Scope :
         Serving(v[r]) => v[r].rings[s].active \in w[s] \union {NoKey}
    /\ \A m \in Machine, s \in Scope : kr[m][s].active \in w[s] \union {NoKey}

\* The inductive invariant of a fleet all of whose commands run on machine home,
\* one at a time: v, l, kr, cs and w are vault, late, keyring, cmd and written.
Fits(home, v, l, kr, cs, w) ==
    /\ FileCovers(v, w, kr[home])
    /\ InUseWritten(v, kr, w)
    /\ \A m \in Machine, s \in Scope : kr[m][s].held \subseteq kr[home][s].held
    /\ \A p, q \in Command : cs[p].pc # "idle" /\ cs[q].pc # "idle" => p = q
    /\ \A r \in Replica : \A x \in l[r] : Sendable(x.bundle.rings, v, kr[home])
    /\ \A p \in Command : CommandFits(cs[p], v, l, w, kr[home])

HandOverFits(home) == Fits(home, vault, late, keyring, cmd, written)

\* A replica moved from v to v2 only by being sealed or by taking all of file.
Moved(v, v2, file) ==
    \A r \in Replica : v2[r] = v[r] \/ ~Serving(v2[r]) \/ SameHeld(v2[r].rings, file)

\* A key that may be written under: it was already, or everyone can read it.
Fine(k, s, v, w, file) ==
    k \in w[s] \union {NoKey} \/ (k \in file[s].held /\ Has(v, s, k))

\* What Writes makes of written: w before, w2 after, v2 and kr2 the keys then.
Logged(v2, kr2, w, w2) ==
    /\ \A s \in Scope : w[s] \subseteq w2[s]
    /\ InUseWritten(v2, kr2, w2)
    /\ \A s \in Scope : \A k \in w2[s] :
         \/ k \in w[s]
         \/ k # NoKey /\ \E r \in Replica : Serving(v2[r]) /\ v2[r].rings[s].active = k
         \/ k # NoKey /\ \E m \in Machine : kr2[m][s].active = k

\* The history of what was written grows by the keys in use.
LEMMA WritesLogged ==
    ASSUME HandOverType, Writes
    PROVE  Logged(vault', keyring', written, written')
<1>1. ASSUME NEW s \in Scope
      PROVE  written'[s] = written[s] \union
               (({vault'[r].rings[s].active : r \in {q \in Replica : Serving(vault'[q])}}
                  \union {keyring'[m][s].active : m \in Machine}) \ {NoKey})
      <2>1. ActiveKeys(s)' = {vault'[r].rings[s].active : r \in {q \in Replica : Serving(vault'[q])}}
                               \union {keyring'[m][s].active : m \in Machine}
            BY DEF ActiveKeys, Serving
      <2> QED BY <2>1 DEF Writes, HandOverType
<1>2. \A s \in Scope : written[s] \subseteq written'[s]
      BY <1>1
<1>3. InUseWritten(vault', keyring', written')
      BY <1>1 DEF InUseWritten
<1>4. ASSUME NEW s \in Scope, NEW k \in written'[s]
      PROVE  \/ k \in written[s]
             \/ k # NoKey /\ \E r \in Replica : Serving(vault'[r]) /\ vault'[r].rings[s].active = k
             \/ k # NoKey /\ \E m \in Machine : keyring'[m][s].active = k
      BY <1>1, <1>4
<1> QED BY <1>2, <1>3, <1>4 DEF Logged

\* A key of the file that every replica has, every replica keeps.
LEMMA HasStays ==
    ASSUME NEW v, NEW v2, NEW file, Moved(v, v2, file),
           NEW s \in Scope, NEW k \in file[s].held, Has(v, s, k)
    PROVE  Has(v2, s, k)
BY DEF Has, Moved, SameHeld

\* What may be sent may still be sent later.
LEMMA SendableStays ==
    ASSUME NEW v, NEW v2, NEW file, NEW rings \in Rings,
           Moved(v, v2, file), Sendable(rings, v, file)
    PROVE  Sendable(rings, v2, file)
<1>1. ASSUME NEW s \in Scope, rings[s].active # NoKey
      PROVE  Has(v2, s, rings[s].active)
      <2>1. rings[s].active \in rings[s].held /\ rings[s].held = file[s].held
            BY <1>1, RingFacts DEF Sendable, SameHeld
      <2>2. Has(v, s, rings[s].active)
            BY <1>1 DEF Sendable
      <2> QED BY <2>1, <2>2, HasStays
<1> QED BY <1>1 DEF Sendable

\* A whole replica stays whole.
LEMMA WholeStays ==
    ASSUME NEW v, NEW v2, NEW file, NEW r \in Replica, Moved(v, v2, file), Whole(v, r, file)
    PROVE  Whole(v2, r, file)
BY DEF Whole, Moved

\* The same holds of a file with the same keys.
LEMMA SameFile ==
    ASSUME NEW v, NEW file, NEW f, SameHeld(f, file), NEW rings
    PROVE  /\ Sendable(rings, v, file) => Sendable(rings, v, f)
           /\ \A r : Whole(v, r, file) => Whole(v, r, f)
BY DEF Sendable, Whole, SameHeld

\* The keys written under stay readable as long as nothing is written under a
\* key some replica lacks.
LEMMA CoversStays ==
    ASSUME NEW v, NEW v2, NEW file, NEW f, NEW kr2, NEW w, NEW w2,
           FileCovers(v, w, file), Logged(v2, kr2, w, w2),
           \A s \in Scope : file[s].held \subseteq f[s].held,
           Moved(v, v2, f),
           \A r \in Replica, s \in Scope :
             Serving(v2[r]) => Fine(v2[r].rings[s].active, s, v2, w, f),
           \A m \in Machine, s \in Scope : Fine(kr2[m][s].active, s, v2, w, f)
    PROVE  FileCovers(v2, w2, f)
<1>1. ASSUME NEW r \in Replica, NEW s \in Scope, Serving(v2[r])
      PROVE  v2[r].rings[s].held \subseteq f[s].held
      BY <1>1 DEF FileCovers, Moved, SameHeld
<1>2. ASSUME NEW s \in Scope, NEW k \in w[s]
      PROVE  k \in f[s].held /\ Has(v2, s, k)
      <2>1. k \in f[s].held /\ Has(v, s, k)
            BY DEF FileCovers
      <2> QED BY <2>1, HasStays
<1>3. ASSUME NEW s \in Scope, NEW k \in w2[s]
      PROVE  k \in f[s].held /\ Has(v2, s, k)
      <2>1. CASE k \in w[s]
            BY <1>2, <2>1
      <2>2. CASE k \notin w[s]
            <3>1. k # NoKey /\ Fine(k, s, v2, w, f)
                  BY <2>2 DEF Logged
            <3> QED BY <3>1, <2>2 DEF Fine
      <2> QED BY <2>1, <2>2
<1> QED BY <1>1, <1>3 DEF FileCovers

\* A command that is not running relies on nothing.
LEMMA IdleFits ==
    ASSUME NEW c, c.pc = "idle", NEW v, NEW l, NEW w, NEW file
    PROVE  CommandFits(c, v, l, w, file)
BY DEF CommandFits

\* What a command relies on outlives the steps of the replicas: a seal, a
\* restart, or a late push, of which there are none while it reads.
LEMMA CommandStays ==
    ASSUME NEW c \in CommandState, NEW v, NEW v2, NEW l, NEW l2, NEW w, NEW w2, NEW file,
           CommandFits(c, v, l, w, file), Moved(v, v2, file),
           \A r \in Replica : l2[r] \subseteq l[r],
           \A s \in Scope : w[s] \subseteq w2[s],
           c.pc = "read" => \A r \in Replica : v2[r] = v[r] \/ ~Serving(v2[r])
    PROVE  CommandFits(c, v2, l2, w2, file)
<1>1. NoneLate(l) => NoneLate(l2)
      BY DEF NoneLate
<1>2. c.keys \in Rings /\ c.held \in Rings /\ c.loaded \subseteq Replica /\ c.heldLoaded \subseteq Replica
      BY DEF CommandState
<1>3. Sendable(c.keys, v, file) => Sendable(c.keys, v2, file)
      BY <1>2, SendableStays
<1>4. Sendable(c.held, v, file) => Sendable(c.held, v2, file)
      BY <1>2, SendableStays
<1>5. \A r \in Replica : Whole(v, r, file) => Whole(v2, r, file)
      BY WholeStays
<1>6. ASSUME NEW r \in Replica, c.pc = "read", StillTrue(c, v, w, r)
      PROVE  StillTrue(c, v2, w2, r)
      BY <1>6 DEF StillTrue
<1>7. c.pc = "read" => \A r \in Replica : c.states[r] # Silent => StillTrue(c, v2, w2, r)
      BY <1>6 DEF CommandFits
<1>8. /\ c.pc \in {"save", "load", "read", "hold", "activate"} => NoneLate(l2)
      /\ c.pc = "push" /\ c.refused = {} => NoneLate(l2)
      /\ c.pc \in {"save", "load"} => \A r \in Replica : c.states[r] = Silent
      /\ c.pc = "hold" => c.round = 1
      BY <1>1 DEF CommandFits
<1>9. /\ c.pc # "idle" => \A s \in Scope : c.previous[s] \in w2[s] \union {NoKey}
      /\ c.pc \notin {"idle", "save", "load"} =>
         /\ SameHeld(c.keys, file)
         /\ c.kind # "rotate" => c.keys = file
         /\ c.kind = "rotate" => \A s \in Scope : HoldsScope(c.keys, s) => c.previous[s] # NoKey
      BY DEF CommandFits
<1>10. /\ c.pc = "push" /\ c.round = 1 => \A r \in c.loaded : Whole(v2, r, file)
       /\ c.pc = "read" /\ c.round = 2 => \A r \in c.heldLoaded : Whole(v2, r, file)
      BY <1>2, <1>5 DEF CommandFits
<1>11. /\ c.pc # "idle" /\ HeldMatters(c) => Sendable(c.held, v2, file)
       /\ c.pc = "activate" \/ (c.pc = "push" /\ c.round = 2) => Sendable(c.keys, v2, file)
      BY <1>3, <1>4 DEF CommandFits
<1> QED BY <1>7, <1>8, <1>9, <1>10, <1>11 DEF CommandFits

\* A command that has nothing left to push keeps what it may fall back on.
LEMMA LaterFits ==
    ASSUME NEW c, NEW e, NEW v, NEW l, NEW w, NEW file, CommandFits(c, v, l, w, file),
           c.pc \notin {"idle", "save", "load"}, e.pc \in {"confirm", "record", "fallback"},
           e.kind = c.kind, e.keys = c.keys, e.held = c.held, e.previous = c.previous,
           e.round = c.round
    PROVE  CommandFits(e, v, l, w, file)
<1>1. HeldMatters(e) => HeldMatters(c)
      BY DEF HeldMatters
<1> QED BY <1>1 DEF CommandFits

\* The invariant after a step of one command, while no other is running.
LEMMA FitsAfter ==
    ASSUME NEW home, NEW v2, NEW l2, NEW kr2, NEW cs, NEW cs2, NEW w2,
           NEW p \in Command, NEW e, cs \in [Command -> CommandState],
           cs2 = [cs EXCEPT ![p] = e], \A q \in Command : q # p => cs[q].pc = "idle",
           FileCovers(v2, w2, kr2[home]), InUseWritten(v2, kr2, w2),
           \A m \in Machine, s \in Scope : kr2[m][s].held \subseteq kr2[home][s].held,
           \A r \in Replica : \A x \in l2[r] : Sendable(x.bundle.rings, v2, kr2[home]),
           CommandFits(e, v2, l2, w2, kr2[home])
    PROVE  Fits(home, v2, l2, kr2, cs2, w2)
<1>1. \A q \in Command : q # p => cs2[q].pc = "idle"
      OBVIOUS
<1>2. cs2[p] = e
      OBVIOUS
<1>3. \A q \in Command : CommandFits(cs2[q], v2, l2, w2, kr2[home])
      BY <1>1, <1>2, IdleFits
<1>4. \A a, b \in Command : cs2[a].pc # "idle" /\ cs2[b].pc # "idle" => a = b
      BY <1>1
<1> QED BY <1>3, <1>4 DEF Fits

\* The invariant of the next state.
LEMMA FitsPrimed ==
    ASSUME NEW home, Fits(home, vault', late', keyring', cmd', written')
    PROVE  HandOverFits(home)'
BY DEF HandOverFits, Fits, FileCovers, Has, InUseWritten, Sendable, SameHeld, CommandFits,
       HeldMatters, StillTrue, Whole, NoneLate, Serving, HoldsScope, Silent

\* A replica that is sealed, or takes a keyring that may be sent, leaves the
\* fleet able to read all that is written.
LEMMA VaultStep ==
    ASSUME HandOverType, StateType', NEW home \in Machine, HandOverFits(home), Writes,
           keyring' = keyring, NEW r \in Replica, NEW a \in VaultState,
           vault' = [vault EXCEPT ![r] = a],
           a = vault[r] \/ ~Serving(a) \/ Sendable(a.rings, vault, keyring[home])
    PROVE  /\ Moved(vault, vault', keyring[home])
           /\ FileCovers(vault', written', keyring'[home]) /\ InUseWritten(vault', keyring', written')
           /\ \A m \in Machine, s \in Scope : keyring'[m][s].held \subseteq keyring'[home][s].held
<1> DEFINE K == keyring[home]
<1>1. /\ FileCovers(vault, written, K) /\ InUseWritten(vault, keyring, written)
      /\ \A m \in Machine, s \in Scope : keyring[m][s].held \subseteq K[s].held
      BY DEF HandOverFits, Fits
<1>2. vault'[r] = a /\ \A q \in Replica : q # r => vault'[q] = vault[q]
      BY DEF HandOverType, StateType
<1>3. Moved(vault, vault', K)
      BY <1>2 DEF Moved, Sendable
<1>4. ASSUME NEW q \in Replica, NEW s \in Scope, Serving(vault'[q])
      PROVE  Fine(vault'[q].rings[s].active, s, vault', written, K)
      <2>1. CASE vault'[q] = vault[q]
            BY <1>1, <1>4, <2>1 DEF InUseWritten, Fine
      <2>2. CASE vault'[q] # vault[q]
            <3>1. q = r /\ vault'[q] = a /\ Sendable(a.rings, vault, K) /\ a.rings \in Rings
                  BY <1>2, <1>4, <2>2 DEF VaultState
            <3>2. CASE a.rings[s].active = NoKey
                  BY <3>1, <3>2 DEF Fine
            <3>3. CASE a.rings[s].active # NoKey
                  <4>1. Sendable(a.rings, vault', K)
                        BY <1>3, <3>1, SendableStays
                  <4>2. a.rings[s].active \in K[s].held /\ Has(vault', s, a.rings[s].active)
                        BY <3>1, <3>3, <4>1, RingFacts DEF Sendable, SameHeld
                  <4> QED BY <3>1, <4>2 DEF Fine
            <3> QED BY <3>2, <3>3
      <2> QED BY <2>1, <2>2
<1>5. \A m \in Machine, s \in Scope : Fine(keyring'[m][s].active, s, vault', written, K)
      BY <1>1 DEF InUseWritten, Fine
<1>6. Logged(vault', keyring', written, written')
      BY WritesLogged
<1>7. keyring'[home] = K /\ \A s \in Scope : K[s].held \subseteq keyring'[home][s].held
      OBVIOUS
<1>8. FileCovers(vault', written', K)
      <2>1. FileCovers(vault, written, K) /\ \A s \in Scope : K[s].held \subseteq K[s].held
            BY <1>1
      <2> HIDE DEF K
      <2> QED BY ONLY <2>1, <1>3, <1>4, <1>5, <1>6, CoversStays
<1> QED BY <1>1, <1>3, <1>6, <1>7, <1>8 DEF Logged

\* A file that keeps all keys, and whose active keys every replica has.
LEMMA FileStep ==
    ASSUME HandOverType, StateType', NEW home \in Machine, HandOverFits(home), Writes,
           vault' = vault, NEW f \in Rings, keyring' = [keyring EXCEPT ![home] = f],
           \A s \in Scope : keyring[home][s].held \subseteq f[s].held,
           \A s \in Scope : Fine(f[s].active, s, vault, written, f)
    PROVE  /\ FileCovers(vault', written', keyring'[home]) /\ InUseWritten(vault', keyring', written')
           /\ \A m \in Machine, s \in Scope : keyring'[m][s].held \subseteq keyring'[home][s].held
<1>1. /\ FileCovers(vault, written, keyring[home]) /\ InUseWritten(vault, keyring, written)
      /\ \A m \in Machine, s \in Scope : keyring[m][s].held \subseteq keyring[home][s].held
      BY DEF HandOverFits, Fits
<1>2. keyring'[home] = f /\ \A m \in Machine : m # home => keyring'[m] = keyring[m]
      BY DEF HandOverType, StateType
<1>3. Moved(vault, vault', f)
      BY DEF Moved
<1>4. \A q \in Replica, s \in Scope :
        Serving(vault'[q]) => Fine(vault'[q].rings[s].active, s, vault', written, f)
      BY <1>1 DEF InUseWritten, Fine
<1>5. ASSUME NEW m \in Machine, NEW s \in Scope
      PROVE  Fine(keyring'[m][s].active, s, vault', written, f)
      <2>1. CASE m = home
            BY <1>2, <2>1
      <2>2. CASE m # home
            BY <1>1, <1>2, <2>2 DEF InUseWritten, Fine
      <2> QED BY <2>1, <2>2
<1>6. Logged(vault', keyring', written, written')
      BY WritesLogged
<1>7. \A s \in Scope : keyring[home][s].held \subseteq keyring'[home][s].held
      BY <1>2
<1>8. FileCovers(vault', written', keyring'[home])
      <2>1. PICK file : file = keyring[home]
            OBVIOUS
      <2>2. FileCovers(vault, written, file) /\ \A s \in Scope : file[s].held \subseteq f[s].held
            BY <1>1, <2>1
      <2>3. FileCovers(vault', written', f)
            BY ONLY <2>2, <1>3, <1>4, <1>5, <1>6, CoversStays
      <2> QED BY <1>2, <2>3
<1>9. ASSUME NEW m \in Machine, NEW s \in Scope
      PROVE  keyring'[m][s].held \subseteq keyring'[home][s].held
      BY <1>1, <1>2, <1>7
<1> QED BY <1>6, <1>8, <1>9 DEF Logged

\* A step of a command that moves no key.
LEMMA CommandOnly ==
    ASSUME HandOverType, StateType', NEW home \in Machine, HandOverFits(home), Writes,
           vault' = vault, late' = late, keyring' = keyring,
           NEW p \in Command, NEW e \in CommandState, cmd' = [cmd EXCEPT ![p] = e],
           \A q \in Command : q # p => cmd[q].pc = "idle",
           CommandFits(e, vault, late, written, keyring[home])
    PROVE  Fits(home, vault', late', keyring', cmd', written')
<1>1. PICK r \in Replica : TRUE
      BY NothingTypes
<1>2. vault[r] \in VaultState /\ vault' = [vault EXCEPT ![r] = vault[r]]
      BY DEF HandOverType, StateType
<1>3. /\ Moved(vault, vault', keyring[home])
      /\ FileCovers(vault', written', keyring'[home]) /\ InUseWritten(vault', keyring', written')
      /\ \A m \in Machine, s \in Scope : keyring'[m][s].held \subseteq keyring'[home][s].held
      BY <1>2, VaultStep
<1>4. \A s \in Scope : written[s] \subseteq written'[s]
      BY WritesLogged DEF Logged
<1>5. CommandFits(e, vault', late', written', keyring'[home])
      BY <1>3, <1>4, CommandStays
<1>6. \A q \in Replica : \A x \in late'[q] : Sendable(x.bundle.rings, vault', keyring'[home])
      BY DEF HandOverFits, Fits
<1>7. cmd \in [Command -> CommandState]
      BY DEF HandOverType, StateType
<1> QED BY <1>3, <1>5, <1>6, <1>7, FitsAfter

\* While a command is running no other is.
LEMMA Alone ==
    ASSUME NEW home, HandOverFits(home), NEW p \in Command, cmd[p].pc # "idle"
    PROVE  \A q \in Command : q # p => cmd[q].pc = "idle"
BY DEF HandOverFits, Fits

\* A command starts when nothing is under way.
LEMMA BeginFits ==
    ASSUME HandOverType, StateType', NEW home \in Machine, HandOverFits(home), Writes,
           ~scene.overlap, \A p \in Command : MachineOf[p] = home,
           NEW p \in Command, NEW kind, BeginUnseal(p, kind) \/ BeginSaving(p, kind)
    PROVE  Fits(home, vault', late', keyring', cmd', written')
<1>1. MachineOf[p] = home
      OBVIOUS
<1>2. PICK ring \in Rings, g \in Nat : ring = keyring[home] /\ g = recorded[home]
      BY DEF HandOverType, StateType
<1>3. PICK e : /\ Start(p, e)
               /\ \/ /\ kind \in {"unseal", "unseal-unchecked"}
                     /\ e = [Idle EXCEPT !.kind = kind, !.pc = "read", !.keys = ring,
                                         !.metaGen = g, !.highest = g]
                  \/ /\ kind \in {"rotate", "run"}
                     /\ e = [Idle EXCEPT !.kind = kind, !.pc = "save", !.file = ring,
                                         !.metaGen = g, !.highest = g]
      BY <1>1, <1>2 DEF BeginUnseal, BeginSaving
<1>4. /\ e \in CommandState /\ e.round = 1 /\ e.states = AllSilent /\ e.previous = NoPrevious
      /\ \/ e.kind # "rotate" /\ e.pc = "read" /\ e.keys = ring
         \/ e.pc = "save"
      <2>1. CASE kind \in {"unseal", "unseal-unchecked"}
            <3>1. e = [Idle EXCEPT !.kind = kind, !.pc = "read", !.keys = ring,
                                   !.metaGen = g, !.highest = g]
                  BY <1>3, <2>1
            <3> QED BY ZenonT(40), <3>1, <2>1, NothingTypes DEF Idle, CommandState, Kinds, Steps
      <2>2. CASE kind \in {"rotate", "run"}
            <3>1. e = [Idle EXCEPT !.kind = kind, !.pc = "save", !.file = ring,
                                   !.metaGen = g, !.highest = g]
                  BY <1>3, <2>2
            <3> QED BY ZenonT(40), <3>1, <2>2, NothingTypes DEF Idle, CommandState, Kinds, Steps
      <2> QED BY <1>3, <2>1, <2>2
<1>5. Quiet /\ cmd' = [cmd EXCEPT ![p] = e] /\ vault' = vault /\ late' = late /\ keyring' = keyring
      BY <1>3 DEF Start, MayStart, fleetVars, machineVars
<1>6. NoneLate(late) /\ \A q \in Command : cmd[q].pc = "idle"
      BY <1>5 DEF Quiet, NoneLate
<1>7. (\A r \in Replica : e.states[r] = Silent) /\ \A s \in Scope : e.previous[s] = NoKey
      BY <1>4 DEF AllSilent, NoPrevious
<1>8. CommandFits(e, vault, late, written, ring)
      BY <1>4, <1>6, <1>7 DEF CommandFits, HeldMatters, SameHeld
<1> QED BY <1>2, <1>4, <1>5, <1>6, <1>8, CommandOnly

\* run reads the keyring again.
LEMMA LoadFits ==
    ASSUME HandOverType, StateType', NEW home \in Machine, HandOverFits(home), Writes,
           \A p \in Command : MachineOf[p] = home, NEW p \in Command, LoadKeys(p)
    PROVE  Fits(home, vault', late', keyring', cmd', written')
<1>1. PICK c \in CommandState : c = cmd[p] /\ CommandSound(c)
      BY DEF HandOverType, StateType
<1>2. PICK ring \in Rings : ring = keyring[home]
      BY DEF HandOverType, StateType
<1>3. PICK e : e = [c EXCEPT !.pc = "read", !.keys = ring]
      OBVIOUS
<1>4. c.pc = "load" /\ cmd' = [cmd EXCEPT ![p] = e] /\ vault' = vault /\ late' = late /\ keyring' = keyring
      BY <1>1, <1>2, <1>3 DEF LoadKeys, HandOverType, StateType, fleetVars, machineVars
<1>5. c.kind = "run" /\ c.round = 1
      BY <1>1, <1>4 DEF CommandSound
<1>6. /\ e \in CommandState /\ e.pc = "read" /\ e.kind = c.kind /\ e.round = c.round
      /\ e.keys = ring /\ e.states = c.states /\ e.previous = c.previous
      BY <1>3 DEF CommandState, Steps
<1>7. CommandFits(c, vault, late, written, ring)
      BY <1>1, <1>2 DEF HandOverFits, Fits
<1>8. \A r \in Replica : c.states[r] = Silent
      BY <1>4, <1>7 DEF CommandFits
<1>9. CommandFits(e, vault, late, written, ring)
      BY <1>4, <1>5, <1>6, <1>7, <1>8 DEF CommandFits, HeldMatters, SameHeld
<1>10. \A q \in Command : q # p => cmd[q].pc = "idle"
      BY <1>1, <1>4, Alone
<1> QED BY <1>2, <1>4, <1>6, <1>9, <1>10, CommandOnly

\* A step of a command that replaces the machine's file.
LEMMA CommandSaves ==
    ASSUME HandOverType, StateType', NEW home \in Machine, HandOverFits(home), Writes,
           vault' = vault, late' = late, NEW f \in Rings, keyring' = [keyring EXCEPT ![home] = f],
           \A s \in Scope : keyring[home][s].held \subseteq f[s].held,
           \A s \in Scope : Fine(f[s].active, s, vault, written, f),
           SameHeld(f, keyring[home]) \/ NoneLate(late),
           NEW p \in Command, NEW e \in CommandState, cmd' = [cmd EXCEPT ![p] = e],
           \A q \in Command : q # p => cmd[q].pc = "idle",
           CommandFits(e, vault, late, written, f)
    PROVE  Fits(home, vault', late', keyring', cmd', written')
<1>1. keyring'[home] = f
      BY DEF HandOverType, StateType
<1>2. /\ FileCovers(vault', written', keyring'[home]) /\ InUseWritten(vault', keyring', written')
      /\ \A m \in Machine, s \in Scope : keyring'[m][s].held \subseteq keyring'[home][s].held
      BY FileStep
<1>3. \A s \in Scope : written[s] \subseteq written'[s]
      BY WritesLogged DEF Logged
<1>4. Moved(vault, vault', f) /\ \A r \in Replica : late'[r] \subseteq late[r]
      BY DEF Moved
<1>5. CommandFits(e, vault', late', written', keyring'[home])
      BY <1>1, <1>3, <1>4, CommandStays
<1>6. ASSUME NEW r \in Replica, NEW x \in late'[r]
      PROVE  Sendable(x.bundle.rings, vault', keyring'[home])
      <2>1. Sendable(x.bundle.rings, vault, keyring[home])
            BY DEF HandOverFits, Fits
      <2>2. SameHeld(f, keyring[home])
            BY <1>6 DEF NoneLate
      <2> QED BY <1>1, <2>1, <2>2, SameFile
<1>7. cmd \in [Command -> CommandState]
      BY DEF HandOverType, StateType
<1> QED BY <1>2, <1>5, <1>6, <1>7, FitsAfter

\* A command that gives up or is killed.
LEMMA CommandEnds ==
    ASSUME HandOverType, StateType', NEW home \in Machine, HandOverFits(home), Writes,
           vault' = vault, late' = late, keyring' = keyring,
           NEW p \in Command, cmd[p].pc # "idle", cmd' = [cmd EXCEPT ![p] = Idle]
    PROVE  Fits(home, vault', late', keyring', cmd', written')
<1>1. Idle \in CommandState /\ Idle.pc = "idle"
      BY IdleSound DEF CommandSound, Idle
<1>2. CommandFits(Idle, vault, late, written, keyring[home])
      BY <1>1, IdleFits
<1>3. \A q \in Command : q # p => cmd[q].pc = "idle"
      BY Alone
<1> QED BY <1>1, <1>2, <1>3, CommandOnly

\* storage key rotate saves the keys it minted, the old ones still active.
LEMMA SaveRotatedFits ==
    ASSUME HandOverType, StateType', NEW home \in Machine, HandOverFits(home), Writes,
           \A p \in Command : MachineOf[p] = home, NEW p \in Command, SaveRotated(p)
    PROVE  Fits(home, vault', late', keyring', cmd', written')
<1> USE DEF HandOverType
<1>1. PICK c \in CommandState : c = cmd[p] /\ CommandSound(c)
      BY DEF StateType
<1>2. PICK k \in Key : k = minted + 1
      BY SaveRotatedMoves
<1>3. c.file \in Rings /\ MachineOf[p] = home
      BY DEF CommandState
<1>4. PICK new \in Rings, old \in Rings :
        /\ new = Rotated(c.file, k) /\ old = StillUsing(Rotated(c.file, k), c.file)
      BY <1>3, RotatedTypes
<1>5. /\ SameHeld(old, new)
      /\ \A s \in Scope : old[s].active = c.file[s].active
      /\ \A s \in Scope : c.file[s].held \subseteq new[s].held
      /\ \A s \in Scope : HoldsScope(new, s) <=> HoldsScope(c.file, s)
      BY <1>3, <1>4, RotatedTypes
<1>6. PICK g \in Nat : g = recorded[home]
      BY DEF StateType
<1>7. PICK previous \in [Scope -> Key \union {NoKey}] :
        previous = [s \in Scope |-> c.file[s].active]
      <2>1. \A s \in Scope : c.file[s].active \in Key \union {NoKey}
            BY <1>3, RingFacts
      <2> QED BY <2>1
<1>8. \A s \in Scope : previous[s] = c.file[s].active
      BY <1>7
<1>9. PICK e : e = [c EXCEPT !.pc = "read", !.keys = new, !.file = old, !.previous = previous,
                             !.metaGen = g, !.highest = g]
      OBVIOUS
<1>10. /\ c.pc = "save" /\ c.kind = "rotate" /\ vault' = vault /\ late' = late
       /\ \/ /\ keyring[home] = c.file /\ keyring' = [keyring EXCEPT ![home] = old]
             /\ cmd' = [cmd EXCEPT ![p] = Idle] \/ cmd' = [cmd EXCEPT ![p] = e]
          \/ UNCHANGED keyring /\ cmd' = [cmd EXCEPT ![p] = Idle]
      <2>1. /\ cmd[p].pc = "save" /\ cmd[p].kind = "rotate" /\ UNCHANGED <<fleetVars, recorded, keeperVars, boundVars>>
            /\ \/ /\ keyring[MachineOf[p]] = cmd[p].file
                  /\ keyring' = [keyring EXCEPT ![MachineOf[p]] = StillUsing(Rotated(cmd[p].file, minted + 1), cmd[p].file)]
                  /\ \/ cmd' = [cmd EXCEPT ![p] = Idle]
                     \/ cmd' = [cmd EXCEPT ![p] =
                           [cmd[p] EXCEPT !.pc = "read", !.keys = Rotated(cmd[p].file, minted + 1),
                                  !.file = StillUsing(Rotated(cmd[p].file, minted + 1), cmd[p].file),
                                  !.previous = [s \in Scope |-> cmd[p].file[s].active],
                                  !.metaGen = recorded[MachineOf[p]],
                                  !.highest = recorded[MachineOf[p]]]]
               \/ UNCHANGED keyring /\ cmd' = [cmd EXCEPT ![p] = Idle]
            BY SaveRotatedMoves
      <2>2. e = [c EXCEPT !.pc = "read", !.keys = Rotated(c.file, k),
                          !.file = StillUsing(Rotated(c.file, k), c.file),
                          !.previous = [s \in Scope |-> c.file[s].active],
                          !.metaGen = recorded[MachineOf[p]], !.highest = recorded[MachineOf[p]]]
            BY <1>3, <1>4, <1>6, <1>7, <1>9
      <2> QED BY <2>1, <2>2, <1>1, <1>2, <1>3, <1>4 DEF fleetVars
<1>11. \A q \in Command : q # p => cmd[q].pc = "idle"
      BY <1>1, <1>10, Alone
<1>12. CASE UNCHANGED keyring /\ cmd' = [cmd EXCEPT ![p] = Idle]
      BY <1>1, <1>10, <1>12, CommandEnds
<1>13. ASSUME keyring[home] = c.file, keyring' = [keyring EXCEPT ![home] = old],
              NEW d \in CommandState, cmd' = [cmd EXCEPT ![p] = d],
              CommandFits(d, vault, late, written, old)
       PROVE  Fits(home, vault', late', keyring', cmd', written')
      <2>1. CommandFits(c, vault, late, written, keyring[home]) /\ InUseWritten(vault, keyring, written)
            BY <1>1 DEF HandOverFits, Fits
      <2>2. NoneLate(late)
            BY <1>10, <2>1 DEF CommandFits
      <2>3. \A s \in Scope : keyring[home][s].held \subseteq old[s].held
            BY <1>5, <1>13 DEF SameHeld
      <2>4. \A s \in Scope : Fine(old[s].active, s, vault, written, old)
            BY <1>5, <1>13, <2>1 DEF Fine, InUseWritten
      <2> QED BY <1>10, <1>11, <1>13, <2>2, <2>3, <2>4, CommandSaves
<1>14. CASE keyring[home] = c.file /\ keyring' = [keyring EXCEPT ![home] = old] /\ cmd' = [cmd EXCEPT ![p] = Idle]
      <2>1. Idle \in CommandState /\ Idle.pc = "idle"
            BY IdleSound DEF CommandSound, Idle
      <2>2. CommandFits(Idle, vault, late, written, old)
            BY <2>1, IdleFits
      <2> QED BY <1>13, <1>14, <2>1, <2>2
<1>15. CASE keyring[home] = c.file /\ keyring' = [keyring EXCEPT ![home] = old] /\ cmd' = [cmd EXCEPT ![p] = e]
      <2>1. PICK f \in CommandState : f = [c EXCEPT !.pc = "read", !.keys = new, !.file = old]
            BY DEF CommandState, Steps
      <2>2. e = [f EXCEPT !.previous = previous, !.metaGen = g, !.highest = g]
            BY <1>9, <2>1 DEF CommandState
      <2>3. /\ e \in CommandState /\ e.pc = "read" /\ e.kind = c.kind /\ e.round = c.round
            /\ e.keys = new /\ e.previous = previous /\ e.states = c.states
            BY ZenonT(40), <2>1, <2>2 DEF CommandState
      <2>4. c.round = 1
            BY <1>1, <1>10 DEF CommandSound
      <2>5. CommandFits(c, vault, late, written, keyring[home]) /\ InUseWritten(vault, keyring, written)
            BY <1>1 DEF HandOverFits, Fits
      <2>6. NoneLate(late) /\ \A r \in Replica : c.states[r] = Silent
            BY <1>10, <2>5 DEF CommandFits
      <2>7. SameHeld(new, old)
            BY <1>5 DEF SameHeld
      <2>8. ASSUME NEW s \in Scope
            PROVE  /\ previous[s] \in written[s] \union {NoKey}
                   /\ HoldsScope(new, s) => previous[s] # NoKey
            <3>1. previous[s] \in written[s] \union {NoKey}
                  BY <1>8, <1>15, <2>5 DEF InUseWritten
            <3>2. HoldsScope(new, s) => previous[s] # NoKey
                  BY <1>3, <1>5, <1>8, RingFacts DEF HoldsScope
            <3> QED BY <3>1, <3>2
      <2>9. CommandFits(e, vault, late, written, old)
            BY <1>10, <2>3, <2>4, <2>6, <2>7, <2>8 DEF CommandFits, HeldMatters
      <2> QED BY <1>13, <1>15, <2>3, <2>9
<1> QED BY <1>10, <1>12, <1>14, <1>15

\* run saves the scope it minted, which no replica serves yet.
LEMMA SaveScopeFits ==
    ASSUME HandOverType, StateType', NEW home \in Machine, HandOverFits(home), Writes,
           \A p \in Command : MachineOf[p] = home, NEW p \in Command, NEW t \in Scope,
           SaveScope(p, t)
    PROVE  Fits(home, vault', late', keyring', cmd', written')
<1> USE DEF HandOverType
<1>1. PICK c \in CommandState : c = cmd[p] /\ CommandSound(c)
      BY DEF StateType
<1>2. PICK k \in Key : k = minted + 1
      BY DEF SaveScope
<1>3. PICK file \in Rings : file = keyring[home]
      BY DEF StateType
<1>4. PICK f : f = [file EXCEPT ![t] = MintedRing(k)]
      OBVIOUS
<1>5. PICK e : e = [c EXCEPT !.pc = "load"]
      OBVIOUS
<1>6. /\ c.pc = "save" /\ c.kind = "run" /\ ~HoldsScope(c.file, t) /\ vault' = vault /\ late' = late
      /\ \/ /\ file = c.file /\ keyring' = [keyring EXCEPT ![home] = f]
            /\ cmd' = [cmd EXCEPT ![p] = e]
         \/ UNCHANGED keyring /\ cmd' = [cmd EXCEPT ![p] = Idle]
      BY <1>1, <1>2, <1>3, <1>4, <1>5 DEF SaveScope, fleetVars, UnchangedFile
<1>7. \A q \in Command : q # p => cmd[q].pc = "idle"
      BY <1>1, <1>6, Alone
<1>8. CASE UNCHANGED keyring /\ cmd' = [cmd EXCEPT ![p] = Idle]
      BY <1>1, <1>6, <1>8, CommandEnds
<1>9. CASE file = c.file /\ keyring' = [keyring EXCEPT ![home] = f] /\ cmd' = [cmd EXCEPT ![p] = e]
      <2>1. /\ CommandFits(c, vault, late, written, file) /\ InUseWritten(vault, keyring, written)
            /\ FileCovers(vault, written, file)
            BY <1>1, <1>3 DEF HandOverFits, Fits
      <2>2. NoneLate(late) /\ \A r \in Replica : c.states[r] = Silent
            BY <1>6, <2>1 DEF CommandFits
      <2>3. MintedRing(k) \in Ring /\ MintedRing(k).active = k /\ MintedRing(k).held = {k}
            BY DEF MintedRing, Ring
      <2>4. f \in Rings /\ f[t] = MintedRing(k) /\ \A s \in Scope : s # t => f[s] = file[s]
            BY <1>4, <2>3 DEF Rings
      <2>5. file[t].held = {}
            BY <1>6, <1>9 DEF HoldsScope
      <2>6. \A s \in Scope : keyring[home][s].held \subseteq f[s].held
            BY <1>3, <2>4, <2>5
      <2>7. Has(vault, t, k)
            BY <2>1, <2>5 DEF Has, FileCovers, HoldsScope
      <2>8. ASSUME NEW s \in Scope
            PROVE  Fine(f[s].active, s, vault, written, f)
            <3>1. CASE s = t
                  BY <3>1, <2>3, <2>4, <2>7 DEF Fine
            <3>2. CASE s # t
                  BY <3>2, <1>3, <2>1, <2>4 DEF Fine, InUseWritten
            <3> QED BY <3>1, <3>2
      <2>9. /\ e \in CommandState /\ e.pc = "load" /\ e.kind = c.kind /\ e.round = c.round
            /\ e.states = c.states /\ e.previous = c.previous
            BY <1>5 DEF CommandState, Steps
      <2>10. CommandFits(e, vault, late, written, f)
            BY <1>6, <2>1, <2>2, <2>9 DEF CommandFits, HeldMatters
      <2> QED BY <1>6, <1>7, <1>9, <2>2, <2>4, <2>6, <2>8, <2>9, <2>10, CommandSaves
<1> QED BY <1>6, <1>8, <1>9

\* What StartPush changes.
LEMMA StartPushFacts ==
    ASSUME NEW c \in CommandState, NEW e, e = StartPush(c)
    PROVE  /\ e.pc = "push" /\ e.kind = c.kind /\ e.round = c.round /\ e.keys = c.keys
           /\ e.file = c.file /\ e.held = c.held /\ e.previous = c.previous
           /\ e.loaded = {} /\ e.refused = {}
BY DEF StartPush, CommandState

\* A push may begin with a keyring that may be sent.
LEMMA PushBegins ==
    ASSUME NEW c \in CommandState, NEW e, e = StartPush(c),
           NEW v, NEW l, NEW w, NEW file, NoneLate(l), SameHeld(c.keys, file),
           c.kind # "rotate" => c.keys = file,
           \A s \in Scope : c.previous[s] \in w[s] \union {NoKey},
           c.kind = "rotate" => \A s \in Scope : HoldsScope(c.keys, s) => c.previous[s] # NoKey,
           c.round = 1 \/ c.kind = "rotate" => Sendable(c.held, v, file),
           c.round = 2 => Sendable(c.keys, v, file)
    PROVE  CommandFits(e, v, l, w, file)
<1>1. /\ e.pc = "push" /\ e.kind = c.kind /\ e.round = c.round /\ e.keys = c.keys
      /\ e.file = c.file /\ e.held = c.held /\ e.previous = c.previous
      /\ e.loaded = {} /\ e.refused = {}
      BY StartPushFacts
<1>2. HeldMatters(e) => e.round = 1 \/ e.kind = "rotate"
      BY <1>1 DEF HeldMatters
<1> QED BY <1>1, <1>2 DEF CommandFits

\* A keyring that may be sent may also become the file.
LEMMA SendableFine ==
    ASSUME NEW v, NEW w, NEW file, NEW f \in Rings, Sendable(f, v, file)
    PROVE  /\ SameHeld(f, file) /\ \A s \in Scope : file[s].held \subseteq f[s].held
           /\ \A s \in Scope : Fine(f[s].active, s, v, w, f)
BY RingFacts DEF Sendable, SameHeld, Fine

\* Giving up is no different with a file that changed under the command.
LEMMA StopFits ==
    ASSUME NEW c \in CommandState, NEW v, NEW l, NEW w, NEW file, CommandFits(c, v, l, w, file),
           c.pc \notin {"idle", "save", "load"}
    PROVE  CommandFits(Stop(c), v, l, w, file)
<1>1. PICK e : e = Stop(c)
      OBVIOUS
<1>2. /\ e.pc = "record" /\ e.kind = c.kind /\ e.keys = c.keys /\ e.held = c.held
      /\ e.previous = c.previous /\ e.round = c.round
      BY <1>1 DEF Stop, CommandState
<1>3. CommandFits(e, v, l, w, file)
      BY <1>2, LaterFits
<1> QED BY <1>1, <1>3

\* beforeHold and beforeActivate: the machine takes the keyring over that it is
\* about to push.
LEMMA SaveFits ==
    ASSUME HandOverType, StateType', NEW home \in Machine, HandOverFits(home), Writes,
           \A p \in Command : MachineOf[p] = home, NEW p \in Command,
           SaveHeld(p) \/ SaveActive(p)
    PROVE  Fits(home, vault', late', keyring', cmd', written')
<1> USE DEF HandOverType
<1>1. PICK c \in CommandState : c = cmd[p] /\ CommandSound(c)
      BY DEF StateType
<1>2. PICK file \in Rings : file = keyring[home]
      BY DEF StateType
<1>3. PICK f \in Rings : f = IF c.pc = "hold" THEN c.held ELSE c.keys
      BY DEF CommandState
<1>4. PICK d : d = [c EXCEPT !.file = f]
      OBVIOUS
<1>5. PICK e : e = StartPush(d)
      OBVIOUS
<1>6. /\ c.pc \in {"hold", "activate"} /\ vault' = vault /\ late' = late
      /\ \/ /\ keyring' = [keyring EXCEPT ![home] = f]
            /\ cmd' = [cmd EXCEPT ![p] = e]
         \/ keyring' = keyring /\ cmd' = [cmd EXCEPT ![p] = Stop(c)]
      <2>1. CASE SaveHeld(p)
            <3>1. c.pc = "hold"
                  BY <1>1, <2>1 DEF SaveHeld
            <3>2. d = [c EXCEPT !.file = c.held] /\ f = c.held
                  BY <1>3, <1>4, <3>1
            <3> QED BY <1>1, <1>5, <2>1, <3>1, <3>2 DEF SaveHeld, fleetVars
      <2>2. CASE SaveActive(p)
            <3>1. c.pc = "activate"
                  BY <1>1, <2>2 DEF SaveActive
            <3>2. d = [c EXCEPT !.file = c.keys] /\ f = c.keys
                  BY <1>3, <1>4, <3>1
            <3> QED BY <1>1, <1>5, <2>2, <3>1, <3>2 DEF SaveActive, fleetVars
      <2> QED BY <2>1, <2>2
<1>7. \A q \in Command : q # p => cmd[q].pc = "idle"
      BY <1>1, <1>6, Alone
<1>8. CommandFits(c, vault, late, written, file)
      BY <1>1, <1>2 DEF HandOverFits, Fits
<1>9. CASE keyring' = keyring /\ cmd' = [cmd EXCEPT ![p] = Stop(c)]
      <2>1. CommandFits(Stop(c), vault, late, written, keyring[home])
            BY <1>2, <1>6, <1>8, StopFits
      <2>2. Stop(c) \in CommandState
            BY DEF Stop, CommandState, Steps
      <2> QED BY <1>6, <1>7, <1>9, <2>1, <2>2, CommandOnly
<1>10. CASE keyring' = [keyring EXCEPT ![home] = f] /\ cmd' = [cmd EXCEPT ![p] = e]
      <2>1. /\ d \in CommandState /\ d.kind = c.kind /\ d.round = c.round /\ d.keys = c.keys
            /\ d.held = c.held /\ d.previous = c.previous
            BY <1>4 DEF CommandState
      <2>2. c.kind = "rotate" /\ (c.pc = "hold" => c.round = 1) /\ (c.pc = "activate" => c.round = 2)
            BY <1>1, <1>6, <1>8 DEF CommandSound, CommandFits
      <2>3. Sendable(c.held, vault, file) /\ (c.pc = "activate" => Sendable(c.keys, vault, file))
            BY <1>6, <1>8, <2>2 DEF CommandFits, HeldMatters
      <2>4. Sendable(f, vault, file)
            BY <1>3, <1>6, <2>3
      <2>5. SameHeld(f, file)
            BY <2>4 DEF Sendable
      <2>6. Sendable(c.held, vault, f) /\ (c.pc = "activate" => Sendable(c.keys, vault, f))
            BY <2>3, <2>5, SameFile
      <2>7. /\ NoneLate(late) /\ SameHeld(c.keys, f)
            /\ \A s \in Scope : /\ c.previous[s] \in written[s] \union {NoKey}
                                /\ HoldsScope(c.keys, s) => c.previous[s] # NoKey
            BY <1>6, <1>8, <2>2, <2>5 DEF CommandFits, SameHeld
      <2>8. CommandFits(e, vault, late, written, f)
            BY <1>5, <1>6, <2>1, <2>2, <2>6, <2>7, PushBegins
      <2>9. e \in CommandState
            BY <1>10 DEF StateType
      <2>10. /\ \A s \in Scope : keyring[home][s].held \subseteq f[s].held
             /\ \A s \in Scope : Fine(f[s].active, s, vault, written, f)
            BY <1>2, <2>4, SendableFine
      <2> QED BY <1>2, <1>6, <1>7, <1>10, <2>5, <2>8, <2>9, <2>10, CommandSaves
<1> QED BY <1>6, <1>9, <1>10

\* A rotation goes back to the keys the replicas use.
LEMMA PutBackFits ==
    ASSUME HandOverType, StateType', NEW home \in Machine, HandOverFits(home), Writes,
           \A p \in Command : MachineOf[p] = home, NEW p \in Command, PutBack(p)
    PROVE  Fits(home, vault', late', keyring', cmd', written')
<1> USE DEF HandOverType
<1>1. PICK c \in CommandState : c = cmd[p] /\ CommandSound(c)
      BY DEF StateType
<1>2. PICK file \in Rings, f \in Rings : file = keyring[home] /\ f = c.held
      BY DEF StateType, CommandState
<1>3. /\ c.pc = "fallback" /\ vault' = vault /\ late' = late
      /\ cmd' = [cmd EXCEPT ![p] = Idle]
      /\ keyring' = keyring \/ keyring' = [keyring EXCEPT ![home] = f]
      BY <1>1, <1>2 DEF PutBack, fleetVars
<1>4. CASE keyring' = keyring
      BY <1>1, <1>3, <1>4, CommandEnds
<1>5. CASE keyring' = [keyring EXCEPT ![home] = f]
      <2>1. CommandFits(c, vault, late, written, file)
            BY <1>1, <1>2 DEF HandOverFits, Fits
      <2>2. c.kind = "rotate" /\ c.round = 2
            BY <1>1, <1>3 DEF CommandSound
      <2>3. Sendable(f, vault, file)
            BY <1>2, <1>3, <2>1, <2>2 DEF CommandFits, HeldMatters
      <2>4. /\ SameHeld(f, file) /\ \A s \in Scope : keyring[home][s].held \subseteq f[s].held
            /\ \A s \in Scope : Fine(f[s].active, s, vault, written, f)
            BY <1>2, <2>3, SendableFine
      <2>5. Idle \in CommandState /\ CommandFits(Idle, vault, late, written, f)
            BY IdleSound, IdleFits DEF CommandSound, Idle
      <2>6. \A q \in Command : q # p => cmd[q].pc = "idle"
            BY <1>1, <1>3, Alone
      <2> QED BY <1>2, <1>3, <1>5, <2>4, <2>5, <2>6, CommandSaves
<1> QED BY <1>3, <1>4, <1>5

\* Asking the replicas that refused, and recording a generation, move no key.
LEMMA FinishFits ==
    ASSUME HandOverType, StateType', NEW home \in Machine, HandOverFits(home), Writes,
           NEW p \in Command,
           \/ \E r \in Replica, answered \in BOOLEAN : ConfirmReplica(p, r, answered)
           \/ Record(p) \/ Kill(p)
    PROVE  Fits(home, vault', late', keyring', cmd', written')
<1> USE DEF HandOverType
<1>1. PICK c \in CommandState : c = cmd[p] /\ CommandSound(c)
      BY DEF StateType
<1>2. vault' = vault /\ late' = late /\ keyring' = keyring /\ c.pc # "idle"
      BY <1>1 DEF ConfirmReplica, Record, Kill, fleetVars, machineVars
<1>3. CASE cmd' = [cmd EXCEPT ![p] = Idle]
      BY <1>1, <1>2, <1>3, CommandEnds
<1>4. ASSUME NEW e \in CommandState, cmd' = [cmd EXCEPT ![p] = e],
             c.pc \in {"confirm", "record"}, e.pc \in {"confirm", "record", "fallback"},
             e.kind = c.kind, e.keys = c.keys, e.held = c.held, e.previous = c.previous,
             e.round = c.round
      PROVE  Fits(home, vault', late', keyring', cmd', written')
      <2>1. CommandFits(c, vault, late, written, keyring[home])
            BY <1>1 DEF HandOverFits, Fits
      <2>2. CommandFits(e, vault, late, written, keyring[home])
            BY <1>4, <2>1, LaterFits
      <2>3. \A q \in Command : q # p => cmd[q].pc = "idle"
            BY <1>1, <1>2, Alone
      <2> QED BY <1>2, <1>4, <2>2, <2>3, CommandOnly
<1>5. ASSUME NEW r \in Replica, NEW answered \in BOOLEAN, ConfirmReplica(p, r, answered)
      PROVE  Fits(home, vault', late', keyring', cmd', written')
      <2>1. PICK e \in CommandState :
              /\ cmd' = [cmd EXCEPT ![p] = e]
              /\ c.pc = "confirm" /\ e.pc \in {"record", "confirm"}
              /\ e.kind = c.kind /\ e.round = c.round /\ e.keys = c.keys
              /\ e.held = c.held /\ e.previous = c.previous
            BY <1>1, <1>5, ConfirmMoves
      <2> QED BY <1>4, <2>1
<1>6. CASE Record(p)
      <2>1. PICK e : e = [c EXCEPT !.pc = "fallback"]
            OBVIOUS
      <2>2. c.pc = "record" /\ (cmd' = [cmd EXCEPT ![p] = Idle] \/ cmd' = [cmd EXCEPT ![p] = e])
            BY <1>1, <1>6, <2>1 DEF Record
      <2>3. /\ e \in CommandState /\ e.pc = "fallback" /\ e.kind = c.kind /\ e.round = c.round
            /\ e.keys = c.keys /\ e.held = c.held /\ e.previous = c.previous
            BY <2>1 DEF CommandState, Steps
      <2> QED BY <1>3, <1>4, <2>2, <2>3
<1>7. CASE Kill(p)
      BY <1>3, <1>7 DEF Kill
<1> QED BY <1>5, <1>6, <1>7

\* A fresh answer is true.
LEMMA AskedFits ==
    ASSUME NEW c, CommandSound(c), c.pc = "read", NEW a \in Answer,
           NEW d, d = AskedOf(c, c.next, a),
           NEW v, NEW l, NEW w, NEW file, CommandFits(c, v, l, w, file),
           a = Silent \/ a = v[c.next],
           \A r \in Replica, s \in Scope :
             Serving(v[r]) => v[r].rings[s].active \in w[s] \union {NoKey}
    PROVE  CommandFits(d, v, l, w, file)
<1>1. /\ d \in CommandState /\ d.kind = c.kind /\ d.round = c.round /\ d.pc = "read"
      /\ d.keys = c.keys /\ d.held = c.held /\ d.previous = c.previous
      /\ d.states[c.next] = a
      /\ \A r \in Replica : r # c.next => d.states[r] = c.states[r]
      /\ d.heldLoaded = c.heldLoaded
      BY ONLY CommandSound(c), c.pc = "read", a \in Answer, d = AskedOf(c, c.next, a), AskedType
<1>2. c.next \in Replica
      BY DEF CommandSound
<1>3. ASSUME NEW r \in Replica, d.states[r] # Silent
      PROVE  StillTrue(d, v, w, r)
      <2>1. CASE r = c.next
            BY <1>1, <1>2, <1>3, <2>1 DEF StillTrue, SameHeld
      <2>2. CASE r # c.next
            <3>1. d.states[r] = c.states[r] /\ StillTrue(c, v, w, r)
                  BY <1>1, <1>3, <2>2 DEF CommandFits
            <3> QED BY <3>1 DEF StillTrue
      <2> QED BY <2>1, <2>2
<1>4. HeldMatters(d) => HeldMatters(c)
      BY <1>1 DEF HeldMatters
<1> QED BY <1>1, <1>3, <1>4 DEF CommandFits

\* The key to use meanwhile is one that somebody writes under already.
LEMMA MeanwhileWritten ==
    ASSUME NEW c, NEW v, NEW l, NEW w, NEW file, CommandFits(c, v, l, w, file), c.pc = "read",
           NEW s \in Scope, NEW k \in Meanwhile(c.keys, c.states, c.previous, s)
    PROVE  k \in w[s] \union {NoKey}
<1>1. k = c.previous[s] \/ InUse(c.states, s, k)
      BY DEF Meanwhile, Usable
<1>2. CASE k = c.previous[s]
      BY <1>2 DEF CommandFits
<1>3. CASE InUse(c.states, s, k)
      <2>1. PICK r \in Replica : Serving(c.states[r]) /\ c.states[r].rings[s].active = k
            BY <1>3 DEF InUse, Holders
      <2>2. c.states[r] # Silent
            BY <2>1 DEF Serving, Silent
      <2>3. StillTrue(c, v, w, r)
            BY <2>2 DEF CommandFits
      <2> QED BY <2>1, <2>3 DEF StillTrue
<1> QED BY <1>1, <1>2, <1>3

\* The keyring of the first push may be sent.
LEMMA HeldSendable ==
    ASSUME NEW c \in CommandState, NEW v, NEW l, NEW w, NEW file,
           CommandFits(c, v, l, w, file), c.pc = "read", FileCovers(v, w, file),
           \A s \in Scope : file[s].active \in w[s] \union {NoKey},
           NEW h \in HeldKeyrings(c.keys, c.states, c.previous)
    PROVE  h \in Rings /\ SameHeld(h, c.keys) /\ Sendable(h, v, file)
<1> DEFINE back == HeldBack(c.keys, c.states, c.previous)
<1>1. c.keys \in Rings
      BY DEF CommandState
<1>2. h \in Rings /\ SameHeld(h, c.keys)
      BY <1>1, HeldKeyringTypes
<1>3. PICK a \in [back -> Key] :
        /\ h = WithActive(c.keys, a)
        /\ \A s \in back : a[s] \in Meanwhile(c.keys, c.states, c.previous, s)
      BY DEF HeldKeyrings
<1>4. ASSUME NEW s \in Scope
      PROVE  h[s].active \in w[s] \union {NoKey}
      <2>1. DOMAIN a = back
            OBVIOUS
      <2>2. h[s] = IF s \in back THEN [c.keys[s] EXCEPT !.active = a[s]] ELSE c.keys[s]
            BY <1>3, <2>1 DEF WithActive
      <2>3. CASE s \in back
            <3>1. a[s] \in w[s] \union {NoKey}
                  BY <1>3, <2>3, MeanwhileWritten
            <3>2. c.keys[s] \in Ring \union {NoRing}
                  BY <1>1 DEF Rings
            <3>3. h[s].active = a[s]
                  BY <2>2, <2>3, <3>2 DEF Ring, NoRing
            <3> QED BY <3>1, <3>3
      <2>4. CASE s \notin back
            <3>1. h[s] = c.keys[s] /\ ~NeedsHold(c.keys, c.states, c.previous, s)
                  BY <2>2, <2>4 DEF HeldBack
            <3>2. CASE c.kind # "rotate"
                  BY <3>1, <3>2 DEF CommandFits
            <3>3. CASE c.kind = "rotate"
                  <4>1. ~HoldsScope(c.keys, s)
                        BY <3>1, <3>3 DEF NeedsHold, CommandFits
                  <4>2. c.keys[s].active = NoKey
                        BY <1>1, <4>1, RingFacts DEF HoldsScope
                  <4> QED BY <3>1, <4>2
            <3> QED BY <3>2, <3>3
      <2> QED BY <2>3, <2>4
<1>5. SameHeld(h, file)
      BY <1>2 DEF CommandFits, SameHeld
<1>6. Sendable(h, v, file)
      BY <1>4, <1>5 DEF Sendable, FileCovers
<1> QED BY <1>2, <1>6

\* planHandOver: a plan pushes only what may be sent.
LEMMA PlannedFits ==
    ASSUME NEW c \in CommandState, c.round = 1, c.pc = "read",
           c.kind = "rotate" => RotationSound(c),
           NEW v, NEW l, NEW w, NEW file, CommandFits(c, v, l, w, file), FileCovers(v, w, file),
           \A s \in Scope : file[s].active \in w[s] \union {NoKey},
           NEW e \in Planned(c)
    PROVE  CommandFits(e, v, l, w, file)
<1>1. PICK d : d = [c EXCEPT !.leaveSealed = c.kind = "unseal" /\ Unchecked(c.states)]
      OBVIOUS
<1>2. /\ d \in CommandState /\ d.kind = c.kind /\ d.round = c.round /\ d.pc = c.pc
      /\ d.keys = c.keys /\ d.held = c.held /\ d.previous = c.previous /\ d.states = c.states
      /\ d.heldLoaded = c.heldLoaded
      BY <1>1 DEF CommandState
<1>3. /\ NoneLate(l) /\ SameHeld(c.keys, file)
      /\ c.kind # "rotate" => c.keys = file
      /\ \A s \in Scope : c.previous[s] \in w[s] \union {NoKey}
      /\ c.kind = "rotate" => \A s \in Scope : HoldsScope(c.keys, s) => c.previous[s] # NoKey
      BY DEF CommandFits
<1>4. CASE Refused(c.keys, c.states, c.previous)
      <2>1. e = Stop(d)
            BY <1>1, <1>4 DEF Planned
      <2>2. /\ e.pc = "record" /\ e.kind = c.kind /\ e.keys = c.keys /\ e.held = c.held
            /\ e.previous = c.previous /\ e.round = c.round
            BY <2>1, <1>2 DEF Stop, CommandState
      <2> QED BY <2>2, LaterFits
<1>5. CASE ~Refused(c.keys, c.states, c.previous) /\ HeldBack(c.keys, c.states, c.previous) = {}
      <2>1. PICK f : f = [d EXCEPT !.round = 2]
            OBVIOUS
      <2>2. e = StartPush(f)
            BY <1>1, <1>5, <2>1 DEF Planned
      <2>3. /\ f \in CommandState /\ f.kind = c.kind /\ f.round = 2 /\ f.keys = c.keys
            /\ f.held = c.held /\ f.previous = c.previous
            BY <1>2, <2>1 DEF CommandState
      <2>4. c.kind # "rotate"
            BY <1>5, RotationHolds
      <2>5. Sendable(c.keys, v, file)
            BY <1>3, <2>4 DEF Sendable, FileCovers
      <2> QED BY <1>3, <2>2, <2>3, <2>4, <2>5, PushBegins
<1>6. CASE ~Refused(c.keys, c.states, c.previous) /\ HeldBack(c.keys, c.states, c.previous) # {}
      <2>1. PICK h \in HeldKeyrings(c.keys, c.states, c.previous) :
              e = IF c.kind = "rotate" THEN [d EXCEPT !.pc = "hold", !.held = h]
                                       ELSE StartPush([d EXCEPT !.held = h])
            BY <1>1, <1>6 DEF Planned
      <2>2. h \in Rings /\ SameHeld(h, c.keys) /\ Sendable(h, v, file)
            BY HeldSendable
      <2>3. CASE c.kind = "rotate"
            <3>1. e = [d EXCEPT !.pc = "hold", !.held = h]
                  BY <2>1, <2>3
            <3>2. /\ e.kind = c.kind /\ e.round = c.round /\ e.pc = "hold"
                  /\ e.keys = c.keys /\ e.held = h /\ e.previous = c.previous
                  BY <3>1, <1>2 DEF CommandState
            <3> QED BY <1>3, <2>2, <2>3, <3>2 DEF CommandFits, HeldMatters
      <2>4. CASE c.kind # "rotate"
            <3>1. PICK f : f = [d EXCEPT !.held = h]
                  OBVIOUS
            <3>2. e = StartPush(f)
                  BY <2>1, <2>4, <3>1
            <3>3. /\ f \in CommandState /\ f.kind = c.kind /\ f.round = c.round /\ f.keys = c.keys
                  /\ f.held = h /\ f.previous = c.previous
                  BY <1>2, <2>2, <3>1 DEF CommandState
            <3> QED BY <1>3, <2>2, <2>4, <3>2, <3>3, PushBegins
      <2> QED BY <2>3, <2>4
<1> QED BY <1>4, <1>5, <1>6

\* The second read: when every replica that serves has the new keys, or took
\* them and is silent now, every replica that serves can read what will be
\* written under them.
LEMMA ReplannedFits ==
    ASSUME NEW c \in CommandState, c.round = 2, c.pc = "read",
           NEW v, NEW l, NEW w, NEW file, CommandFits(c, v, l, w, file), FileCovers(v, w, file),
           \A s \in Scope : file[s].active \in w[s] \union {NoKey},
           NEW e \in Replanned(c)
    PROVE  CommandFits(e, v, l, w, file)
<1>1. /\ NoneLate(l) /\ SameHeld(c.keys, file)
      /\ c.kind # "rotate" => c.keys = file
      /\ \A s \in Scope : c.previous[s] \in w[s] \union {NoKey}
      /\ c.kind = "rotate" => \A s \in Scope : HoldsScope(c.keys, s) => c.previous[s] # NoKey
      BY DEF CommandFits
<1>2. c.keys \in Rings
      BY DEF CommandState
<1>3. CASE ~MayActivate(c)
      BY <1>3, StopFits DEF Replanned
<1>4. CASE MayActivate(c)
      <2>1. ASSUME NEW s \in Scope, c.keys[s].active # NoKey
            PROVE  Has(v, s, c.keys[s].active)
            <3>1. SUFFICES ASSUME NEW r \in Replica, Serving(v[r]), HoldsScope(v[r].rings, s)
                           PROVE  c.keys[s].active \in v[r].rings[s].held
                  BY DEF Has
            <3>2. c.keys[s].active \in c.keys[s].held /\ HoldsScope(c.keys, s)
                  BY <1>2, <2>1, RingFacts DEF HoldsScope
            <3>3. CASE c.states[r] = Silent
                  <4>1. Whole(v, r, file)
                        BY <1>4, <3>3 DEF MayActivate, CommandFits
                  <4> QED BY <1>1, <3>1, <3>2, <4>1 DEF Whole, SameHeld
            <3>4. CASE c.states[r] # Silent
                  <4>1. StillTrue(c, v, w, r)
                        BY <3>4 DEF CommandFits
                  <4>2. Serving(c.states[r]) /\ v[r].rings[s].held = c.states[r].rings[s].held
                        BY <3>1, <4>1 DEF StillTrue, SameHeld
                  <4>3. r \in Holders(c.states, s)
                        BY <3>1, <4>2 DEF Holders, HoldsScope
                  <4>4. HeldByAll(c.states, s, c.keys[s].active)
                        BY <1>4, <3>2 DEF MayActivate, HeldBack, NeedsHold
                  <4> QED BY <4>2, <4>3, <4>4 DEF HeldByAll
            <3> QED BY <3>3, <3>4
      <2>2. Sendable(c.keys, v, file)
            BY <1>1, <2>1 DEF Sendable
      <2>3. CASE c.kind = "rotate"
            <3>1. e = [c EXCEPT !.pc = "activate"]
                  BY <1>4, <2>3 DEF Replanned
            <3>2. /\ e.kind = c.kind /\ e.round = c.round /\ e.pc = "activate"
                  /\ e.keys = c.keys /\ e.held = c.held /\ e.previous = c.previous
                  BY <3>1 DEF CommandState
            <3>3. Sendable(c.held, v, file)
                  BY <2>3 DEF CommandFits, HeldMatters
            <3> QED BY <1>1, <2>2, <2>3, <3>2, <3>3 DEF CommandFits
      <2>4. CASE c.kind # "rotate"
            <3>1. e = StartPush(c)
                  BY <1>4, <2>4 DEF Replanned
            <3> QED BY <1>1, <2>2, <2>4, <3>1, PushBegins
      <2> QED BY <2>3, <2>4
<1> QED BY <1>3, <1>4

\* A command asks a replica.
LEMMA ReadFits ==
    ASSUME HandOverType, StateType', NEW home \in Machine, HandOverFits(home), Writes,
           NEW p \in Command, NEW answered \in BOOLEAN, ReadReplica(p, answered)
    PROVE  Fits(home, vault', late', keyring', cmd', written')
<1> USE DEF HandOverType
<1>1. PICK c : c = cmd[p] /\ CommandSound(c)
      BY DEF StateType
<1>2. PICK a : a = IF answered THEN vault[c.next] ELSE Silent
      OBVIOUS
<1>3. PICK d : d = AskedOf(c, c.next, a)
      OBVIOUS
<1>4. /\ c.pc = "read" /\ c.next \in Replica /\ a \in Answer
      /\ UNCHANGED <<fleetVars, machineVars, keeperVars, commands, events>>
      /\ \/ c.next + 1 < Replicas /\ cmd' = [cmd EXCEPT ![p] = d]
         \/ c.round = 1 /\ \E e \in Planned(d) : cmd' = [cmd EXCEPT ![p] = e]
         \/ c.round = 2 /\ \E e \in Replanned(d) : cmd' = [cmd EXCEPT ![p] = e]
      BY <1>1, <1>2, <1>3, ReadReplicaMoves
<1>5. PICK file \in Rings : file = keyring[home]
      BY DEF StateType
<1>6. /\ CommandFits(c, vault, late, written, file) /\ InUseWritten(vault, keyring, written)
      /\ FileCovers(vault, written, file)
      BY <1>1, <1>5 DEF HandOverFits, Fits
<1>7. \A s \in Scope : file[s].active \in written[s] \union {NoKey}
      BY <1>5, <1>6 DEF InUseWritten
<1>8. /\ d \in CommandState /\ d.kind = c.kind /\ d.round = c.round /\ d.pc = "read"
      /\ d.keys = c.keys /\ d.file = c.file /\ d.held = c.held
      /\ d.previous = c.previous
      <2>1. CommandSound(c) /\ c.pc = "read" /\ a \in Answer
            BY <1>1, <1>4
      <2>2. d = AskedOf(c, c.next, a)
            BY <1>3
      <2> QED BY ONLY <2>1, <2>2, AskedType
<1>9. d.kind = "rotate" => RotationSound(d)
      BY <1>1, <1>4, <1>8 DEF CommandSound, RotationSound
<1>10. CommandFits(d, vault, late, written, file)
      <2>1. CommandSound(c) /\ c.pc = "read" /\ a \in Answer
            BY <1>1, <1>4
      <2>2. d = AskedOf(c, c.next, a) /\ (a = Silent \/ a = vault[c.next])
            BY <1>2, <1>3
      <2>3. /\ CommandFits(c, vault, late, written, file)
            /\ \A r \in Replica, s \in Scope :
                 Serving(vault[r]) => vault[r].rings[s].active \in written[s] \union {NoKey}
            BY <1>6 DEF InUseWritten
      <2> QED BY ONLY <2>1, <2>2, <2>3, AskedFits
<1>11. \E e : cmd' = [cmd EXCEPT ![p] = e] /\ CommandFits(e, vault, late, written, file)
      <2>1. CASE cmd' = [cmd EXCEPT ![p] = d]
            BY <1>10, <2>1
      <2>2. CASE c.round = 1 /\ \E e \in Planned(d) : cmd' = [cmd EXCEPT ![p] = e]
            <3>1. PICK e \in Planned(d) : cmd' = [cmd EXCEPT ![p] = e]
                  BY <2>2
            <3>2. d.round = 1
                  BY <1>8, <2>2
            <3>3. CommandFits(e, vault, late, written, file)
                  BY <1>6, <1>7, <1>8, <1>9, <1>10, <3>2, PlannedFits
            <3> QED BY <3>1, <3>3
      <2>3. CASE c.round = 2 /\ \E e \in Replanned(d) : cmd' = [cmd EXCEPT ![p] = e]
            <3>1. PICK e \in Replanned(d) : cmd' = [cmd EXCEPT ![p] = e]
                  BY <2>3
            <3>2. d.round = 2
                  BY <1>8, <2>3
            <3>3. CommandFits(e, vault, late, written, file)
                  BY <1>6, <1>7, <1>8, <1>10, <3>2, ReplannedFits
            <3> QED BY <3>1, <3>3
      <2> QED BY <1>4, <2>1, <2>2, <2>3
<1>12. PICK e : cmd' = [cmd EXCEPT ![p] = e] /\ CommandFits(e, vault, late, written, file)
      BY <1>11
<1>13. e \in CommandState
      BY <1>12 DEF StateType
<1>14. \A q \in Command : q # p => cmd[q].pc = "idle"
      BY <1>1, <1>4, Alone
<1>15. vault' = vault /\ late' = late /\ keyring' = keyring
      BY <1>4 DEF fleetVars, machineVars
<1> QED BY <1>5, <1>12, <1>13, <1>14, <1>15, CommandOnly

\* Being done with one replica: a push that failed, and may still arrive, keeps
\* a first push from being followed by a second.
LEMMA PushedFits ==
    ASSUME NEW c, CommandSound(c), c.pc = "push", NEW where, NEW e, e = PushedTo(c, c.next, where),
           NEW v, NEW v2, NEW l, NEW l2, NEW w, NEW w2, NEW file, CommandFits(c, v, l, w, file),
           Moved(v, v2, file), where # "refused" => l2 = l,
           \A s \in Scope : w[s] \subseteq w2[s],
           where = "loaded" => Whole(v2, c.next, file)
    PROVE  CommandFits(e, v2, l2, w2, file)
<1>1. PICK ls, rs :
        /\ ls = (IF where = "loaded" THEN c.loaded \union {c.next} ELSE c.loaded)
        /\ rs = (IF where = "refused" THEN c.refused \union {c.next} ELSE c.refused)
      OBVIOUS
<1>2. /\ e.kind = c.kind /\ e.keys = c.keys /\ e.file = c.file /\ e.held = c.held
      /\ e.previous = c.previous
      /\ \/ /\ e.pc = "push" /\ e.round = c.round /\ e.next = c.next + 1
            /\ e.loaded = ls /\ e.refused = rs
         \/ /\ e.pc = "read" /\ c.round = 1 /\ e.round = 2
            /\ e.states = AllSilent /\ e.heldLoaded = ls /\ rs = {}
         \/ e.pc \in {"record", "confirm"} /\ e.round = c.round
      <2>1. /\ CommandSound(c) /\ c.pc = "push" /\ e = PushedTo(c, c.next, where)
            /\ ls = (IF where = "loaded" THEN c.loaded \union {c.next} ELSE c.loaded)
            /\ rs = (IF where = "refused" THEN c.refused \union {c.next} ELSE c.refused)
            BY <1>1
      <2>2. /\ e.kind = c.kind /\ e.keys = c.keys /\ e.file = c.file /\ e.held = c.held
            /\ e.previous = c.previous
            BY ONLY <2>1, PushedKeeps
      <2>3. \/ /\ e.pc = "push" /\ e.round = c.round /\ e.next = c.next + 1
               /\ e.loaded = ls /\ e.refused = rs
            \/ /\ e.pc = "read" /\ c.round = 1 /\ e.round = 2
               /\ e.states = AllSilent /\ e.heldLoaded = ls /\ rs = {}
            \/ e.pc \in {"record", "confirm"} /\ e.round = c.round
            BY ONLY <2>1, PushedMoves
      <2> QED BY <2>2, <2>3
<1>3. c \in CommandState /\ c.keys \in Rings /\ c.held \in Rings /\ c.loaded \subseteq Replica /\ c.next \in Replica
      BY DEF CommandSound, CommandState
<1>4. rs = {} => NoneLate(l2)
      BY <1>1 DEF CommandFits
<1>5. Sendable(c.keys, v, file) => Sendable(c.keys, v2, file)
      BY <1>3, SendableStays
<1>6. Sendable(c.held, v, file) => Sendable(c.held, v2, file)
      BY <1>3, SendableStays
<1>7. c.round = 1 => \A r \in ls : Whole(v2, r, file)
      <2>1. c.round = 1 => \A r \in c.loaded : Whole(v, r, file)
            BY DEF CommandFits
      <2>2. c.round = 1 => \A r \in c.loaded : Whole(v2, r, file)
            BY <1>3, <2>1, WholeStays
      <2> QED BY <1>1, <2>2
<1>8. /\ SameHeld(c.keys, file)
      /\ c.kind # "rotate" => c.keys = file
      /\ \A s \in Scope : c.previous[s] \in w2[s] \union {NoKey}
      /\ c.kind = "rotate" => \A s \in Scope : HoldsScope(c.keys, s) => c.previous[s] # NoKey
      BY DEF CommandFits
<1>9. /\ c.round = 2 => Sendable(c.keys, v2, file)
      /\ c.round = 1 \/ (c.kind = "rotate" /\ c.round = 2) => Sendable(c.held, v2, file)
      BY <1>5, <1>6 DEF CommandFits, HeldMatters
<1>10. CASE e.pc = "push"
      BY <1>2, <1>4, <1>7, <1>8, <1>9, <1>10 DEF CommandFits, HeldMatters
<1>11. CASE e.pc = "read"
      <2>1. \A r \in Replica : e.states[r] = Silent
            BY <1>2, <1>11 DEF AllSilent
      <2> QED BY <1>2, <1>4, <1>7, <1>8, <1>9, <1>11, <2>1 DEF CommandFits, HeldMatters
<1>12. CASE e.pc \in {"record", "confirm"}
      BY <1>2, <1>8, <1>9, <1>12 DEF CommandFits, HeldMatters
<1> QED BY <1>2, <1>10, <1>11, <1>12

\* What a command sends may be sent.
LEMMA SentSendable ==
    ASSUME NEW c \in CommandState, c.pc = "push", NEW v, NEW l, NEW w, NEW file,
           CommandFits(c, v, l, w, file)
    PROVE  Sendable(Sent(c).bundle.rings, v, file)
<1>1. PICK rings \in Rings : rings = IF c.round = 1 THEN c.held ELSE c.keys
      BY DEF CommandState
<1>2. Sent(c).bundle.rings = rings
      BY <1>1 DEF Sent
<1>3. Sendable(rings, v, file)
      BY <1>1 DEF CommandFits, HeldMatters, CommandState
<1> QED BY <1>2, <1>3

Pushes(p) ==
    \/ PassOver(p) \/ PushReplica(p)
    \/ \E how \in {"lost", "answer lost", "late"} : PushFails(p, how)

Outcomes == {"unreached", "waiting", "loaded", "refused"}

\* What a push by c of p does to its replica, to the calls in flight and to the
\* command: the replica stays as it is or takes what was sent.
PushMade(p, c, a, where) ==
    /\ vault' = [vault EXCEPT ![c.next] = a]
    /\ a = vault[c.next] \/ (Serving(a) /\ a.rings = Sent(c).bundle.rings)
    /\ where = "loaded" => a.rings = Sent(c).bundle.rings
    /\ cmd' = [cmd EXCEPT ![p] = PushedTo(c, c.next, where)]
    /\ \/ late' = late
       \/ where = "refused" /\ late' = [late EXCEPT ![c.next] = late[c.next] \union {Sent(c)}]
    /\ (a = vault[c.next] /\ late' = late) \/ ~LeavesAlone(c, c.next)

\* Every push comes to that.
LEMMA PushMoves ==
    ASSUME StateType, NEW p \in Command, Pushes(p), NEW c, c = cmd[p]
    PROVE  \E a \in VaultState, where \in Outcomes : PushMade(p, c, a, where)
<1> USE DEF Outcomes
<1>0. PICK r, x : r = c.next /\ x = Sent(c)
      OBVIOUS
<1>1. c \in CommandState /\ CommandSound(c) /\ c.pc = "push"
      BY DEF Pushes, StateType, PassOver, PushReplica, PushFails
<1>2. r \in Replica /\ x \in InFlight
      BY <1>0, <1>1, SentType DEF CommandSound
<1>3. PICK b \in BundleOf({Instance}), intent \in Intent : b = x.bundle /\ intent = x.intent
      BY <1>2 DEF InFlight
<1>4. PICK after : after = UnsealVault(vault[r], b, intent)
      OBVIOUS
<1>5. vault[r] \in VaultState /\ vault = [vault EXCEPT ![r] = vault[r]]
      BY <1>2 DEF StateType
<1>6. after \in VaultState /\ (after = vault[r] \/ (Serving(after) /\ after.rings = b.rings))
      <2>1. vault[r] \in VaultState /\ b \in BundleOf({Instance}) /\ intent \in Intent
            BY <1>5
      <2> QED BY ONLY <1>4, <2>1, UnsealInstalls
<1>7. CASE PassOver(p)
      <2>1. PICK where \in Outcomes :
              where = IF c.states[r] = Silent THEN "unreached" ELSE "waiting"
            OBVIOUS
      <2>2. vault' = vault /\ late' = late /\ cmd' = [cmd EXCEPT ![p] = PushedTo(c, c.next, where)]
            BY <1>0, <1>7, <2>1 DEF PassOver, fleetVars
      <2>3. where # "loaded"
            BY <2>1
      <2>4. PushMade(p, c, vault[r], where)
            BY <1>0, <1>5, <2>2, <2>3 DEF PushMade
      <2> QED BY <1>5, <2>1, <2>4
<1>8. CASE PushReplica(p)
      <2>1. PICK verdict : verdict = UnsealVerdict(vault[r], b, intent)
            OBVIOUS
      <2>2. PICK where \in Outcomes :
              where = IF verdict = "not-serving" THEN "waiting"
                      ELSE IF Accepted(verdict) /\ after.rings = b.rings THEN "loaded" ELSE "refused"
            OBVIOUS
      <2>3. /\ vault' = [vault EXCEPT ![r] = after] /\ late' = late /\ ~LeavesAlone(c, r)
            /\ cmd' = [cmd EXCEPT ![p] = PushedTo(c, c.next, where)]
            BY <1>0, <1>3, <1>4, <1>8, <2>1, <2>2 DEF PushReplica
      <2>4. where = "loaded" => after.rings = b.rings
            BY <2>2
      <2>5. PushMade(p, c, after, where)
            BY <1>0, <1>3, <1>6, <2>3, <2>4 DEF PushMade
      <2> QED BY <1>6, <2>2, <2>5
<1>9. ASSUME NEW how \in {"lost", "answer lost", "late"}, PushFails(p, how)
      PROVE  \E a \in VaultState : PushMade(p, c, a, "refused")
      <2>1. /\ vault' = IF how = "answer lost" THEN [vault EXCEPT ![r] = after] ELSE vault
            /\ late' = IF how = "late" THEN [late EXCEPT ![r] = late[r] \union {x}] ELSE late
            /\ cmd' = [cmd EXCEPT ![p] = PushedTo(c, c.next, "refused")]
            /\ ~LeavesAlone(c, r)
            BY <1>0, <1>3, <1>4, <1>9 DEF PushFails
      <2>2. PICK a \in VaultState : a = IF how = "answer lost" THEN after ELSE vault[r]
            BY <1>5, <1>6
      <2>3. PushMade(p, c, a, "refused")
            BY <1>0, <1>3, <1>5, <1>6, <2>1, <2>2 DEF PushMade
      <2> QED BY <2>3
<1> QED BY <1>7, <1>8, <1>9 DEF Pushes

\* A push passes a replica over, is answered, or fails for its caller.
LEMMA PushFits ==
    ASSUME HandOverType, StateType', NEW home \in Machine, HandOverFits(home), Writes,
           NEW p \in Command, Pushes(p)
    PROVE  Fits(home, vault', late', keyring', cmd', written')
<1> USE DEF HandOverType
<1>1. PICK c \in CommandState : c = cmd[p] /\ CommandSound(c)
      BY DEF StateType
<1>2. PICK file \in Rings : file = keyring[home]
      BY DEF StateType
<1>3. c.pc = "push" /\ keyring' = keyring
      BY <1>1 DEF Pushes, PassOver, PushReplica, PushFails, machineVars
<1>4. CommandFits(c, vault, late, written, file)
      BY <1>1, <1>2 DEF HandOverFits, Fits
<1>5. PICK r \in Replica : r = c.next
      BY <1>1, <1>3 DEF CommandSound
<1>6. PICK x \in InFlight : x = Sent(c)
      BY SentType
<1>7. PICK b \in BundleOf({Instance}), intent \in Intent : b = x.bundle /\ intent = x.intent
      BY DEF InFlight
<1>8. Sendable(b.rings, vault, file)
      BY <1>3, <1>4, <1>6, <1>7, SentSendable
<1>9. PICK a \in VaultState, where \in Outcomes : PushMade(p, c, a, where)
      BY <1>1, PushMoves
<1>13. /\ vault' = [vault EXCEPT ![r] = a]
       /\ a = vault[r] \/ (Serving(a) /\ a.rings = b.rings)
       /\ where = "loaded" => a.rings = b.rings
       /\ cmd' = [cmd EXCEPT ![p] = PushedTo(c, c.next, where)]
       /\ late' = late \/ (where = "refused" /\ late' = [late EXCEPT ![r] = late[r] \union {x}])
      BY <1>5, <1>6, <1>7, <1>9 DEF PushMade
<1>14. /\ Moved(vault, vault', file)
       /\ FileCovers(vault', written', keyring'[home]) /\ InUseWritten(vault', keyring', written')
       /\ \A m \in Machine, s \in Scope : keyring'[m][s].held \subseteq keyring'[home][s].held
      BY <1>2, <1>3, <1>8, <1>13, VaultStep
<1>15. \A s \in Scope : written[s] \subseteq written'[s]
      BY WritesLogged DEF Logged
<1>16. PICK e : e = PushedTo(c, c.next, where)
      OBVIOUS
<1>17. CommandFits(e, vault', late', written', file)
      <2>1. where = "loaded" => Whole(vault', c.next, file)
            BY <1>5, <1>8, <1>13 DEF Whole, Sendable, StateType
      <2>2. CommandSound(c) /\ c.pc = "push" /\ (where # "refused" => late' = late)
            BY <1>1, <1>3, <1>13
      <2>3. Moved(vault, vault', file)
            BY <1>14
      <2> QED BY ONLY <2>1, <2>2, <2>3, <1>4, <1>15, <1>16, PushedFits
<1>18. ASSUME NEW q \in Replica, NEW y \in late'[q]
       PROVE  Sendable(y.bundle.rings, vault', file)
      <2>1. y \in late[q] \/ y = x
            <3>1. CASE late' = late
                  BY <3>1
            <3>2. CASE late' = [late EXCEPT ![r] = late[r] \union {x}]
                  BY <3>2 DEF StateType
            <3> QED BY <1>13, <3>1, <3>2
      <2>2. Sendable(y.bundle.rings, vault, file) /\ y.bundle.rings \in Rings
            <3>1. CASE y \in late[q]
                  <4>1. y \in InFlight
                        BY <3>1 DEF StateType
                  <4>2. Sendable(y.bundle.rings, vault, file)
                        BY <1>2, <3>1 DEF HandOverFits, Fits
                  <4> QED BY <4>1, <4>2 DEF InFlight, BundleOf
            <3>2. CASE y = x
                  BY <3>2, <1>7, <1>8 DEF BundleOf
            <3> QED BY <2>1, <3>1, <3>2
      <2> QED BY <1>14, <2>2, SendableStays
<1>19. \A q \in Command : q # p => cmd[q].pc = "idle"
      BY <1>1, <1>3, Alone
<1>20. cmd \in [Command -> CommandState] /\ cmd' = [cmd EXCEPT ![p] = e] /\ keyring'[home] = file
      BY <1>2, <1>3, <1>13, <1>16 DEF StateType
<1> QED BY <1>14, <1>17, <1>18, <1>19, <1>20, FitsAfter

\* Restarts, seals, released holds and late pushes.
LEMMA ReplicaFits ==
    ASSUME HandOverType, StateType', NEW home \in Machine, HandOverFits(home), Writes,
           NEW r \in Replica, ReplicaStep(r)
    PROVE  Fits(home, vault', late', keyring', cmd', written')
<1> USE DEF HandOverType
<1>1. keyring' = keyring /\ cmd' = cmd
      BY DEF ReplicaStep, Restart, ReleaseReplica, SealReplica, DeliverLate, Event, machineVars
<1>2. PICK file \in Rings : file = keyring[home]
      BY DEF StateType
<1>3. vault[r] \in VaultState
      BY DEF StateType
<1>4. \E a \in VaultState :
        /\ vault' = [vault EXCEPT ![r] = a]
        /\ a = vault[r] \/ ~Serving(a) \/ (late[r] # {} /\ Sendable(a.rings, vault, file))
      <2>1. CASE Restart(r)
            <3>1. NewVault \in VaultState /\ ~Serving(NewVault)
                  BY <1>3, VaultTypes DEF Serving, NewVault
            <3> QED BY <2>1, <3>1 DEF Restart
      <2>2. CASE ReleaseReplica(r)
            <3>1. PICK a : a = ReleaseVault(vault[r])
                  OBVIOUS
            <3>2. a \in VaultState /\ (a = vault[r] \/ ~Serving(a))
                  BY <1>3, <3>1, VaultTypes DEF ReleaseVault, Serving, VaultState
            <3> QED BY <2>2, <3>1, <3>2 DEF ReleaseReplica
      <2>3. CASE \E hold \in BOOLEAN : SealReplica(r, hold)
            <3>1. PICK hold \in BOOLEAN : SealReplica(r, hold)
                  BY <2>3
            <3>2. PICK a : a = SealVault(vault[r], hold)
                  OBVIOUS
            <3>3. a \in VaultState /\ ~Serving(a)
                  BY <1>3, <3>2, VaultTypes DEF SealVault, Serving
            <3> QED BY <3>1, <3>2, <3>3 DEF SealReplica
      <2>4. CASE \E x \in late[r] : DeliverLate(r, x)
            <3>1. PICK x \in late[r] : DeliverLate(r, x)
                  BY <2>4
            <3>2. x \in InFlight
                  BY DEF StateType
            <3>3. PICK b \in BundleOf({Instance}), intent \in Intent : b = x.bundle /\ intent = x.intent
                  BY <3>2 DEF InFlight
            <3>4. PICK a : a = UnsealVault(vault[r], b, intent)
                  OBVIOUS
            <3>5. a \in VaultState /\ (a = vault[r] \/ a.rings = b.rings)
                  BY <1>3, <3>4, UnsealFacts
            <3>6. Sendable(b.rings, vault, file)
                  BY <1>2, <3>3 DEF HandOverFits, Fits
            <3> QED BY <3>1, <3>3, <3>4, <3>5, <3>6 DEF DeliverLate
      <2> QED BY <2>1, <2>2, <2>3, <2>4 DEF ReplicaStep
<1>5. PICK a \in VaultState :
        /\ vault' = [vault EXCEPT ![r] = a]
        /\ a = vault[r] \/ ~Serving(a) \/ (late[r] # {} /\ Sendable(a.rings, vault, file))
      BY <1>4
<1>6. /\ Moved(vault, vault', file)
      /\ FileCovers(vault', written', keyring'[home]) /\ InUseWritten(vault', keyring', written')
      /\ \A m \in Machine, s \in Scope : keyring'[m][s].held \subseteq keyring'[home][s].held
      BY <1>1, <1>2, <1>5, VaultStep
<1>7. \A s \in Scope : written[s] \subseteq written'[s]
      BY WritesLogged DEF Logged
<1>8. \A q \in Replica : late'[q] \subseteq late[q]
      BY DEF ReplicaStep, Restart, ReleaseReplica, SealReplica, DeliverLate, StateType
<1>9. ASSUME NEW p \in Command
      PROVE  CommandFits(cmd'[p], vault', late', written', file)
      <2>1. PICK c \in CommandState : c = cmd[p]
            BY DEF StateType
      <2>2. CommandFits(c, vault, late, written, file)
            BY <1>2, <2>1 DEF HandOverFits, Fits
      <2>3. c.pc = "read" => \A q \in Replica : vault'[q] = vault[q] \/ ~Serving(vault'[q])
            BY <1>5, <2>2 DEF CommandFits, NoneLate, StateType
      <2>4. CommandFits(c, vault', late', written', file)
            BY <1>6, <1>7, <1>8, <2>2, <2>3, CommandStays
      <2> QED BY <1>1, <2>1, <2>4
<1>10. ASSUME NEW q \in Replica, NEW y \in late'[q]
       PROVE  Sendable(y.bundle.rings, vault', file)
      <2>1. y \in late[q] /\ y \in InFlight
            BY <1>8 DEF StateType
      <2>2. Sendable(y.bundle.rings, vault, file) /\ y.bundle.rings \in Rings
            BY <1>2, <2>1 DEF HandOverFits, Fits, InFlight, BundleOf
      <2> QED BY <1>6, <2>2, SendableStays
<1>11. \A p, q \in Command : cmd'[p].pc # "idle" /\ cmd'[q].pc # "idle" => p = q
      BY <1>1 DEF HandOverFits, Fits
<1> QED BY <1>1, <1>2, <1>6, <1>9, <1>10, <1>11 DEF Fits

\* storage key import: the machine that runs the commands has every key already.
LEMMA ImportFits ==
    ASSUME HandOverType, StateType', NEW home \in Machine, HandOverFits(home), Writes,
           ~scene.overlap, NEW m \in Machine, NEW from \in Machine, ImportKeys(m, from)
    PROVE  Fits(home, vault', late', keyring', cmd', written')
<1> USE DEF HandOverType
<1>1. PICK new : new = [s \in Scope |-> MergedRing(keyring[m][s], keyring[from][s])]
      OBVIOUS
<1>2. /\ keyring' = [keyring EXCEPT ![m] = new] /\ vault' = vault /\ late' = late /\ cmd' = cmd
      /\ Quiet
      BY <1>1 DEF ImportKeys, fleetVars, MayStart
<1>3. keyring[m] \in Rings /\ keyring[from] \in Rings /\ keyring[home] \in Rings
      BY DEF StateType
<1>4. /\ FileCovers(vault, written, keyring[home]) /\ InUseWritten(vault, keyring, written)
      /\ \A n \in Machine, s \in Scope : keyring[n][s].held \subseteq keyring[home][s].held
      BY DEF HandOverFits, Fits
<1>5. ASSUME NEW s \in Scope
      PROVE  /\ new[s].held = keyring[m][s].held \union keyring[from][s].held
             /\ new[s].active = keyring[m][s].active \/ new[s].active = keyring[from][s].active
      <2>1. new[s] = MergedRing(keyring[m][s], keyring[from][s])
            BY <1>1
      <2> QED BY <1>3, <2>1, MergedTypes
<1>6. \A n \in Machine : keyring'[n] = IF n = m THEN new ELSE keyring[n]
      BY <1>2 DEF StateType
<1>7. ASSUME NEW s \in Scope
      PROVE  keyring'[home][s].held = keyring[home][s].held
      BY <1>4, <1>5, <1>6
<1>8. ASSUME NEW n \in Machine, NEW s \in Scope
      PROVE  /\ keyring'[n][s].held \subseteq keyring'[home][s].held
             /\ Fine(keyring'[n][s].active, s, vault', written, keyring'[home])
      <2>1. keyring'[n][s].held \subseteq keyring'[home][s].held
            BY <1>4, <1>5, <1>6, <1>7
      <2>2. keyring'[n][s].active \in written[s] \union {NoKey}
            BY <1>4, <1>5, <1>6 DEF InUseWritten
      <2> QED BY <2>1, <2>2 DEF Fine
<1>9. Logged(vault', keyring', written, written')
      BY WritesLogged
<1>10. FileCovers(vault', written', keyring'[home])
      <2>1. PICK file, f : file = keyring[home] /\ f = keyring'[home]
            OBVIOUS
      <2>2. /\ FileCovers(vault, written, file) /\ \A s \in Scope : file[s].held \subseteq f[s].held
            /\ Moved(vault, vault', f)
            BY <1>2, <1>4, <1>7, <2>1 DEF Moved
      <2>3. \A n \in Machine, s \in Scope : Fine(keyring'[n][s].active, s, vault', written, f)
            BY <1>8, <2>1
      <2>4. \A q \in Replica, s \in Scope :
              Serving(vault'[q]) => Fine(vault'[q].rings[s].active, s, vault', written, f)
            BY <1>2, <1>4 DEF InUseWritten, Fine
      <2>5. FileCovers(vault', written', f)
            BY ONLY <2>2, <2>3, <2>4, <1>9, CoversStays
      <2> QED BY <2>1, <2>5
<1>11. \A p \in Command : cmd'[p].pc = "idle"
      BY <1>2 DEF Quiet
<1>12. \A p \in Command : CommandFits(cmd'[p], vault', late', written', keyring'[home])
      BY <1>11, IdleFits
<1>13. \A q \in Replica : late'[q] = {}
      BY <1>2 DEF Quiet
<1> QED BY <1>8, <1>9, <1>10, <1>11, <1>12, <1>13 DEF Fits, Logged

\* The instance as a first unseal leaves it.
LEMMA HandOverFitsInit ==
    ASSUME NEW home \in Machine, Init
    PROVE  HandOverFits(home)
<1>1. FirstKeys \in Rings
      BY HandOverAssumption
<1>2. /\ \A r \in Replica : vault[r].rings = FirstKeys /\ late[r] = {}
      /\ \A m \in Machine : keyring[m] = FirstKeys
      /\ \A p \in Command : cmd[p].pc = "idle"
      /\ \A s \in Scope : written[s] = FirstKeys[s].held
      BY DEF Init, Idle
<1>3. \A s \in Scope : FirstKeys[s].active \in written[s] \union {NoKey}
      BY <1>1, <1>2, RingFacts
<1>4. FileCovers(vault, written, keyring[home])
      BY <1>2 DEF FileCovers, Has
<1>5. InUseWritten(vault, keyring, written)
      BY <1>2, <1>3 DEF InUseWritten
<1>6. \A p \in Command : CommandFits(cmd[p], vault, late, written, keyring[home])
      BY <1>2, IdleFits
<1> QED BY <1>2, <1>4, <1>5, <1>6 DEF HandOverFits, Fits

\* Every step keeps what the fleet and the command rely on.
LEMMA HandOverFitsStep ==
    ASSUME NEW home \in Machine, ~scene.overlap, Keeper = {}, \A p \in Command : MachineOf[p] = home,
           HandOverType, HandOverFits(home), [Next]_vars
    PROVE  HandOverFits(home)'
<1>1. CASE UNCHANGED vars
      <2>1. Fits(home, vault', late', keyring', cmd', written')
            BY <1>1 DEF vars, HandOverFits
      <2> QED BY <2>1, FitsPrimed
<1>2. CASE Next
      <2>1. StateType' /\ Writes
            BY <1>2, HandOverTypeStep DEF Next, Background, HandOverType
      <2>2. ASSUME NEW p \in Command, CommandStep(p)
            PROVE  Fits(home, vault', late', keyring', cmd', written')
            <3>1. CASE \E kind \in Kind : BeginUnseal(p, kind) \/ BeginSaving(p, kind)
                  BY <2>1, <3>1, BeginFits
            <3>2. CASE SaveRotated(p)
                  BY <2>1, <3>2, SaveRotatedFits
            <3>3. CASE LoadKeys(p)
                  BY <2>1, <3>3, LoadFits
            <3>4. CASE SaveHeld(p) \/ SaveActive(p)
                  BY <2>1, <3>4, SaveFits
            <3>5. CASE \E s \in Scope : SaveScope(p, s)
                  BY <2>1, <3>5, SaveScopeFits
            <3>6. CASE \E answered \in BOOLEAN : ReadReplica(p, answered)
                  BY <2>1, <3>6, ReadFits
            <3>7. CASE \/ PassOver(p) \/ PushReplica(p)
                       \/ \E how \in {"lost", "answer lost", "late"} : PushFails(p, how)
                  BY <2>1, <3>7, PushFits DEF Pushes
            <3>8. CASE \/ \E r \in Replica, answered \in BOOLEAN : ConfirmReplica(p, r, answered)
                       \/ Record(p) \/ Kill(p)
                  BY <2>1, <3>8, FinishFits
            <3>9. CASE PutBack(p)
                  BY <2>1, <3>9, PutBackFits
            <3> QED BY <2>2, <3>1, <3>2, <3>3, <3>4, <3>5, <3>6, <3>7, <3>8, <3>9 DEF CommandStep
      <2>3. Fits(home, vault', late', keyring', cmd', written')
            BY <1>2, <2>1, <2>2, ReplicaFits, ImportFits DEF Next
      <2> QED BY <2>3, FitsPrimed
<1> QED BY <1>1, <1>2

\* Whether commands and passes overlap does not change.
LEMMA SceneStays ==
    ASSUME [Next]_vars
    PROVE  scene' = scene
BY DEF Next, Background, vars

\* With one machine that hands keys out, one command at a time, and no keeper:
\* no replica writes under a key another serving replica lacks, the machine
\* itself writes under none either, and everything ever written stays readable
\* through every serving replica, whatever restarts, seals, lost, late or killed
\* calls and commands come in between, and however many machines import its keys.
THEOREM FleetNeverSplits ==
    ASSUME NEW home \in Machine, \A x \in Scene : ~x.overlap, Keeper = {},
           \A p \in Command : MachineOf[p] = home
    PROVE  Spec => [](NoSplit /\ MachineNeverAhead /\ WrittenReadable)
<1>1. ASSUME HandOverType, HandOverFits(home)
      PROVE  NoSplit /\ MachineNeverAhead /\ WrittenReadable
      <2>1. FileCovers(vault, written, keyring[home]) /\ InUseWritten(vault, keyring, written)
            BY <1>1 DEF HandOverFits, Fits
      <2>2. WrittenReadable
            BY <2>1 DEF WrittenReadable, ServingReplicas, FileCovers, Has
      <2>3. ASSUME NEW r \in Replica, NEW s \in Scope, NEW rings \in Rings,
                   rings[s].active \in written[s] \union {NoKey}, HoldsScope(rings, s),
                   Serving(vault[r]), HoldsScope(vault[r].rings, s)
            PROVE  rings[s].active \in vault[r].rings[s].held
            <3>1. rings[s].active \in written[s]
                  BY <2>3, RingFacts DEF HoldsScope
            <3> QED BY <2>1, <2>3, <3>1 DEF FileCovers, Has
      <2>4. NoSplit
            <3>1. SUFFICES ASSUME NEW r \in ServingReplicas, NEW q \in ServingReplicas, NEW s \in Scope,
                                  HoldsScope(vault[r].rings, s), HoldsScope(vault[q].rings, s)
                           PROVE  vault[r].rings[s].active \in vault[q].rings[s].held
                  BY DEF NoSplit
            <3>2. r \in Replica /\ q \in Replica /\ Serving(vault[r]) /\ Serving(vault[q])
                  BY DEF ServingReplicas
            <3>3. PICK rings \in Rings : rings = vault[r].rings
                  BY <1>1, <3>2 DEF HandOverType, StateType, VaultState
            <3>4. rings[s].active \in written[s] \union {NoKey}
                  BY <2>1, <3>2, <3>3 DEF InUseWritten
            <3> QED BY <2>3, <3>1, <3>2, <3>3, <3>4
      <2>5. MachineNeverAhead
            <3>1. SUFFICES ASSUME NEW m \in Machine, NEW q \in ServingReplicas, NEW s \in Scope,
                                  HoldsScope(keyring[m], s), HoldsScope(vault[q].rings, s)
                           PROVE  keyring[m][s].active \in vault[q].rings[s].held
                  BY DEF MachineNeverAhead
            <3>2. q \in Replica /\ Serving(vault[q])
                  BY DEF ServingReplicas
            <3>3. PICK rings \in Rings : rings = keyring[m]
                  BY <1>1 DEF HandOverType, StateType
            <3>4. rings[s].active \in written[s] \union {NoKey}
                  BY <2>1, <3>3 DEF InUseWritten
            <3> QED BY <2>3, <3>1, <3>2, <3>3, <3>4
      <2> QED BY <2>2, <2>4, <2>5
<1>2. Init => HandOverFits(home) /\ ~scene.overlap
      BY HandOverFitsInit DEF Init
<1>3. HandOverType /\ HandOverFits(home) /\ ~scene.overlap /\ [Next]_vars
        => HandOverFits(home)' /\ (~scene.overlap)'
      BY HandOverFitsStep, SceneStays
<1> QED BY <1>1, <1>2, <1>3, HandOverTypeInit, HandOverTypeStep, PTL DEF Spec

-----------------------------------------------------------------------------
(* No push takes a key, and no keeper splits a fleet *)

\* b has every key of a.
Within(a, b) == \A s \in Scope : a[s].held \subseteq b[s].held

\* The vault can read what is written under b and b has all the vault's keys,
\* in each scope the vault serves.
Agrees(b, v) ==
    Serving(v) => \A s \in Scope : HoldsScope(v.rings, s) =>
      v.rings[s].held \subseteq b[s].held /\ b[s].active \in v.rings[s].held

\* What was answered still is what the replicas that serve hold.
Remembered(states, v) ==
    \A r \in Replica : states[r] # Silent /\ Serving(v[r]) =>
      Serving(states[r]) /\ SameHeld(v[r].rings, states[r].rings)

\* Commands and passes take turns.
Turns(cs, ps) ==
    /\ \A p, q \in Command : cs[p].pc # "idle" /\ cs[q].pc # "idle" => p = q
    /\ \A k \in Keeper : ps[k].pc # "idle" =>
         /\ \A p \in Command : cs[p].pc = "idle"
         /\ \A j \in Keeper : ps[j].pc # "idle" => j = k
    /\ \A k \in Keeper : ps[k].pc = "idle" => ps[k].states = AllSilent

\* A late push of a command takes no key from its replica, and no second one is
\* on its way there.
LatePush(x, r, v, l) ==
    /\ l[r] = {x}
    /\ Serving(v[r]) => Within(v[r].rings, x.bundle.rings)

\* A late re-seed agrees with all the replicas, and nothing but re-seeds from
\* the same keys is under way.
LateReseed(x, v, l, cs) ==
    /\ \A p \in Command : cs[p].pc = "idle"
    /\ \A q \in Replica : \A y \in l[q] :
         y.intent = "restart-reseed" /\ y.bundle.rings = x.bundle.rings
    /\ \A q \in Replica : Agrees(x.bundle.rings, v[q])

\* What a running command relies on.
CommandKeeps(c, v, l) ==
    /\ c.pc \in {"save", "load", "read", "hold", "activate"} => NoneLate(l)
    /\ c.pc = "push" /\ c.refused = {} => NoneLate(l)
    /\ c.pc \in {"save", "load"} => c.states = AllSilent
    /\ c.pc = "read" => Remembered(c.states, v)
    /\ c.pc \in {"hold", "push", "activate"} =>
         \A r \in Replica : c.states[r] # Silent /\ Serving(v[r]) => Within(v[r].rings, c.keys)
    /\ c.pc = "push" =>
         \A r \in Replica : /\ r >= c.next => l[r] = {}
                            /\ \A x \in l[r] : Within(x.bundle.rings, c.keys)
    /\ c.pc = "hold" \/ (c.pc = "push" /\ c.round = 1) => SameHeld(c.held, c.keys)

\* What a keeper's pass a with bundle b relies on.
PassKeeps(a, b, v, l) ==
    /\ a.pc = "read" => NoneLate(l) /\ Remembered(a.states, v)
    /\ a.pc = "push" =>
         /\ \A r \in Replica : \A x \in l[r] :
              x.intent = "restart-reseed" /\ x.bundle.rings = b.rings
         /\ ~Mismatch(b.rings, a.states) /\ ~Unchecked(a.states) =>
              \A q \in Replica : Agrees(b.rings, v[q])

\* The inductive invariant of a fleet whose commands and keepers take turns:
\* v, l, cs, ps and bs are vault, late, cmd, pass and bundle.
Keeps(v, l, cs, ps, bs) ==
    /\ Turns(cs, ps)
    /\ \A r \in Replica : \A x \in l[r] :
         IF x.intent = "restart-reseed" THEN LateReseed(x, v, l, cs) ELSE LatePush(x, r, v, l)
    /\ \A p \in Command : CommandKeeps(cs[p], v, l)
    /\ \A k \in Keeper : PassKeeps(ps[k], bs[k], v, l)

KeysKept == Keeps(vault, late, cmd, pass, bundle)

\* A command that pushes nothing more relies on nothing.
LEMMA DoneKeeps ==
    ASSUME NEW c, c.pc \in {"idle", "confirm", "record", "fallback"}, NEW v, NEW l
    PROVE  CommandKeeps(c, v, l)
BY DEF CommandKeeps

\* The invariant after a step of the only command or pass there is.
LEMMA CommandTurn ==
    ASSUME NEW v, NEW l, NEW cs \in [Command -> CommandState], NEW cs2, NEW ps, NEW bs,
           Turns(cs, ps), NEW p \in Command, NEW e, cs2 = [cs EXCEPT ![p] = e],
           \A q \in Command : q # p => cs[q].pc = "idle",
           \A k \in Keeper : ps[k].pc = "idle",
           CommandKeeps(e, v, l),
           \A r \in Replica : \A x \in l[r] : x.intent # "restart-reseed" /\ LatePush(x, r, v, l)
    PROVE  Keeps(v, l, cs2, ps, bs)
<1>1. \A q \in Command : q # p => cs2[q].pc = "idle"
      OBVIOUS
<1>2. cs2[p] = e
      OBVIOUS
<1>3. \A q \in Command : CommandKeeps(cs2[q], v, l)
      BY <1>1, <1>2, DoneKeeps
<1>4. Turns(cs2, ps)
      BY <1>1 DEF Turns
<1>5. \A k \in Keeper : PassKeeps(ps[k], bs[k], v, l)
      BY DEF PassKeeps
<1> QED BY <1>3, <1>4, <1>5 DEF Keeps

\* While a command is running nothing else is, and no re-seed is under way.
LEMMA CommandAlone ==
    ASSUME KeysKept, NEW p \in Command, cmd[p].pc # "idle"
    PROVE  /\ \A q \in Command : q # p => cmd[q].pc = "idle"
           /\ \A k \in Keeper : pass[k].pc = "idle"
           /\ \A r \in Replica : \A x \in late[r] :
                x.intent # "restart-reseed" /\ LatePush(x, r, vault, late)
           /\ CommandKeeps(cmd[p], vault, late) /\ Turns(cmd, pass)
<1>1. Turns(cmd, pass) /\ CommandKeeps(cmd[p], vault, late)
      BY DEF KeysKept, Keeps
<1>2. /\ \A q \in Command : q # p => cmd[q].pc = "idle"
      /\ \A k \in Keeper : pass[k].pc = "idle"
      BY <1>1 DEF Turns
<1>3. ASSUME NEW r \in Replica, NEW x \in late[r]
      PROVE  x.intent # "restart-reseed" /\ LatePush(x, r, vault, late)
      BY DEF KeysKept, Keeps, LateReseed
<1> QED BY <1>1, <1>2, <1>3

\* A step of a running command that reaches no replica.
LEMMA CommandWaits ==
    ASSUME StateType, KeysKept, NEW p \in Command, cmd[p].pc # "idle", NEW e,
           cmd' = [cmd EXCEPT ![p] = e], vault' = vault, late' = late,
           CommandKeeps(e, vault, late)
    PROVE  Keeps(vault', late', cmd', pass, bundle)
<1>1. /\ \A q \in Command : q # p => cmd[q].pc = "idle"
      /\ \A k \in Keeper : pass[k].pc = "idle"
      /\ \A r \in Replica : \A x \in late[r] :
           x.intent # "restart-reseed" /\ LatePush(x, r, vault, late)
      /\ Turns(cmd, pass) /\ cmd \in [Command -> CommandState]
      BY CommandAlone DEF StateType
<1>2. Keeps(vault, late, cmd', pass, bundle)
      BY <1>1, CommandTurn
<1> QED BY <1>2

\* A command begins when nothing else is under way.
LEMMA BeginKeeps ==
    ASSUME StateType, KeysKept, ~scene.overlap, NEW p \in Command, NEW kind,
           BeginUnseal(p, kind) \/ BeginSaving(p, kind)
    PROVE  Keeps(vault', late', cmd', pass', bundle')
<1>1. PICK m : m = MachineOf[p]
      OBVIOUS
<1>2. PICK e : /\ Start(p, e)
               /\ \/ e = [Idle EXCEPT !.kind = kind, !.pc = "read", !.keys = keyring[m],
                                      !.metaGen = recorded[m], !.highest = recorded[m]]
                  \/ e = [Idle EXCEPT !.kind = kind, !.pc = "save", !.file = keyring[m],
                                      !.metaGen = recorded[m], !.highest = recorded[m]]
      BY <1>1 DEF BeginUnseal, BeginSaving
<1>3. e.pc \in {"read", "save"} /\ e.states = AllSilent
      <2>1. PICK rings, gen : rings = keyring[m] /\ gen = recorded[m]
            OBVIOUS
      <2>2. CASE e = [Idle EXCEPT !.kind = kind, !.pc = "read", !.keys = rings,
                                  !.metaGen = gen, !.highest = gen]
            BY ONLY <2>2 DEF Idle
      <2>3. CASE e = [Idle EXCEPT !.kind = kind, !.pc = "save", !.file = rings,
                                  !.metaGen = gen, !.highest = gen]
            BY ONLY <2>3 DEF Idle
      <2> QED BY <1>2, <2>1, <2>2, <2>3
<1>4. /\ cmd' = [cmd EXCEPT ![p] = e] /\ Quiet
      /\ vault' = vault /\ late' = late /\ pass' = pass /\ bundle' = bundle
      BY <1>2 DEF Start, MayStart, fleetVars, keeperVars
<1>5. /\ \A q \in Command : cmd[q].pc = "idle"
      /\ \A k \in Keeper : pass[k].pc = "idle"
      /\ \A r \in Replica : late[r] = {}
      BY <1>4 DEF Quiet
<1>6. CommandKeeps(e, vault, late)
      BY <1>3, <1>5 DEF CommandKeeps, NoneLate, Remembered, AllSilent
<1>7. Turns(cmd, pass) /\ cmd \in [Command -> CommandState]
      BY DEF KeysKept, Keeps, StateType
<1>8. Keeps(vault, late, cmd', pass, bundle)
      BY <1>4, <1>5, <1>6, <1>7, CommandTurn
<1> QED BY <1>4, <1>8

\* Saving and loading before the first read.
LEMMA PrepareKeeps ==
    ASSUME StateType, KeysKept, NEW p \in Command,
           SaveRotated(p) \/ LoadKeys(p) \/ \E s \in Scope : SaveScope(p, s)
    PROVE  Keeps(vault', late', cmd', pass', bundle')
<1>1. PICK c \in CommandState : c = cmd[p]
      BY DEF StateType
<1>2. /\ c.pc \in {"save", "load"}
      /\ vault' = vault /\ late' = late /\ pass' = pass /\ bundle' = bundle
      BY <1>1 DEF SaveRotated, LoadKeys, SaveScope, fleetVars, keeperVars
<1>3. NoneLate(late) /\ c.states = AllSilent
      BY <1>1, <1>2, CommandAlone DEF CommandKeeps
<1>4. \E e : cmd' = [cmd EXCEPT ![p] = e] /\ (e = Idle \/ (e.pc \in {"load", "read"} /\ e.states = c.states))
      <2>1. CASE SaveRotated(p)
            <3> DEFINE d == cmd[p]
                       m == MachineOf[p]
                       keys == Rotated(d.file, minted + 1)
                       f == [d EXCEPT !.pc = "read", !.keys = keys, !.file = StillUsing(keys, d.file),
                                      !.previous = [s \in Scope |-> d.file[s].active],
                                      !.metaGen = recorded[m], !.highest = recorded[m]]
            <3>1. cmd' = [cmd EXCEPT ![p] = Idle] \/ cmd' = [cmd EXCEPT ![p] = f]
                  BY <2>1, SaveRotatedMoves
            <3>2. f.pc = "read" /\ f.states = c.states
                  BY <1>1 DEF CommandState
            <3> QED BY <3>1, <3>2
      <2>2. CASE LoadKeys(p)
            <3>1. PICK f : f = [c EXCEPT !.pc = "read", !.keys = keyring[MachineOf[p]]]
                  OBVIOUS
            <3>2. f.pc = "read" /\ f.states = c.states
                  BY <3>1 DEF CommandState
            <3>3. cmd' = [cmd EXCEPT ![p] = f]
                  BY <1>1, <2>2, <3>1 DEF LoadKeys, StateType
            <3> QED BY <3>2, <3>3
      <2>3. ASSUME NEW s \in Scope, SaveScope(p, s)
            PROVE  \E e : /\ cmd' = [cmd EXCEPT ![p] = e]
                          /\ e = Idle \/ (e.pc \in {"load", "read"} /\ e.states = c.states)
            <3>1. PICK f : f = [c EXCEPT !.pc = "load"]
                  OBVIOUS
            <3>2. f.pc = "load" /\ f.states = c.states
                  BY <3>1 DEF CommandState
            <3>3. cmd' = [cmd EXCEPT ![p] = f] \/ cmd' = [cmd EXCEPT ![p] = Idle]
                  BY <1>1, <2>3, <3>1 DEF SaveScope, StateType
            <3> QED BY <3>2, <3>3
      <2> QED BY <2>1, <2>2, <2>3
<1>5. PICK e : cmd' = [cmd EXCEPT ![p] = e] /\ (e = Idle \/ (e.pc \in {"load", "read"} /\ e.states = c.states))
      BY <1>4
<1>6. CommandKeeps(e, vault, late)
      <2>1. CASE e = Idle
            BY <2>1, DoneKeeps DEF Idle
      <2>2. CASE e.pc \in {"load", "read"} /\ e.states = c.states
            BY <1>3, <2>2 DEF CommandKeeps, Remembered, AllSilent
      <2> QED BY <1>5, <2>1, <2>2
<1> QED BY <1>1, <1>2, <1>5, <1>6, CommandWaits

\* A plan that goes ahead pushes a keyring with every key the serving replicas
\* that answered still have.
LEMMA PlanCovers ==
    ASSUME NEW keys, NEW states, NEW v, ~Behind(keys, states), Remembered(states, v),
           NEW r \in Replica, states[r] # Silent, Serving(v[r])
    PROVE  Within(v[r].rings, keys)
<1>1. Serving(states[r]) /\ SameHeld(v[r].rings, states[r].rings)
      BY DEF Remembered
<1>2. ASSUME NEW s \in Scope
      PROVE  states[r].rings[s].held \subseteq keys[s].held
      BY <1>1 DEF Behind, Holders, HoldsScope
<1> QED BY <1>1, <1>2 DEF Within, SameHeld

\* What StartPush leaves as it was.
LEMMA StartPushKeeps ==
    ASSUME NEW c \in CommandState, NEW e, e = StartPush(c), NEW v, NEW l, NoneLate(l),
           \A r \in Replica : c.states[r] # Silent /\ Serving(v[r]) => Within(v[r].rings, c.keys),
           c.round = 1 => SameHeld(c.held, c.keys)
    PROVE  CommandKeeps(e, v, l)
<1>1. /\ e.pc = "push" /\ e.round = c.round /\ e.keys = c.keys /\ e.held = c.held
      /\ e.states = c.states
      BY DEF StartPush, CommandState
<1> QED BY <1>1 DEF CommandKeeps, NoneLate

\* planHandOver, from answers that are still so.
LEMMA PlannedKeeps ==
    ASSUME NEW c \in CommandState, c.round = 1, NEW v, NEW l, NoneLate(l),
           Remembered(c.states, v), NEW e \in Planned(c)
    PROVE  CommandKeeps(e, v, l)
<1>1. PICK d : d = [c EXCEPT !.leaveSealed = c.kind = "unseal" /\ Unchecked(c.states)]
      OBVIOUS
<1>2. /\ d \in CommandState /\ d.round = 1 /\ d.keys = c.keys /\ d.states = c.states
      BY <1>1 DEF CommandState
<1>3. CASE Refused(c.keys, c.states, c.previous)
      <2>1. e = Stop(d)
            BY <1>1, <1>3 DEF Planned
      <2>2. e.pc = "record"
            BY <2>1, <1>2 DEF Stop, CommandState
      <2> QED BY <2>2, DoneKeeps
<1>4. CASE ~Refused(c.keys, c.states, c.previous)
      <2>1. \A r \in Replica :
              c.states[r] # Silent /\ Serving(v[r]) => Within(v[r].rings, c.keys)
            BY <1>4, PlanCovers DEF Refused
      <2>2. CASE HeldBack(c.keys, c.states, c.previous) = {}
            <3>1. PICK f : f = [d EXCEPT !.round = 2]
                  OBVIOUS
            <3>2. e = StartPush(f)
                  BY <1>1, <1>4, <2>2, <3>1 DEF Planned
            <3>3. /\ f \in CommandState /\ f.round = 2 /\ f.keys = c.keys /\ f.states = c.states
                  BY <1>2, <3>1 DEF CommandState
            <3> QED BY <2>1, <3>2, <3>3, StartPushKeeps
      <2>3. CASE HeldBack(c.keys, c.states, c.previous) # {}
            <3>1. PICK h \in HeldKeyrings(c.keys, c.states, c.previous) :
                    e = IF c.kind = "rotate" THEN [d EXCEPT !.pc = "hold", !.held = h]
                                             ELSE StartPush([d EXCEPT !.held = h])
                  BY <1>1, <1>4, <2>3 DEF Planned
            <3>2. h \in Rings /\ SameHeld(h, c.keys)
                  <4>1. c.keys \in Rings
                        BY DEF CommandState
                  <4> QED BY <4>1, HeldKeyringTypes
            <3>3. CASE c.kind = "rotate"
                  <4>1. e = [d EXCEPT !.pc = "hold", !.held = h]
                        BY <3>1, <3>3
                  <4>2. e.pc = "hold" /\ e.keys = c.keys /\ e.held = h /\ e.states = c.states
                        BY <4>1, <1>2 DEF CommandState
                  <4> QED BY <2>1, <3>2, <4>2 DEF CommandKeeps
            <3>4. CASE c.kind # "rotate"
                  <4>1. PICK f : f = [d EXCEPT !.held = h]
                        OBVIOUS
                  <4>2. e = StartPush(f)
                        BY <3>1, <3>4, <4>1
                  <4>3. /\ f \in CommandState /\ f.keys = c.keys /\ f.held = h /\ f.states = c.states
                        BY <1>2, <3>2, <4>1 DEF CommandState
                  <4> QED BY <2>1, <3>2, <4>2, <4>3, StartPushKeeps
            <3> QED BY <3>3, <3>4
      <2> QED BY <2>2, <2>3
<1> QED BY <1>3, <1>4

\* The second read.
LEMMA ReplannedKeeps ==
    ASSUME NEW c \in CommandState, c.round = 2, NEW v, NEW l, NoneLate(l),
           Remembered(c.states, v), NEW e \in Replanned(c)
    PROVE  CommandKeeps(e, v, l)
<1>1. CASE ~MayActivate(c)
      <2>1. e.pc = "record"
            BY <1>1 DEF Replanned, Stop, CommandState
      <2> QED BY <2>1, DoneKeeps
<1>2. CASE MayActivate(c)
      <2>1. \A r \in Replica :
              c.states[r] # Silent /\ Serving(v[r]) => Within(v[r].rings, c.keys)
            BY <1>2, PlanCovers DEF MayActivate, Refused
      <2>2. CASE c.kind = "rotate"
            <3>1. e = [c EXCEPT !.pc = "activate"]
                  BY <1>2, <2>2 DEF Replanned
            <3>2. e.pc = "activate" /\ e.keys = c.keys /\ e.states = c.states
                  BY <3>1 DEF CommandState
            <3> QED BY <2>1, <3>2 DEF CommandKeeps
      <2>3. CASE c.kind # "rotate"
            <3>1. e = StartPush(c)
                  BY <1>2, <2>3 DEF Replanned
            <3> QED BY <2>1, <3>1, StartPushKeeps
      <2> QED BY <2>2, <2>3
<1> QED BY <1>1, <1>2

\* One more answer, true when it was given.
LEMMA RememberedMore ==
    ASSUME NEW states, NEW v, Remembered(states, v), NEW n \in Replica,
           NEW a, a = Silent \/ a = v[n], NEW states2, states2[n] = a,
           \A r \in Replica : r # n => states2[r] = states[r]
    PROVE  Remembered(states2, v)
BY DEF Remembered, SameHeld

\* A command asks a replica.
LEMMA ReadKeeps ==
    ASSUME StateType, KeysKept, NEW p \in Command, NEW answered \in BOOLEAN,
           ReadReplica(p, answered)
    PROVE  Keeps(vault', late', cmd', pass', bundle')
<1>1. PICK c : c = cmd[p] /\ CommandSound(c)
      BY DEF StateType
<1>2. PICK a : a = IF answered THEN vault[c.next] ELSE Silent
      OBVIOUS
<1>3. PICK d : d = AskedOf(c, c.next, a)
      OBVIOUS
<1>4. /\ c.pc = "read" /\ c.next \in Replica /\ a \in Answer
      /\ UNCHANGED <<fleetVars, machineVars, keeperVars, commands, events>>
      /\ \/ c.next + 1 < Replicas /\ cmd' = [cmd EXCEPT ![p] = d]
         \/ c.round = 1 /\ \E e \in Planned(d) : cmd' = [cmd EXCEPT ![p] = e]
         \/ c.round = 2 /\ \E e \in Replanned(d) : cmd' = [cmd EXCEPT ![p] = e]
      BY <1>1, <1>2, <1>3, ReadReplicaMoves
<1>5. NoneLate(late) /\ Remembered(c.states, vault)
      BY <1>1, <1>4, CommandAlone DEF CommandKeeps
<1>6. /\ d \in CommandState /\ d.round = c.round /\ d.pc = "read"
      /\ d.states[c.next] = a
      /\ \A r \in Replica : r # c.next => d.states[r] = c.states[r]
      <2>1. CommandSound(c) /\ c.pc = "read" /\ a \in Answer /\ d = AskedOf(c, c.next, a)
            BY <1>1, <1>3, <1>4
      <2> QED BY ONLY <2>1, AskedType
<1>7. Remembered(d.states, vault)
      BY <1>2, <1>4, <1>5, <1>6, RememberedMore
<1>8. \E e : cmd' = [cmd EXCEPT ![p] = e] /\ CommandKeeps(e, vault, late)
      <2>1. CASE cmd' = [cmd EXCEPT ![p] = d]
            BY <1>5, <1>6, <1>7, <2>1 DEF CommandKeeps
      <2>2. CASE c.round = 1 /\ \E e \in Planned(d) : cmd' = [cmd EXCEPT ![p] = e]
            BY <1>5, <1>6, <1>7, <2>2, PlannedKeeps
      <2>3. CASE c.round = 2 /\ \E e \in Replanned(d) : cmd' = [cmd EXCEPT ![p] = e]
            BY <1>5, <1>6, <1>7, <2>3, ReplannedKeeps
      <2> QED BY <1>4, <2>1, <2>2, <2>3
<1>9. vault' = vault /\ late' = late /\ pass' = pass /\ bundle' = bundle
      BY <1>4 DEF fleetVars, keeperVars
<1> QED BY <1>1, <1>4, <1>8, <1>9, CommandWaits

\* beforeHold and beforeActivate.
LEMMA SaveKeeps ==
    ASSUME StateType, KeysKept, NEW p \in Command, SaveHeld(p) \/ SaveActive(p)
    PROVE  Keeps(vault', late', cmd', pass', bundle')
<1>1. PICK c \in CommandState : c = cmd[p] /\ CommandSound(c)
      BY DEF StateType
<1>2. PICK f \in Rings : f = IF c.pc = "hold" THEN c.held ELSE c.keys
      BY DEF CommandState
<1>3. PICK d : d = [c EXCEPT !.file = f]
      OBVIOUS
<1>4. /\ c.pc \in {"hold", "activate"}
      /\ vault' = vault /\ late' = late /\ pass' = pass /\ bundle' = bundle
      /\ \/ cmd' = [cmd EXCEPT ![p] = StartPush(d)]
         \/ cmd' = [cmd EXCEPT ![p] = Stop(c)]
      <2>1. CASE SaveHeld(p)
            <3>1. c.pc = "hold"
                  BY <1>1, <2>1 DEF SaveHeld
            <3>2. d = [c EXCEPT !.file = c.held]
                  BY <1>2, <1>3, <3>1
            <3> QED BY <1>1, <2>1, <3>1, <3>2 DEF SaveHeld, fleetVars, keeperVars
      <2>2. CASE SaveActive(p)
            <3>1. c.pc = "activate"
                  BY <1>1, <2>2 DEF SaveActive
            <3>2. d = [c EXCEPT !.file = c.keys]
                  BY <1>2, <1>3, <3>1
            <3> QED BY <1>1, <2>2, <3>1, <3>2 DEF SaveActive, fleetVars, keeperVars
      <2> QED BY <2>1, <2>2
<1>5. CommandKeeps(c, vault, late)
      BY <1>1, <1>4, CommandAlone
<1>6. CommandKeeps(Stop(c), vault, late)
      <2>1. Stop(c).pc = "record"
            BY DEF Stop, CommandState
      <2> QED BY <2>1, DoneKeeps
<1>7. CommandKeeps(StartPush(d), vault, late)
      <2>1. /\ d \in CommandState /\ d.round = c.round /\ d.keys = c.keys /\ d.held = c.held
            /\ d.states = c.states
            BY <1>3 DEF CommandState
      <2>2. c.round = 1 => c.pc = "hold"
            BY <1>1, <1>4 DEF CommandSound
      <2>3. /\ NoneLate(late) /\ (c.round = 1 => SameHeld(c.held, c.keys))
            /\ \A r \in Replica : c.states[r] # Silent /\ Serving(vault[r]) => Within(vault[r].rings, c.keys)
            BY <1>4, <1>5, <2>2 DEF CommandKeeps
      <2> QED BY <2>1, <2>3, StartPushKeeps
<1> QED BY <1>1, <1>4, <1>6, <1>7, CommandWaits

\* Asking the replicas that refused, recording, falling back, being killed.
LEMMA FinishKeeps ==
    ASSUME StateType, KeysKept, NEW p \in Command,
           \/ \E r \in Replica, answered \in BOOLEAN : ConfirmReplica(p, r, answered)
           \/ Record(p) \/ PutBack(p) \/ Kill(p)
    PROVE  Keeps(vault', late', cmd', pass', bundle')
<1>1. PICK c \in CommandState : c = cmd[p] /\ CommandSound(c)
      BY DEF StateType
<1>2. vault' = vault /\ late' = late /\ pass' = pass /\ bundle' = bundle /\ c.pc # "idle"
      BY <1>1 DEF ConfirmReplica, Record, PutBack, Kill, fleetVars, keeperVars
<1>3. \E e : /\ cmd' = [cmd EXCEPT ![p] = e]
             /\ e.pc \in {"idle", "confirm", "record", "fallback"}
      <2>1. ASSUME NEW r \in Replica, NEW answered \in BOOLEAN, ConfirmReplica(p, r, answered)
            PROVE  \E e : cmd' = [cmd EXCEPT ![p] = e] /\ e.pc \in {"record", "confirm"}
            BY <1>1, <2>1, ConfirmMoves
      <2>2. Idle.pc = "idle"
            BY DEF Idle
      <2>3. CASE Record(p)
            <3>1. PICK e : e = [c EXCEPT !.pc = "fallback"]
                  OBVIOUS
            <3>2. cmd' = [cmd EXCEPT ![p] = Idle] \/ cmd' = [cmd EXCEPT ![p] = e]
                  BY <1>1, <2>3, <3>1 DEF Record
            <3>3. e.pc = "fallback"
                  BY <3>1 DEF CommandState
            <3> QED BY <2>2, <3>2, <3>3
      <2>4. CASE PutBack(p) \/ Kill(p)
            BY <2>2, <2>4 DEF PutBack, Kill
      <2> QED BY <2>1, <2>3, <2>4
<1>4. PICK e : cmd' = [cmd EXCEPT ![p] = e] /\ e.pc \in {"idle", "confirm", "record", "fallback"}
      BY <1>3
<1>5. CommandKeeps(e, vault, late)
      BY <1>4, DoneKeeps
<1> QED BY <1>1, <1>2, <1>4, <1>5, CommandWaits

\* What a command sends holds the keys it hands over.
LEMMA SentKeys ==
    ASSUME NEW c \in CommandState, c.pc = "push", NEW v, NEW l, CommandKeeps(c, v, l)
    PROVE  SameHeld(Sent(c).bundle.rings, c.keys) /\ Sent(c).intent # "restart-reseed"
<1>1. PICK rings : rings = IF c.round = 1 THEN c.held ELSE c.keys
      OBVIOUS
<1>2. Sent(c).bundle.rings = rings /\ Sent(c).intent # "restart-reseed"
      BY <1>1 DEF Sent
<1>3. SameHeld(rings, c.keys)
      BY <1>1 DEF CommandKeeps, SameHeld
<1> QED BY <1>2, <1>3

\* What a push of c that ends up in where may do to the vaults and to the calls
\* in flight, v and l before it, v2 and l2 after.
Lands(c, where, v, v2, l, l2) ==
    /\ \A q \in Replica : v2[q] = v[q] \/ SameHeld(v2[q].rings, c.keys)
    /\ l2 = l \/ where = "refused"
    /\ \A q \in Replica : q # c.next => l2[q] = l[q]
    /\ \A x \in l2[c.next] : Within(x.bundle.rings, c.keys)

\* Being done with one replica, which is as it was or serves the keys sent.
LEMMA PushedOn ==
    ASSUME NEW c, CommandSound(c), c.pc = "push", NEW where, NEW e, e = PushedTo(c, c.next, where),
           NEW v, NEW v2, NEW l, NEW l2, CommandKeeps(c, v, l), Lands(c, where, v, v2, l, l2)
    PROVE  CommandKeeps(e, v2, l2)
<1> USE DEF Lands
<1>1. PICK ls, rs :
        /\ ls = (IF where = "loaded" THEN c.loaded \union {c.next} ELSE c.loaded)
        /\ rs = (IF where = "refused" THEN c.refused \union {c.next} ELSE c.refused)
      OBVIOUS
<1>2. /\ CommandSound(c) /\ c.pc = "push" /\ e = PushedTo(c, c.next, where)
      /\ ls = (IF where = "loaded" THEN c.loaded \union {c.next} ELSE c.loaded)
      /\ rs = (IF where = "refused" THEN c.refused \union {c.next} ELSE c.refused)
      BY <1>1
<1>3. e.keys = c.keys /\ e.held = c.held
      BY ONLY <1>2, PushedKeeps
<1>4. \/ /\ e.pc = "push" /\ e.round = c.round /\ e.next = c.next + 1
         /\ e.loaded = ls /\ e.refused = rs
      \/ /\ e.pc = "read" /\ c.round = 1 /\ e.round = 2
         /\ e.states = AllSilent /\ e.heldLoaded = ls /\ rs = {}
      \/ e.pc \in {"record", "confirm"} /\ e.round = c.round
      BY ONLY <1>2, PushedMoves
<1>5. c \in CommandState /\ c.next \in Replica /\ c.next \in Nat /\ Replica \subseteq Nat
      BY DEF CommandSound, Replica
<1>6. rs = {} => NoneLate(l2)
      BY <1>1 DEF CommandKeeps
<1>7. CASE e.pc = "push"
      <2>1. e.states = c.states
            BY <1>5, <1>7, PushedStates
      <2>2. ASSUME NEW q \in Replica, c.states[q] # Silent, Serving(v2[q])
            PROVE  Within(v2[q].rings, c.keys)
            <3>1. CASE v2[q] = v[q]
                  BY <2>2, <3>1 DEF CommandKeeps
            <3>2. CASE SameHeld(v2[q].rings, c.keys)
                  BY <3>2 DEF SameHeld, Within
            <3> QED BY <3>1, <3>2
      <2>3. ASSUME NEW q \in Replica
            PROVE  /\ q >= c.next + 1 => l2[q] = {}
                   /\ \A x \in l2[q] : Within(x.bundle.rings, c.keys)
            <3>1. CASE q = c.next
                  BY <1>5, <3>1
            <3>2. CASE q # c.next
                  <4>1. l2[q] = l[q] /\ (q >= c.next + 1 => q >= c.next)
                        BY <1>5, <3>2
                  <4>2. (q >= c.next => l[q] = {}) /\ \A x \in l[q] : Within(x.bundle.rings, c.keys)
                        BY DEF CommandKeeps
                  <4> QED BY <4>1, <4>2
            <3> QED BY <3>1, <3>2
      <2>4. e.round = 1 => SameHeld(e.held, e.keys)
            BY <1>3, <1>4, <1>7 DEF CommandKeeps
      <2> QED BY <1>3, <1>4, <1>6, <1>7, <2>1, <2>2, <2>3, <2>4 DEF CommandKeeps
<1>8. CASE e.pc = "read"
      <2>1. e.states = AllSilent /\ NoneLate(l2)
            BY <1>4, <1>6, <1>8
      <2>2. Remembered(e.states, v2)
            BY <2>1 DEF Remembered, AllSilent
      <2> QED BY <1>8, <2>1, <2>2 DEF CommandKeeps
<1>9. CASE e.pc \in {"record", "confirm"}
      BY <1>9, DoneKeeps
<1> QED BY <1>4, <1>7, <1>8, <1>9

\* A push passes a replica over, is answered, or fails for its caller.
LEMMA PushKeeps ==
    ASSUME StateType, KeysKept, NEW p \in Command, Pushes(p)
    PROVE  Keeps(vault', late', cmd', pass', bundle')
<1>1. PICK c \in CommandState : c = cmd[p] /\ CommandSound(c)
      BY DEF StateType
<1>2. c.pc = "push" /\ pass' = pass /\ bundle' = bundle
      BY <1>1 DEF Pushes, PassOver, PushReplica, PushFails, keeperVars
<1>3. PICK a \in VaultState, where \in Outcomes : PushMade(p, c, a, where)
      BY <1>1, PushMoves
<1>4. PICK r \in Replica : r = c.next
      BY <1>1, <1>2 DEF CommandSound
<1>0. PICK x : x = Sent(c)
      OBVIOUS
<1>5. /\ vault' = [vault EXCEPT ![r] = a]
      /\ a = vault[r] \/ (Serving(a) /\ a.rings = x.bundle.rings)
      /\ cmd' = [cmd EXCEPT ![p] = PushedTo(c, c.next, where)]
      /\ late' = late \/ (where = "refused" /\ late' = [late EXCEPT ![r] = late[r] \union {x}])
      /\ (a = vault[r] /\ late' = late) \/ ~LeavesAlone(c, r)
      BY <1>0, <1>3, <1>4 DEF PushMade
<1>6. /\ \A q \in Command : q # p => cmd[q].pc = "idle"
      /\ \A k \in Keeper : pass[k].pc = "idle"
      /\ \A q \in Replica : \A y \in late[q] :
           y.intent # "restart-reseed" /\ LatePush(y, q, vault, late)
      /\ CommandKeeps(c, vault, late) /\ Turns(cmd, pass)
      BY <1>1, <1>2, CommandAlone
<1>7. SameHeld(x.bundle.rings, c.keys) /\ x.intent # "restart-reseed"
      BY <1>0, <1>2, <1>6, SentKeys
<1>8. late[r] = {}
      <2>1. r >= c.next
            BY <1>4 DEF Replica
      <2> QED BY <1>2, <1>6, <2>1 DEF CommandKeeps
<1>9. \A q \in Replica : /\ q # r => vault'[q] = vault[q] /\ late'[q] = late[q]
                         /\ q = r => vault'[q] = a /\ late'[q] \subseteq {x}
      BY <1>5, <1>8 DEF StateType
<1>10. PICK e : e = PushedTo(c, c.next, where)
      OBVIOUS
<1>11. CommandKeeps(e, vault', late')
      <2>1. PICK v, v2, l, l2 : v = vault /\ v2 = vault' /\ l = late /\ l2 = late'
            OBVIOUS
      <2>2. \A q \in Replica : v2[q] = v[q] \/ SameHeld(v2[q].rings, c.keys)
            BY <1>5, <1>7, <1>9, <2>1
      <2>3. \A y \in l2[c.next] : Within(y.bundle.rings, c.keys)
            BY <1>4, <1>7, <1>9, <2>1 DEF Within, SameHeld
      <2>4. l2 = l \/ where = "refused"
            BY <1>5, <2>1
      <2>5. \A q \in Replica : q # c.next => l2[q] = l[q]
            BY <1>4, <1>9, <2>1
      <2>6. CommandSound(c) /\ c.pc = "push" /\ CommandKeeps(c, v, l)
            BY <1>1, <1>2, <1>6, <2>1
      <2>7. Lands(c, where, v, v2, l, l2)
            BY <2>2, <2>3, <2>4, <2>5 DEF Lands
      <2>8. CommandKeeps(e, v2, l2)
            BY ONLY <1>10, <2>6, <2>7, PushedOn
      <2> QED BY <2>1, <2>8
<1>12. ASSUME NEW q \in Replica, NEW y \in late'[q]
       PROVE  y.intent # "restart-reseed" /\ LatePush(y, q, vault', late')
      <2>1. CASE q # r
            <3>1. y \in late[q] /\ vault'[q] = vault[q] /\ late'[q] = late[q]
                  BY <1>9, <2>1
            <3> QED BY <1>6, <3>1 DEF LatePush
      <2>2. CASE q = r
            <3>1. y = x /\ late'[q] = {y} /\ vault'[q] = a
                  BY <1>9, <2>2
            <3>2. late' # late
                  BY <1>8, <2>2
            <3>3. c.states[r] # Silent
                  BY <1>5, <3>2 DEF LeavesAlone
            <3>4. Serving(a) => Within(a.rings, x.bundle.rings)
                  <4>1. CASE a = vault[r]
                        BY <1>2, <1>6, <1>7, <3>3, <4>1 DEF CommandKeeps, Within, SameHeld
                  <4>2. CASE a.rings = x.bundle.rings
                        BY <4>2 DEF Within
                  <4> QED BY <1>5, <4>1, <4>2
            <3> QED BY <1>7, <3>1, <3>4 DEF LatePush
      <2> QED BY <2>1, <2>2
<1>13. cmd \in [Command -> CommandState] /\ cmd' = [cmd EXCEPT ![p] = e]
      BY <1>5, <1>10 DEF StateType
<1>14. Keeps(vault', late', cmd', pass, bundle)
      BY <1>6, <1>11, <1>12, <1>13, CommandTurn
<1> QED BY <1>2, <1>14

\* A bundle agrees with the replica that took it.
LEMMA AgreesItself ==
    ASSUME NEW b \in Rings, NEW v, v.rings = b
    PROVE  Agrees(b, v)
<1>1. \A s \in Scope : HoldsScope(b, s) => b[s].active \in b[s].held
      BY RingFacts DEF HoldsScope
<1> QED BY <1>1 DEF Agrees

\* A seal or a restart, which may drop calls in flight, disturbs nothing.
LEMMA SealedKeeps ==
    ASSUME NEW v, NEW l, NEW v2, NEW l2, NEW cs, NEW ps, NEW bs, Keeps(v, l, cs, ps, bs),
           \A r \in Replica : v2[r] = v[r] \/ ~Serving(v2[r]),
           \A r \in Replica : l2[r] = l[r] \/ l2[r] = {}
    PROVE  Keeps(v2, l2, cs, ps, bs)
<1>1. NoneLate(l) => NoneLate(l2)
      BY DEF NoneLate
<1>2. \A b : \A r \in Replica : Agrees(b, v[r]) => Agrees(b, v2[r])
      BY DEF Agrees
<1>3. \A states : Remembered(states, v) => Remembered(states, v2)
      BY DEF Remembered
<1>4. ASSUME NEW r \in Replica, NEW x \in l2[r]
      PROVE  IF x.intent = "restart-reseed" THEN LateReseed(x, v2, l2, cs) ELSE LatePush(x, r, v2, l2)
      <2>1. x \in l[r] /\ l2[r] = l[r]
            OBVIOUS
      <2>2. CASE x.intent = "restart-reseed"
            <3>1. LateReseed(x, v, l, cs)
                  BY <2>1, <2>2 DEF Keeps
            <3>2. \A q \in Replica : l2[q] \subseteq l[q]
                  OBVIOUS
            <3> QED BY <1>2, <2>2, <3>1, <3>2 DEF LateReseed
      <2>3. CASE x.intent # "restart-reseed"
            <3>1. LatePush(x, r, v, l)
                  BY <2>1, <2>3 DEF Keeps
            <3> QED BY <2>1, <2>3, <3>1 DEF LatePush
      <2> QED BY <2>2, <2>3
<1>5. ASSUME NEW p \in Command
      PROVE  CommandKeeps(cs[p], v2, l2)
      <2>1. PICK c : c = cs[p]
            OBVIOUS
      <2>2. CommandKeeps(c, v, l)
            BY <2>1 DEF Keeps
      <2>3. ASSUME NEW r \in Replica, c.pc = "push"
            PROVE  (r >= c.next => l2[r] = {}) /\ \A x \in l2[r] : Within(x.bundle.rings, c.keys)
            BY <2>2, <2>3 DEF CommandKeeps
      <2>4. c.pc \in {"hold", "push", "activate"} => \A r \in Replica :
              c.states[r] # Silent /\ Serving(v2[r]) => Within(v2[r].rings, c.keys)
            BY <2>2 DEF CommandKeeps
      <2>5. CommandKeeps(c, v2, l2)
            BY <1>1, <1>3, <2>2, <2>3, <2>4 DEF CommandKeeps
      <2> QED BY <2>1, <2>5
<1>6. ASSUME NEW k \in Keeper
      PROVE  PassKeeps(ps[k], bs[k], v2, l2)
      <2>1. PICK a, b : a = ps[k] /\ b = bs[k]
            OBVIOUS
      <2>2. PassKeeps(a, b, v, l)
            BY <2>1 DEF Keeps
      <2>3. PassKeeps(a, b, v2, l2)
            BY <1>1, <1>2, <1>3, <2>2 DEF PassKeeps
      <2> QED BY <2>1, <2>3
<1> QED BY <1>4, <1>5, <1>6 DEF Keeps

\* A late push of a command arrives.
LEMMA LatePushKeeps ==
    ASSUME StateType, KeysKept, NEW r \in Replica, NEW x \in late[r],
           x.intent # "restart-reseed", NEW a, vault' = [vault EXCEPT ![r] = a],
           a.rings = x.bundle.rings, late' = [late EXCEPT ![r] = late[r] \ {x}]
    PROVE  Keeps(vault', late', cmd, pass, bundle)
<1>1. Turns(cmd, pass) /\ LatePush(x, r, vault, late)
      BY DEF KeysKept, Keeps
<1>2. /\ \A q \in Replica : q # r => vault'[q] = vault[q] /\ late'[q] = late[q]
      /\ vault'[r] = a /\ late'[r] = {}
      BY <1>1 DEF StateType, LatePush
<1>3. ASSUME NEW q \in Replica, NEW y \in late'[q]
      PROVE  y.intent # "restart-reseed" /\ LatePush(y, q, vault', late')
      <2>1. q # r /\ y \in late[q]
            BY <1>2
      <2>2. y.intent # "restart-reseed"
            BY <2>1 DEF KeysKept, Keeps, LateReseed
      <2>3. LatePush(y, q, vault, late)
            BY <2>1, <2>2 DEF KeysKept, Keeps
      <2> QED BY <1>2, <2>1, <2>2, <2>3 DEF LatePush
<1>4. ~NoneLate(late)
      BY DEF NoneLate
<1>5. ASSUME NEW p \in Command
      PROVE  CommandKeeps(cmd[p], vault', late')
      <2>1. PICK c \in CommandState : c = cmd[p]
            BY DEF StateType
      <2>2. CommandKeeps(c, vault, late)
            BY <2>1 DEF KeysKept, Keeps
      <2>3. CASE c.pc = "push"
            <3>1. c.refused # {}
                  BY <1>4, <2>2, <2>3 DEF CommandKeeps
            <3>2. Within(x.bundle.rings, c.keys)
                  BY <2>2, <2>3 DEF CommandKeeps
            <3>3. ASSUME NEW q \in Replica
                  PROVE  /\ q >= c.next => late'[q] = {}
                         /\ \A y \in late'[q] : Within(y.bundle.rings, c.keys)
                         /\ c.states[q] # Silent /\ Serving(vault'[q]) => Within(vault'[q].rings, c.keys)
                  <4>1. CASE q = r
                        BY <1>2, <3>2, <4>1
                  <4>2. CASE q # r
                        <5>1. late'[q] = late[q] /\ vault'[q] = vault[q]
                              BY <1>2, <4>2
                        <5>2. /\ q >= c.next => late[q] = {}
                              /\ \A y \in late[q] : Within(y.bundle.rings, c.keys)
                              /\ c.states[q] # Silent /\ Serving(vault[q]) => Within(vault[q].rings, c.keys)
                              BY <2>2, <2>3 DEF CommandKeeps
                        <5> QED BY <5>1, <5>2
                  <4> QED BY <4>1, <4>2
            <3>4. c.round = 1 => SameHeld(c.held, c.keys)
                  BY <2>2, <2>3 DEF CommandKeeps
            <3>5. CommandKeeps(c, vault', late')
                  BY <2>3, <3>1, <3>3, <3>4 DEF CommandKeeps
            <3> QED BY <2>1, <3>5
      <2>4. CASE c.pc # "push"
            <3>1. c.pc \notin {"save", "load", "read", "hold", "activate"}
                  BY <1>4, <2>2 DEF CommandKeeps
            <3>2. c.pc \in {"idle", "confirm", "record", "fallback"}
                  BY <2>4, <3>1 DEF CommandState, Steps
            <3> QED BY <2>1, <3>2, DoneKeeps
      <2> QED BY <2>3, <2>4
<1>6. ASSUME NEW k \in Keeper
      PROVE  PassKeeps(pass[k], bundle[k], vault', late')
      <2>1. PassKeeps(pass[k], bundle[k], vault, late)
            BY DEF KeysKept, Keeps
      <2>2. pass[k].pc \notin {"read", "push"}
            BY <1>4, <2>1 DEF PassKeeps
      <2> QED BY <2>2 DEF PassKeeps
<1> QED BY <1>1, <1>3, <1>5, <1>6 DEF Keeps

\* The replicas all agree with b, and nothing but re-seeds from it is under way.
AllAgree(b, v, l) ==
    /\ \A q \in Replica : Agrees(b, v[q])
    /\ \A q \in Replica : \A y \in l[q] : y.intent = "restart-reseed" /\ y.bundle.rings = b

\* Replicas that take b go on agreeing with it.
LEMMA AgreeMore ==
    ASSUME NEW b \in Rings, NEW v, NEW l, NEW v2, NEW l2, AllAgree(b, v, l),
           \A q \in Replica : v2[q] = v[q] \/ v2[q].rings = b,
           \A q \in Replica : \A y \in l2[q] :
             y \in l[q] \/ (y.intent = "restart-reseed" /\ y.bundle.rings = b)
    PROVE  AllAgree(b, v2, l2)
<1>1. \A q \in Replica : Agrees(b, v2[q])
      BY AgreesItself DEF AllAgree
<1> QED BY <1>1 DEF AllAgree

\* While nothing but re-seeds is under way.
LEMMA ReseedTurn ==
    ASSUME NEW b, NEW v, NEW l, NEW cs, NEW ps, NEW bs, AllAgree(b, v, l), Turns(cs, ps),
           \A p \in Command : cs[p].pc = "idle",
           \A k \in Keeper : PassKeeps(ps[k], bs[k], v, l)
    PROVE  Keeps(v, l, cs, ps, bs)
<1>1. ASSUME NEW r \in Replica, NEW x \in l[r]
      PROVE  x.intent = "restart-reseed" /\ LateReseed(x, v, l, cs)
      BY DEF AllAgree, LateReseed
<1>2. \A p \in Command : CommandKeeps(cs[p], v, l)
      BY DoneKeeps
<1> QED BY <1>1, <1>2 DEF Keeps

\* A late re-seed arrives.
LEMMA LateReseedKeeps ==
    ASSUME StateType, KeysKept, NEW r \in Replica, NEW x \in late[r],
           x.intent = "restart-reseed", NEW a, vault' = [vault EXCEPT ![r] = a],
           a = vault[r] \/ a.rings = x.bundle.rings, late' = [late EXCEPT ![r] = late[r] \ {x}]
    PROVE  Keeps(vault', late', cmd, pass, bundle)
<1>1. x \in InFlight
      BY DEF StateType
<1>2. PICK b \in Rings : b = x.bundle.rings
      BY <1>1 DEF InFlight, BundleOf
<1>3. Turns(cmd, pass) /\ LateReseed(x, vault, late, cmd)
      BY DEF KeysKept, Keeps
<1>4. AllAgree(b, vault, late) /\ \A p \in Command : cmd[p].pc = "idle"
      BY <1>2, <1>3 DEF LateReseed, AllAgree
<1>5. /\ \A q \in Replica : vault'[q] = vault[q] \/ vault'[q].rings = b
      /\ \A q \in Replica : late'[q] \subseteq late[q]
      BY <1>2 DEF StateType
<1>6. AllAgree(b, vault', late')
      BY <1>4, <1>5, AgreeMore
<1>7. ASSUME NEW k \in Keeper
      PROVE  PassKeeps(pass[k], bundle[k], vault', late')
      <2>1. PassKeeps(pass[k], bundle[k], vault, late)
            BY DEF KeysKept, Keeps
      <2>2. pass[k].pc # "read"
            BY <2>1 DEF PassKeeps, NoneLate
      <2>3. CASE pass[k].pc = "push"
            <3>1. bundle[k].rings = b
                  BY <1>2, <2>1, <2>3 DEF PassKeeps
            <3> QED BY <1>6, <2>2, <3>1 DEF PassKeeps, AllAgree
      <2> QED BY <2>2, <2>3 DEF PassKeeps
<1> QED BY <1>3, <1>4, <1>6, <1>7, ReseedTurn

\* What a late push does to its replica.
LEMMA LateArrives ==
    ASSUME StateType, NEW r \in Replica, NEW x \in late[r], DeliverLate(r, x)
    PROVE  \E a \in VaultState :
             /\ vault' = [vault EXCEPT ![r] = a] /\ late' = [late EXCEPT ![r] = late[r] \ {x}]
             /\ a = vault[r] \/ (Serving(a) /\ a.rings = x.bundle.rings)
             /\ x.intent = "restart-reseed" /\ Serving(vault[r]) => a = vault[r]
<1>1. x \in InFlight /\ vault[r] \in VaultState
      BY DEF StateType
<1>2. PICK b \in BundleOf({Instance}), intent \in Intent : b = x.bundle /\ intent = x.intent
      BY <1>1 DEF InFlight
<1>3. PICK a : a = UnsealVault(vault[r], b, intent)
      OBVIOUS
<1>4. /\ a \in VaultState
      /\ a = vault[r] \/ (Serving(a) /\ a.rings = b.rings)
      /\ intent = "restart-reseed" /\ Serving(vault[r]) => a = vault[r]
      <2>1. vault[r] \in VaultState /\ b \in BundleOf({Instance}) /\ intent \in Intent
            BY <1>1
      <2>2. a \in VaultState /\ (a = vault[r] \/ (Serving(a) /\ a.rings = b.rings))
            BY ONLY <1>3, <2>1, UnsealInstalls
      <2>3. intent = "restart-reseed" /\ Serving(vault[r]) => UnsealVerdict(vault[r], b, intent) # "install"
            BY DEF UnsealVerdict
      <2>4. intent = "restart-reseed" /\ Serving(vault[r]) => a = vault[r]
            BY <1>3, <2>3 DEF UnsealVault
      <2> QED BY <2>2, <2>4
<1>5. vault' = [vault EXCEPT ![r] = a] /\ late' = [late EXCEPT ![r] = late[r] \ {x}]
      BY <1>2, <1>3 DEF DeliverLate
<1> QED BY <1>2, <1>4, <1>5

\* A restart, a seal or a released hold leaves a replica that does not serve,
\* or one that is as it was.
LEMMA ReplicaRests ==
    ASSUME StateType, NEW r \in Replica,
           Restart(r) \/ ReleaseReplica(r) \/ \E hold \in BOOLEAN : SealReplica(r, hold)
    PROVE  /\ \A q \in Replica : vault'[q] = vault[q] \/ ~Serving(vault'[q])
           /\ \A q \in Replica : late'[q] = late[q] \/ late'[q] = {}
<1>1. vault[r] \in VaultState
      BY DEF StateType
<1>2. CASE Restart(r)
      BY <1>2 DEF Restart, NewVault, Serving, StateType
<1>3. CASE ReleaseReplica(r)
      <2>1. PICK a : a = ReleaseVault(vault[r])
            OBVIOUS
      <2>2. a = vault[r] \/ ~Serving(a)
            BY <1>1, <2>1 DEF ReleaseVault, Serving, VaultState
      <2>3. vault' = [vault EXCEPT ![r] = a] /\ late' = late
            BY <1>3, <2>1 DEF ReleaseReplica
      <2> QED BY <2>2, <2>3 DEF StateType
<1>4. ASSUME NEW hold \in BOOLEAN, SealReplica(r, hold)
      PROVE  /\ \A q \in Replica : vault'[q] = vault[q] \/ ~Serving(vault'[q])
             /\ \A q \in Replica : late'[q] = late[q]
      <2>1. PICK a : a = SealVault(vault[r], hold)
            OBVIOUS
      <2>2. ~Serving(a)
            BY <2>1 DEF SealVault, Serving
      <2>3. vault' = [vault EXCEPT ![r] = a] /\ late' = late
            BY <1>4, <2>1 DEF SealReplica
      <2> QED BY <2>2, <2>3 DEF StateType
<1> QED BY <1>2, <1>3, <1>4

\* Restarts, seals, released holds and late pushes.
LEMMA ReplicaKeeps ==
    ASSUME StateType, KeysKept, NEW r \in Replica, ReplicaStep(r)
    PROVE  Keeps(vault', late', cmd', pass', bundle')
<1>1. cmd' = cmd /\ pass' = pass /\ bundle' = bundle
      BY DEF ReplicaStep, Restart, ReleaseReplica, SealReplica, DeliverLate, Event, keeperVars
<1>2. CASE Restart(r) \/ ReleaseReplica(r) \/ \E hold \in BOOLEAN : SealReplica(r, hold)
      <2>1. /\ \A q \in Replica : vault'[q] = vault[q] \/ ~Serving(vault'[q])
            /\ \A q \in Replica : late'[q] = late[q] \/ late'[q] = {}
            BY <1>2, ReplicaRests
      <2>2. Keeps(vault', late', cmd, pass, bundle)
            BY <2>1, SealedKeeps DEF KeysKept
      <2> QED BY <1>1, <2>2
<1>3. ASSUME NEW x \in late[r], DeliverLate(r, x)
      PROVE  Keeps(vault', late', cmd', pass', bundle')
      <2>1. PICK a \in VaultState :
              /\ vault' = [vault EXCEPT ![r] = a] /\ late' = [late EXCEPT ![r] = late[r] \ {x}]
              /\ a = vault[r] \/ (Serving(a) /\ a.rings = x.bundle.rings)
            BY <1>3, LateArrives
      <2>2. CASE x.intent = "restart-reseed"
            BY <1>1, <2>1, <2>2, LateReseedKeeps
      <2>3. CASE x.intent # "restart-reseed" /\ a.rings = x.bundle.rings
            BY <1>1, <2>1, <2>3, LatePushKeeps
      <2>4. CASE x.intent # "restart-reseed" /\ a = vault[r]
            <3>1. late[r] = {x}
                  BY <2>4 DEF KeysKept, Keeps, LatePush
            <3>2. /\ \A q \in Replica : vault'[q] = vault[q]
                  /\ \A q \in Replica : late'[q] = late[q] \/ late'[q] = {}
                  BY <2>1, <2>4, <3>1 DEF StateType
            <3>3. Keeps(vault', late', cmd, pass, bundle)
                  BY <3>2, SealedKeeps DEF KeysKept
            <3> QED BY <1>1, <3>3
      <2> QED BY <2>1, <2>2, <2>3, <2>4
<1> QED BY <1>2, <1>3 DEF ReplicaStep

\* A pass takes its turn alone.
LEMMA PassAlone ==
    ASSUME KeysKept, NEW k \in Keeper, pass[k].pc # "idle"
    PROVE  /\ \A p \in Command : cmd[p].pc = "idle"
           /\ \A j \in Keeper : j # k => pass[j].pc = "idle"
           /\ PassKeeps(pass[k], bundle[k], vault, late) /\ Turns(cmd, pass)
BY DEF KeysKept, Keeps, Turns

\* The turns after a step of the only pass there is.
LEMMA PassTurn ==
    ASSUME StateType, Turns(cmd, pass), NEW k \in Keeper, NEW e, pass' = [pass EXCEPT ![k] = e],
           cmd' = cmd, \A p \in Command : cmd[p].pc = "idle",
           \A j \in Keeper : j # k => pass[j].pc = "idle",
           e.pc = "idle" => e.states = AllSilent,
           PassKeeps(e, bundle[k], vault', late'), bundle' = bundle
    PROVE  /\ Turns(cmd', pass')
           /\ \A j \in Keeper : PassKeeps(pass'[j], bundle'[j], vault', late')
<1>1. pass'[k] = e /\ \A j \in Keeper : j # k => pass'[j] = pass[j]
      BY DEF StateType
<1>2. Turns(cmd', pass')
      BY <1>1 DEF Turns
<1>3. ASSUME NEW j \in Keeper
      PROVE  PassKeeps(pass'[j], bundle'[j], vault', late')
      <2>1. CASE j = k
            BY <1>1, <2>1
      <2>2. CASE j # k
            <3>1. pass'[j].pc = "idle"
                  BY <1>1, <2>2
            <3> QED BY <3>1 DEF PassKeeps
      <2> QED BY <2>1, <2>2
<1> QED BY <1>2, <1>3

\* A complete, true answer that a bundle does not mismatch agrees with it.
LEMMA NoMismatch ==
    ASSUME NEW b, NEW states, NEW v, Remembered(states, v), ~Mismatch(b, states), ~Unchecked(states)
    PROVE  \A q \in Replica : Agrees(b, v[q])
<1>1. SUFFICES ASSUME NEW q \in Replica, Serving(v[q]), NEW s \in Scope, HoldsScope(v[q].rings, s)
               PROVE  v[q].rings[s].held \subseteq b[s].held /\ b[s].active \in v[q].rings[s].held
      BY DEF Agrees
<1>2. states[q] # Silent
      BY DEF Unchecked
<1>3. Serving(states[q]) /\ v[q].rings[s].held = states[q].rings[s].held
      BY <1>1, <1>2 DEF Remembered, SameHeld
<1>4. q \in Holders(states, s)
      BY <1>1, <1>3 DEF Holders, HoldsScope
<1>5. states[q].rings[s].held \subseteq b[s].held /\ b[s].active \in states[q].rings[s].held
      BY <1>4 DEF Mismatch
<1> QED BY <1>3, <1>5

\* A keeper asks a replica.
LEMMA KeeperReadKeeps ==
    ASSUME StateType, KeysKept, ~scene.overlap, NEW k \in Keeper, NEW answered \in BOOLEAN,
           KeeperRead(k, answered)
    PROVE  Keeps(vault', late', cmd', pass', bundle')
<1>1. PICK b : b = pass[k] /\ PassSound(b)
      BY DEF StateType
<1>2. b.next \in Replica /\ b.states \in [Replica -> Answer]
      BY <1>1 DEF PassSound, PassState
<1>3. PICK a : a = IF answered THEN vault[b.next] ELSE Silent
      OBVIOUS
<1>4. PICK states : states = [b.states EXCEPT ![b.next] = a]
      OBVIOUS
<1>5. PICK e : e = IF b.next + 1 < Replicas
                     THEN [pc |-> "read", states |-> states, next |-> b.next + 1]
                     ELSE [pc |-> "push", states |-> states, next |-> 0]
      OBVIOUS
<1>6. /\ pass' = [pass EXCEPT ![k] = e] /\ cmd' = cmd /\ bundle' = bundle
      /\ vault' = vault /\ late' = late
      BY <1>1, <1>3, <1>4, <1>5 DEF KeeperRead, fleetVars
<1>7. b.pc = "read" \/ (b.pc = "idle" /\ Quiet)
      BY <1>1 DEF KeeperRead, MayStart
<1>8. /\ \A p \in Command : cmd[p].pc = "idle"
      /\ \A j \in Keeper : j # k => pass[j].pc = "idle"
      /\ NoneLate(late) /\ Remembered(b.states, vault) /\ Turns(cmd, pass)
      <2>1. CASE b.pc = "read"
            BY <1>1, <2>1, PassAlone DEF PassKeeps
      <2>2. CASE b.pc = "idle" /\ Quiet
            <3>1. Turns(cmd, pass)
                  BY DEF KeysKept, Keeps
            <3>2. b.states = AllSilent
                  BY <1>1, <2>2, <3>1 DEF Turns
            <3>3. Remembered(b.states, vault)
                  BY <3>2 DEF Remembered, AllSilent
            <3> QED BY <2>2, <3>1, <3>3 DEF Quiet, NoneLate
      <2> QED BY <1>7, <2>1, <2>2
<1>9. Remembered(states, vault)
      <2>1. states[b.next] = a /\ \A r \in Replica : r # b.next => states[r] = b.states[r]
            BY <1>2, <1>4
      <2> QED BY <1>2, <1>3, <1>8, <2>1, RememberedMore
<1>10. e.pc \in {"read", "push"} /\ e.states = states
      BY <1>5
<1>11. PassKeeps(e, bundle[k], vault, late)
      <2>1. ~Mismatch(bundle[k].rings, states) /\ ~Unchecked(states) =>
              \A q \in Replica : Agrees(bundle[k].rings, vault[q])
            BY <1>9, NoMismatch
      <2> QED BY <1>8, <1>9, <1>10, <2>1 DEF PassKeeps, NoneLate
<1>12. /\ Turns(cmd', pass')
       /\ \A j \in Keeper : PassKeeps(pass'[j], bundle'[j], vault', late')
      BY <1>6, <1>8, <1>10, <1>11, PassTurn
<1>13. /\ \A r \in Replica : late'[r] = {}
       /\ \A p \in Command : CommandKeeps(cmd'[p], vault', late')
      BY <1>6, <1>8, DoneKeeps DEF NoneLate
<1> QED BY <1>12, <1>13 DEF Keeps

\* A keeper that goes on to the next replica keeps its answers.
LEMMA DecidedMoves ==
    ASSUME StateType, NEW k \in Keeper, pass[k].pc = "push", Decided(k)
    PROVE  \E e : /\ pass' = [pass EXCEPT ![k] = e]
                  /\ \/ e.pc = "push" /\ e.states = pass[k].states
                     \/ e.pc = "idle" /\ e.states = AllSilent
<1>1. PICK b \in PassState : b = pass[k]
      BY DEF StateType
<1>2. CASE b.next + 1 < Replicas
      <2>1. PICK e : e = [b EXCEPT !.next = b.next + 1]
            OBVIOUS
      <2>2. e.pc = "push" /\ e.states = b.states
            BY <1>1, <2>1 DEF PassState
      <2>3. pass' = [pass EXCEPT ![k] = e]
            BY <1>1, <1>2, <2>1 DEF Decided
      <2> QED BY <1>1, <2>2, <2>3
<1>3. CASE ~(b.next + 1 < Replicas)
      <2>1. pass' = [pass EXCEPT ![k] = Resting]
            BY <1>1, <1>3 DEF Decided
      <2>2. Resting.pc = "idle" /\ Resting.states = AllSilent
            BY DEF Resting
      <2> QED BY <2>1, <2>2
<1> QED BY <1>2, <1>3

\* A keeper leaves a replica alone, or re-seeds it: the bundle agrees with every
\* replica, and then with one more.
LEMMA KeeperDecides ==
    ASSUME StateType, KeysKept, NEW k \in Keeper, NEW how, NEW withinBudget,
           KeeperLeaves(k, withinBudget) \/ KeeperReseeds(k, how)
    PROVE  Keeps(vault', late', cmd', pass', bundle')
<1>1. /\ pass[k].pc = "push" /\ Decided(k) /\ cmd' = cmd /\ bundle' = bundle
      BY DEF KeeperLeaves, KeeperReseeds
<1>2. PICK a : a = pass[k] /\ PassSound(a)
      BY DEF StateType
<1>3. PICK b \in Rings : b = bundle[k].rings
      BY DEF StateType, BundleOf
<1>4. /\ \A p \in Command : cmd[p].pc = "idle"
      /\ \A j \in Keeper : j # k => pass[j].pc = "idle"
      /\ PassKeeps(a, bundle[k], vault, late) /\ Turns(cmd, pass)
      BY <1>1, <1>2, PassAlone
<1>5. PICK e : /\ pass' = [pass EXCEPT ![k] = e]
               /\ \/ e.pc = "push" /\ e.states = a.states
                  \/ e.pc = "idle" /\ e.states = AllSilent
      BY <1>1, <1>2, DecidedMoves
<1>6. CASE KeeperLeaves(k, withinBudget)
      <2>1. vault' = vault /\ late' = late
            BY <1>6 DEF KeeperLeaves, fleetVars
      <2>2. PassKeeps(e, bundle[k], vault', late')
            BY <1>1, <1>2, <1>4, <1>5, <2>1 DEF PassKeeps
      <2>3. /\ Turns(cmd', pass')
            /\ \A j \in Keeper : PassKeeps(pass'[j], bundle'[j], vault', late')
            BY <1>1, <1>4, <1>5, <2>2, PassTurn
      <2>4. \A r \in Replica : \A x \in late[r] :
              IF x.intent = "restart-reseed" THEN LateReseed(x, vault, late, cmd)
                                             ELSE LatePush(x, r, vault, late)
            BY DEF KeysKept, Keeps
      <2>5. \A p \in Command : CommandKeeps(cmd[p], vault, late)
            BY DEF KeysKept, Keeps
      <2> QED BY <1>1, <2>1, <2>3, <2>4, <2>5 DEF Keeps
<1>7. CASE KeeperReseeds(k, how)
      <2>0. PICK x : x = [bundle |-> bundle[k], intent |-> "restart-reseed"]
            OBVIOUS
      <2>1. PICK r \in Replica : r = a.next
            BY <1>2 DEF PassSound
      <2>2. /\ vault' = IF how = "answered" THEN [vault EXCEPT ![r] = UnsealVault(vault[r], x.bundle, x.intent)]
                                            ELSE vault
            /\ late' = IF how = "late" THEN [late EXCEPT ![r] = late[r] \union {x}] ELSE late
            /\ ~Mismatch(b, a.states) /\ ~Unchecked(a.states)
            BY <1>2, <1>3, <1>7, <2>0, <2>1 DEF KeeperReseeds, Reseeds
      <2>3. x.bundle.rings = b /\ x.intent = "restart-reseed"
            BY <1>3, <2>0
      <2>4. AllAgree(b, vault, late)
            BY <1>1, <1>2, <1>3, <1>4, <2>2 DEF PassKeeps, AllAgree
      <2>5. \A q \in Replica : vault'[q] = vault[q] \/ vault'[q].rings = b
            <3>1. PICK v, after : v = vault[r] /\ after = UnsealVault(v, x.bundle, x.intent)
                  OBVIOUS
            <3>2. after = v \/ after.rings = b
                  BY <2>3, <3>1 DEF UnsealVault
            <3> QED BY <2>2, <3>1, <3>2 DEF StateType
      <2>6. \A q \in Replica : \A y \in late'[q] :
              y \in late[q] \/ (y.intent = "restart-reseed" /\ y.bundle.rings = b)
            BY <2>2, <2>3 DEF StateType
      <2>7. AllAgree(b, vault', late')
            BY <2>4, <2>5, <2>6, AgreeMore
      <2>8. PassKeeps(e, bundle[k], vault', late')
            BY <1>3, <1>5, <2>7 DEF PassKeeps, AllAgree
      <2>9. /\ Turns(cmd', pass')
            /\ \A j \in Keeper : PassKeeps(pass'[j], bundle'[j], vault', late')
            BY <1>1, <1>4, <1>5, <2>8, PassTurn
      <2>10. \A p \in Command : cmd'[p].pc = "idle"
            BY <1>1, <1>4
      <2> QED BY <2>7, <2>9, <2>10, ReseedTurn
<1> QED BY <1>6, <1>7

\* keeper enroll, when nothing is under way.
LEMMA EnrolKeeps ==
    ASSUME StateType, KeysKept, ~scene.overlap, NEW k \in Keeper, NEW m \in Machine, Enrol(k, m)
    PROVE  Keeps(vault', late', cmd', pass', bundle')
<1>1. Quiet /\ vault' = vault /\ late' = late /\ cmd' = cmd /\ pass' = pass
      BY DEF Enrol, MayStart, fleetVars
<1>2. /\ \A p \in Command : cmd'[p].pc = "idle"
      /\ \A j \in Keeper : pass'[j].pc = "idle"
      /\ \A r \in Replica : late'[r] = {}
      BY <1>1 DEF Quiet
<1>3. Turns(cmd', pass')
      BY <1>1 DEF KeysKept, Keeps
<1>4. \A p \in Command : CommandKeeps(cmd'[p], vault', late')
      BY <1>2, DoneKeeps
<1>5. \A j \in Keeper : PassKeeps(pass'[j], bundle'[j], vault', late')
      BY <1>2 DEF PassKeeps
<1> QED BY <1>2, <1>3, <1>4, <1>5 DEF Keeps

\* The instance as a first unseal leaves it.
LEMMA KeysKeptInit == Init => KeysKept
<1> SUFFICES ASSUME Init PROVE KeysKept
    OBVIOUS
<1>1. /\ \A p \in Command : cmd[p].pc = "idle"
      /\ \A k \in Keeper : pass[k].pc = "idle" /\ pass[k].states = AllSilent
      /\ \A r \in Replica : late[r] = {}
      BY DEF Init, Idle, Resting
<1>2. Turns(cmd, pass)
      BY <1>1 DEF Turns
<1>3. \A p \in Command : CommandKeeps(cmd[p], vault, late)
      BY <1>1, DoneKeeps
<1>4. \A k \in Keeper : PassKeeps(pass[k], bundle[k], vault, late)
      BY <1>1 DEF PassKeeps
<1> QED BY <1>1, <1>2, <1>3, <1>4 DEF KeysKept, Keeps

\* The invariant of the next state.
LEMMA KeysKeptPrimed ==
    ASSUME Keeps(vault', late', cmd', pass', bundle')
    PROVE  KeysKept'
BY DEF KeysKept, Keeps, Turns, LatePush, LateReseed, CommandKeeps, PassKeeps, Agrees, Within,
       Remembered, SameHeld, NoneLate, Serving, HoldsScope, Silent, AllSilent, Mismatch, Unchecked,
       Holders, Newer

\* Every step keeps it.
LEMMA KeysKeptStep ==
    ASSUME ~scene.overlap, HandOverType, KeysKept, [Next]_vars
    PROVE  KeysKept'
<1>0. StateType
      BY DEF HandOverType
<1>1. CASE UNCHANGED vars
      <2>1. Keeps(vault', late', cmd', pass', bundle')
            BY <1>1 DEF vars, KeysKept
      <2> QED BY <2>1, KeysKeptPrimed
<1>2. CASE Next
      <2>1. ASSUME NEW p \in Command, CommandStep(p)
            PROVE  Keeps(vault', late', cmd', pass', bundle')
            <3>1. CASE \E kind \in Kind : BeginUnseal(p, kind) \/ BeginSaving(p, kind)
                  BY <1>0, <3>1, BeginKeeps
            <3>2. CASE SaveRotated(p) \/ LoadKeys(p) \/ \E s \in Scope : SaveScope(p, s)
                  BY <1>0, <3>2, PrepareKeeps
            <3>3. CASE SaveHeld(p) \/ SaveActive(p)
                  BY <1>0, <3>3, SaveKeeps
            <3>4. CASE \E answered \in BOOLEAN : ReadReplica(p, answered)
                  BY <1>0, <3>4, ReadKeeps
            <3>5. CASE Pushes(p)
                  BY <1>0, <3>5, PushKeeps
            <3>6. CASE \/ \E r \in Replica, answered \in BOOLEAN : ConfirmReplica(p, r, answered)
                       \/ Record(p) \/ PutBack(p) \/ Kill(p)
                  BY <1>0, <3>6, FinishKeeps
            <3> QED BY <2>1, <3>1, <3>2, <3>3, <3>4, <3>5, <3>6 DEF CommandStep, Pushes
      <2>2. ASSUME NEW k \in Keeper, KeeperStep(k)
            PROVE  Keeps(vault', late', cmd', pass', bundle')
            <3>1. CASE \E m \in Machine : Enrol(k, m)
                  BY <1>0, <3>1, EnrolKeeps
            <3>2. CASE \E answered \in BOOLEAN : KeeperRead(k, answered)
                  BY <1>0, <3>2, KeeperReadKeeps
            <3>3. ASSUME NEW withinBudget, KeeperLeaves(k, withinBudget)
                  PROVE  Keeps(vault', late', cmd', pass', bundle')
                  BY <1>0, <3>3, KeeperDecides
            <3>4. ASSUME NEW how, KeeperReseeds(k, how)
                  PROVE  Keeps(vault', late', cmd', pass', bundle')
                  BY <1>0, <3>4, KeeperDecides
            <3> QED BY <2>2, <3>1, <3>2, <3>3, <3>4 DEF KeeperStep
      <2>3. ASSUME NEW m \in Machine, NEW from \in Machine, ImportKeys(m, from)
            PROVE  Keeps(vault', late', cmd', pass', bundle')
            BY <2>3 DEF ImportKeys, fleetVars, keeperVars, KeysKept
      <2>4. Keeps(vault', late', cmd', pass', bundle')
            BY <1>0, <1>2, <2>1, <2>2, <2>3, ReplicaKeeps DEF Next
      <2> QED BY <2>4, KeysKeptPrimed
<1> QED BY <1>1, <1>2

\* No push takes from a serving replica the key it is writing under, as long as
\* commands and keeper passes do not overlap: planHandOver refuses a keyring that
\* lacks a key of a serving replica (behind), what a replica answered stays true
\* until its push, a push that failed for its caller and arrives late still
\* brings every key its replica has, and a keeper never touches one that serves.
THEOREM NoPushTakesKeys == Spec => NoKeyTaken
<1> DEFINE A == ~scene.overlap => \A r \in Replica, s \in Scope :
                  Serving(vault[r]) /\ Serving(vault[r])' /\ HoldsScope(vault[r].rings, s) =>
                    vault[r].rings[s].active \in vault'[r].rings[s].held
           Kept == ~scene.overlap => KeysKept
<1>1. ASSUME HandOverType, Kept, [Next]_vars
      PROVE  [A]_vars
      <2>1. SUFFICES ASSUME KeysKept, Next, NEW r \in Replica, NEW s \in Scope, Serving(vault[r]),
                            Serving(vault'[r]), HoldsScope(vault[r].rings, s)
                     PROVE  vault[r].rings[s].active \in vault'[r].rings[s].held
            BY <1>1 DEF Serving
      <2>2. StateType /\ vault[r] \in VaultState
            BY <1>1 DEF HandOverType, StateType
      <2>3. PICK rings \in Rings : rings = vault[r].rings
            BY <2>2 DEF VaultState
      <2>4. rings[s].active \in rings[s].held
            BY <2>1, <2>3, RingFacts DEF HoldsScope
      <2>5. SUFFICES ASSUME vault'[r] # vault[r]
                     PROVE  Within(rings, vault'[r].rings)
            BY <2>3, <2>4 DEF Within
      <2>6. ASSUME NEW p \in Command, CommandStep(p)
            PROVE  Within(rings, vault'[r].rings)
            <3>1. PICK c \in CommandState : c = cmd[p] /\ CommandSound(c)
                  BY <2>2 DEF StateType
            <3>2. PICK b \in BundleOf({Instance}), intent \in Intent :
                    b = Sent(c).bundle /\ intent = Sent(c).intent
                  BY SentType DEF InFlight
            <3>3. /\ vault'[r] = UnsealVault(vault[r], b, intent) /\ c.pc = "push"
                  /\ ~LeavesAlone(c, r)
                  BY <2>2, <2>5, <2>6, <3>1, <3>2, CommandPushes
            <3>4. vault'[r].rings = b.rings
                  <4>1. PICK v, after : v = vault[r] /\ after = vault'[r]
                        OBVIOUS
                  <4>2. /\ v \in VaultState /\ after # v /\ after = UnsealVault(v, b, intent)
                        /\ b \in BundleOf({Instance}) /\ intent \in Intent
                        BY <2>2, <2>5, <3>2, <3>3, <4>1
                  <4>3. after.rings = b.rings
                        BY ONLY <4>2, UnsealInstalls
                  <4> QED BY <4>1, <4>3
            <3>5. CommandKeeps(c, vault, late)
                  BY <2>1, <3>1 DEF KeysKept, Keeps
            <3>6. Within(rings, c.keys)
                  BY <2>1, <2>3, <3>3, <3>5 DEF CommandKeeps, LeavesAlone
            <3>7. SameHeld(b.rings, c.keys)
                  BY <3>2, <3>3, <3>5, SentKeys
            <3> QED BY <3>4, <3>6, <3>7 DEF Within, SameHeld
      <2>7. ASSUME NEW k \in Keeper, KeeperStep(k)
            PROVE  FALSE
            <3>1. PICK x : x = [bundle |-> bundle[k], intent |-> "restart-reseed"]
                  OBVIOUS
            <3>2. vault'[r] = UnsealVault(vault[r], x.bundle, x.intent)
                  BY <2>2, <2>5, <2>7, <3>1 DEF KeeperStep, Enrol, KeeperRead, KeeperLeaves,
                       KeeperReseeds, fleetVars, StateType
            <3>3. x.intent = "restart-reseed"
                  BY <3>1
            <3>4. UnsealVerdict(vault[r], x.bundle, x.intent) # "install"
                  BY <2>1, <3>3 DEF UnsealVerdict
            <3> QED BY <2>5, <3>2, <3>4 DEF UnsealVault
      <2>8. ASSUME NEW q \in Replica, ReplicaStep(q)
            PROVE  Within(rings, vault'[r].rings)
            <3>1. ~(Restart(q) \/ ReleaseReplica(q) \/ \E hold \in BOOLEAN : SealReplica(q, hold))
                  BY <2>1, <2>2, <2>5, ReplicaRests
            <3>2. PICK x \in late[q] : DeliverLate(q, x)
                  BY <2>8, <3>1 DEF ReplicaStep
            <3>3. PICK a \in VaultState :
                    /\ vault' = [vault EXCEPT ![q] = a] /\ late' = [late EXCEPT ![q] = late[q] \ {x}]
                    /\ a = vault[q] \/ (Serving(a) /\ a.rings = x.bundle.rings)
                    /\ x.intent = "restart-reseed" /\ Serving(vault[q]) => a = vault[q]
                  BY <2>2, <3>2, LateArrives
            <3>4. q = r /\ vault'[r] = a
                  BY <2>2, <2>5, <3>3 DEF StateType
            <3>5. x.intent # "restart-reseed" /\ a.rings = x.bundle.rings
                  BY <2>1, <2>5, <3>3, <3>4
            <3>6. LatePush(x, r, vault, late)
                  BY <2>1, <3>4, <3>5 DEF KeysKept, Keeps
            <3> QED BY <2>1, <2>3, <3>4, <3>5, <3>6 DEF LatePush
      <2>9. ~\E m, from \in Machine : ImportKeys(m, from)
            BY <2>5 DEF ImportKeys, fleetVars
      <2> QED BY <2>1, <2>6, <2>7, <2>8, <2>9 DEF Next
<1>2. HandOverType /\ Kept /\ [Next]_vars => Kept'
      BY KeysKeptStep, SceneStays
<1>3. Init => Kept
      BY KeysKeptInit
<1> QED BY <1>1, <1>2, <1>3, HandOverTypeInit, HandOverTypeStep, PTL DEF Spec, NoKeyTaken

\* A command takes no late push back and makes no keeper's step.
LEMMA CommandLeaves ==
    ASSUME StateType, NEW p \in Command, CommandStep(p)
    PROVE  pass' = pass /\ \A r \in Replica : late[r] \subseteq late'[r]
<1>1. ASSUME NEW how, PushFails(p, how)
      PROVE  pass' = pass /\ \A r \in Replica : late[r] \subseteq late'[r]
      BY <1>1 DEF PushFails, keeperVars, StateType
<1>2. CASE ~\E how \in {"lost", "answer lost", "late"} : PushFails(p, how)
      BY <1>2 DEF CommandStep, BeginUnseal, BeginSaving, Start, fleetVars, keeperVars, LoadKeys,
                  ReadReplica, PassOver, PushReplica, ConfirmReplica, Record, Kill, SaveRotated,
                  SaveHeld, SaveActive, SaveScope, PutBack
<1> QED BY <1>1, <1>2

\* NoSplit, of the vaults v.
AllWhole(v) ==
    \A r, q \in Replica, s \in Scope :
      Serving(v[r]) /\ Serving(v[q]) /\ HoldsScope(v[r].rings, s) /\ HoldsScope(v[q].rings, s) =>
        v[r].rings[s].active \in v[q].rings[s].held

\* A whole fleet stays whole when replicas take keys that agree with them all.
LEMMA AllWholeStays ==
    ASSUME StateType, AllWhole(vault), NEW b \in Rings, NEW v,
           \A q \in Replica : Agrees(b, vault[q]),
           \A q \in Replica : v[q] = vault[q] \/ v[q].rings = b
    PROVE  AllWhole(v)
<1> SUFFICES ASSUME NEW r \in Replica, NEW q \in Replica, NEW s \in Scope, Serving(v[r]),
                    Serving(v[q]), HoldsScope(v[r].rings, s), HoldsScope(v[q].rings, s)
             PROVE  v[r].rings[s].active \in v[q].rings[s].held
    BY DEF AllWhole
<1>1. PICK old \in Rings : old = vault[r].rings
      BY DEF StateType, VaultState
<1>2. CASE v[r].rings = b /\ v[q].rings = b
      BY <1>2, RingFacts DEF HoldsScope
<1>3. CASE v[r].rings = b /\ v[q] = vault[q]
      BY <1>3 DEF Agrees
<1>4. CASE v[r] = vault[r] /\ v[q].rings = b
      <2>1. old[s].held \subseteq b[s].held
            BY <1>1, <1>4 DEF Agrees
      <2>2. old[s].active \in old[s].held
            BY <1>1, <1>4, RingFacts DEF HoldsScope
      <2> QED BY <1>1, <1>4, <2>1, <2>2
<1>5. CASE v[r] = vault[r] /\ v[q] = vault[q]
      BY <1>5 DEF AllWhole
<1> QED BY <1>2, <1>3, <1>4, <1>5

\* A bundle that nothing in a fresh reading speaks against agrees with every
\* replica.
LEMMA FreshAgrees ==
    ASSUME StateType, NEW k \in Keeper, FreshReading(k), NEW b \in Rings, b = bundle[k].rings,
           ~Mismatch(b, pass[k].states), ~Unchecked(pass[k].states)
    PROVE  \A q \in Replica : Agrees(b, vault[q])
<1>1. SUFFICES ASSUME NEW q \in Replica, Serving(vault[q]), NEW s \in Scope,
                      HoldsScope(vault[q].rings, s)
               PROVE  vault[q].rings[s].held \subseteq b[s].held /\ b[s].active \in vault[q].rings[s].held
      BY DEF Agrees
<1>2. PICK states : states = pass[k].states
      OBVIOUS
<1>3. CASE Serving(states[q]) /\ states[q].rings = vault[q].rings
      <2>1. q \in Holders(states, s)
            BY <1>1, <1>3 DEF Holders
      <2> QED BY <1>2, <1>3, <2>1 DEF Mismatch
<1>4. CASE vault[q].rings = b
      BY <1>1, <1>4, RingFacts DEF HoldsScope
<1> QED BY <1>1, <1>2, <1>3, <1>4 DEF FreshReading, ServingReplicas

\* A keeper that decides on what the fleet still is leaves a whole fleet whole,
\* however commands, other keepers' passes and late calls overlap its own: a pass
\* re-seeds only where no serving replica it read disagrees with its bundle, so
\* that what splits a fleet is a reading out of date and nothing else.
THEOREM FreshReseedsKeepWhole == Spec => FreshReseedKeepsWhole
<1> DEFINE A == \A k \in Keeper :
                  NoSplit /\ FreshReading(k) /\ pass[k].pc = "push" /\ pass'[k] # pass[k] => NoSplit'
<1>1. ASSUME HandOverType, [Next]_vars
      PROVE  [A]_vars
      <2>1. SUFFICES ASSUME Next, NEW k \in Keeper, NoSplit, FreshReading(k), pass[k].pc = "push",
                            pass'[k] # pass[k]
                     PROVE  NoSplit'
            BY <1>1
      <2>2. StateType
            BY <1>1 DEF HandOverType
      <2>3. CASE vault' = vault
            BY <2>1, <2>3 DEF NoSplit, ServingReplicas, Serving
      <2>4. ASSUME NEW how, KeeperReseeds(k, how)
            PROVE  NoSplit'
            <3>1. PICK a : a = pass[k] /\ PassSound(a)
                  BY <2>2 DEF StateType
            <3>2. PICK b \in Rings : b = bundle[k].rings
                  BY <2>2 DEF StateType, BundleOf
            <3>3. PICK r \in Replica : r = a.next
                  BY <3>1 DEF PassSound
            <3>4. /\ ~Mismatch(b, a.states) /\ ~Unchecked(a.states)
                  /\ \/ vault' = vault
                     \/ vault' = [vault EXCEPT ![r] = UnsealVault(vault[r], bundle[k], "restart-reseed")]
                  BY <2>4, <3>1, <3>2, <3>3 DEF KeeperReseeds, Reseeds
            <3>5. \A q \in Replica : Agrees(b, vault[q])
                  BY <2>1, <2>2, <3>1, <3>2, <3>4, FreshAgrees
            <3>6. PICK v, after : v = vault[r] /\ after = UnsealVault(v, bundle[k], "restart-reseed")
                  OBVIOUS
            <3>7. after = v \/ after.rings = b
                  BY <3>2, <3>6 DEF UnsealVault
            <3>8. PICK vaults : vaults = vault'
                  OBVIOUS
            <3>9. \A q \in Replica : vaults[q] = vault[q] \/ vaults[q].rings = b
                  BY <2>2, <3>4, <3>6, <3>7, <3>8 DEF StateType
            <3>10. AllWhole(vault)
                  BY <2>1 DEF AllWhole, NoSplit, ServingReplicas
            <3>11. AllWhole(vaults)
                  BY <2>2, <3>5, <3>9, <3>10, AllWholeStays
            <3> QED BY <3>8, <3>11 DEF AllWhole, NoSplit, ServingReplicas, Serving, HoldsScope
      <2>5. ~\E p \in Command : CommandStep(p)
            BY <2>1, <2>2, CommandLeaves
      <2>6. ASSUME NEW j \in Keeper, KeeperStep(j)
            PROVE  NoSplit'
            <3>1. CASE \E how \in {"answered", "lost", "late"} : KeeperReseeds(j, how)
                  <4>1. PICK how : KeeperReseeds(j, how)
                        BY <3>1
                  <4>2. j = k
                        BY <2>1, <2>2, <4>1 DEF KeeperReseeds, Decided, StateType
                  <4> QED BY <2>4, <4>1, <4>2
            <3>2. CASE ~\E how \in {"answered", "lost", "late"} : KeeperReseeds(j, how)
                  BY <2>3, <2>6, <3>2 DEF KeeperStep, Enrol, KeeperRead, KeeperLeaves, fleetVars
            <3> QED BY <3>1, <3>2
      <2>7. ASSUME NEW r \in Replica, ReplicaStep(r)
            PROVE  pass' = pass
            BY <2>7 DEF ReplicaStep, Restart, ReleaseReplica, SealReplica, DeliverLate, Event, keeperVars
      <2>8. ~\E m, from \in Machine : ImportKeys(m, from)
            BY <2>1 DEF ImportKeys, keeperVars
      <2> QED BY <2>1, <2>5, <2>6, <2>7, <2>8 DEF Next
<1> QED BY <1>1, HandOverTypeInit, HandOverTypeStep, PTL DEF Spec, FreshReseedKeepsWhole
=============================================================================
