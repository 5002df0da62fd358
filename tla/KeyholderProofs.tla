-------------------------- MODULE KeyholderProofs --------------------------
(***************************************************************************)
(* Proofs about Keyholder, for every set of scopes, keys, sessions,        *)
(* requests and pushes and every value of the bounds.                      *)
(***************************************************************************)
EXTENDS Keyholder, TLAPS, FiniteSetTheorems

-----------------------------------------------------------------------------
(* The vault's operations stay within its type. *)

\* A new process starts with a well-formed vault.
LEMMA NewVaultType == NewVault \in VaultState
  BY DEF NewVault, VaultState, Phase, Rings, NoRings

\* An Unseal, accepted or refused, leaves a well-formed vault.
LEMMA UnsealVaultType ==
  ASSUME NEW v \in VaultState, NEW b \in Bundle, NEW intent \in Intent
  PROVE  UnsealVault(v, b, intent) \in VaultState
<1>1. b.generation \in Nat /\ b.rings \in Rings
  BY BundleAssumption DEF BundleOf
<1> QED
  BY <1>1 DEF UnsealVault, VaultState, Phase

\* Seal leaves a well-formed vault.
LEMMA SealVaultType ==
  ASSUME NEW v \in VaultState, NEW hold \in BOOLEAN
  PROVE  SealVault(v, hold) \in VaultState
  BY DEF SealVault, VaultState, Phase, Rings, NoRings

\* ReleaseHold leaves a well-formed vault.
LEMMA ReleaseVaultType ==
  ASSUME NEW v \in VaultState
  PROVE  ReleaseVault(v) \in VaultState
  BY DEF ReleaseVault, VaultState, Phase

\* A scope that a vault holds is written under a key.
LEMMA ActiveIsKey ==
  ASSUME NEW v \in VaultState, NEW s \in Scope
  PROVE  v.rings[s].active \in Key \union {NoKey}
  BY DEF VaultState, Rings, Ring, NoRing

\* The resting state of a data request is one of its states.
LEMMA IdleType == Idle \in RequestState
<1>1. (CHOOSE s \in Scope : TRUE) \in Scope
  BY ScopeAssumption
<1> QED
  BY <1>1 DEF Idle, RequestState, Identity, Area

\* What a push is made of.
LEMMA PushParts ==
  ASSUME NEW p \in Push
  PROVE  p.from \in Identity /\ p.bundle \in Bundle /\ p.intent \in Intent
  BY BundleAssumption DEF Identity

-----------------------------------------------------------------------------
(* Type correctness *)

\* The first state is well formed.
LEMMA TypeInit == Init => TypeOK
<1> SUFFICES ASSUME Init PROVE TypeOK
  OBVIOUS
<1>1. stored \in [Object -> ObjectState]
  BY DEF Init, ObjectState, Absent, Identity
<1>2. request \in [Request -> RequestState]
  BY IdleType DEF Init
<1> QED
  BY <1>1, <1>2, NewVaultType DEF Init, TypeOK

\* Every step keeps the state well formed.
LEMMA TypeStep == TypeOK /\ [Next]_vars => TypeOK'
<1> SUFFICES ASSUME TypeOK, [Next]_vars PROVE TypeOK'
  OBVIOUS
<1> USE DEF TypeOK
<1>1. ASSUME NEW s \in Session, PassDeadline(s) PROVE TypeOK'
  BY <1>1 DEF PassDeadline, sealVars, memoryVars
<1>2. ASSUME NEW s \in Session, NEW p \in Push, Issue(s, p) PROVE TypeOK'
  <2>1. sent' \subseteq Envelope
    BY <1>2 DEF Issue, Envelope
  <2> QED
    BY <1>2, <2>1 DEF Issue, sealVars, memoryVars
<1>3. ASSUME NEW e \in sent, NEW readable \in BOOLEAN, Open(e, readable) PROVE TypeOK'
  <2>1. e.session \in Session /\ e.push \in Push
    BY DEF Envelope
  <2> DEFINE opensNow == e.session \in outstanding \ late /\ Decrypts(e, readable)
  <2>2. Consume(e, opensNow)
    BY <1>3 DEF Open
  <2>3. outstanding' \subseteq Session /\ late' \subseteq outstanding' /\ spent' \subseteq Session
    BY <2>1, <2>2 DEF Consume
  <2>4. opens' \in [Session -> Nat]
    BY <2>1, <2>2 DEF Consume
  <2>5. buffers' \in Nat /\ buffers' >= buffers /\ opened' \subseteq Opening
    <3>1. CASE opensNow
      <4>1. [push |-> e.push, buf |-> buffers + 1, asked |-> FALSE] \in Opening
        BY <2>1 DEF Opening
      <4>2. /\ buffers' = buffers + 1
            /\ opened' = opened \union
                 {[push |-> e.push, buf |-> buffers + 1, asked |-> FALSE]}
        BY <1>3, <3>1 DEF Open
      <4>3. opened' \subseteq Opening
        BY <4>1, <4>2
      <4>4. buffers' \in Nat /\ buffers' >= buffers
        BY <4>2
      <4> QED
        BY <4>3, <4>4
    <3>2. CASE ~opensNow
      BY <1>3, <3>2 DEF Open
    <3> QED
      BY <3>1, <3>2
  <2> QED
    BY <1>3, <2>3, <2>4, <2>5 DEF Open, sealVars
<1>4. ASSUME NEW h \in opened, Unseal(h) PROVE TypeOK'
  <2>1. h.push \in Push /\ h.buf \in Nat
    BY DEF Opening
  <2>2. vault' \in VaultState
    BY <1>4, <2>1, UnsealVaultType, PushParts DEF Unseal
  <2>3. opened' \subseteq Opening
    BY <1>4 DEF Unseal, Opening
  <2>4. /\ buffers' \in Nat
        /\ vaultBuf' \in 0 .. buffers'
        /\ wiped' \subseteq Nat
        /\ actor' \in Identity \union {"process"}
    BY <1>4, <2>1, PushParts DEF Unseal, InstalledBuffer, Dropped
  <2> QED
    BY <1>4, <2>2, <2>3, <2>4 DEF Unseal, challengeVars
<1>5. ASSUME NEW h \in opened, FinishUnseal(h) PROVE TypeOK'
  <2>1. h.buf \in Nat
    BY DEF Opening
  <2> QED
    BY <1>5, <2>1 DEF FinishUnseal, sealVars, challengeVars
<1>6. ASSUME NEW id \in Identity, NEW hold \in BOOLEAN, Seal(id, hold) PROVE TypeOK'
  BY <1>6, SealVaultType DEF Seal, Dropped, challengeVars
<1>7. ASSUME NEW id \in Identity, ReleaseHold(id) PROVE TypeOK'
  BY <1>7, ReleaseVaultType DEF ReleaseHold, challengeVars, memoryVars
<1>8. ASSUME Restart PROVE TypeOK'
  BY <1>8, NewVaultType, IdleType DEF Restart
<1>9. ASSUME NEW r \in Request, NEW id \in Identity, NEW op \in {"write", "delete"},
             NEW o \in Object, NEW declared \in Scope, Admit(r, id, op, o, declared)
      PROVE TypeOK'
  <2>1. o.scope \in Scope /\ o.area \in Area
    BY DEF Object
  <2>2. vault.rings[o.scope].active \in Key \union {NoKey}
    BY <2>1, ActiveIsKey
  <2>3. request' \in [Request -> RequestState]
    BY <1>9, <2>1, <2>2 DEF Admit, RequestState, ScopeCopy
  <2> QED
    BY <1>9, <2>3 DEF Admit, sealVars, challengeVars
<1>10. ASSUME NEW r \in Request, NEW succeeds \in BOOLEAN, Finish(r, succeeds)
       PROVE TypeOK'
  <2>1. request[r] \in RequestState
    OBVIOUS
  <2>2. Absent \in ObjectState
    BY DEF Absent, ObjectState, Identity
  <2>3. [scope |-> request[r].scope, area |-> request[r].area] \in Object
    BY <2>1 DEF RequestState, Object
  <2>4. stored' \in [Object -> ObjectState]
    BY <1>10, <2>1, <2>2, <2>3 DEF Finish, ObjectState, RequestState
  <2>5. request' \in [Request -> RequestState]
    BY <1>10, IdleType DEF Finish
  <2>6. wiped' \subseteq Nat
    BY <1>10, <2>1 DEF Finish, RequestState
  <2> QED
    BY <1>10, <2>4, <2>5, <2>6 DEF Finish, sealVars, challengeVars
<1>11. CASE UNCHANGED vars
  BY <1>11 DEF vars
<1> QED
  BY <1>1, <1>2, <1>3, <1>4, <1>5, <1>6, <1>7, <1>8, <1>9, <1>10, <1>11
     DEF Next, ChallengeStep, SealStep, DataStep

\* Every reachable state of a keyholder is well formed.
THEOREM TypeCorrect == Spec => []TypeOK
  BY TypeInit, TypeStep, PTL DEF Spec

-----------------------------------------------------------------------------
(* A sealed vault *)

\* Whichever bundle was pushed, a vault that is not serving afterwards holds
\* no scope if it did so before.
LEMMA UnsealKeepsSealedEmpty ==
  ASSUME NEW v \in VaultState, ~Serving(v) => v.rings = NoRings,
         NEW b \in Bundle, NEW intent \in Intent
  PROVE  LET w == UnsealVault(v, b, intent) IN ~Serving(w) => w.rings = NoRings
  BY DEF UnsealVault, Serving

\* A keyholder that is sealed - restarted or on hold - has no scope in memory,
\* so resolve cannot hand one to a data request.
THEOREM SealedEmpty == Spec => []SealedHoldsNoScope
<1>1. Init => SealedHoldsNoScope
  BY DEF Init, SealedHoldsNoScope, NewVault
<1>2. TypeOK /\ SealedHoldsNoScope /\ [Next]_vars => SealedHoldsNoScope'
  <2> SUFFICES ASSUME TypeOK, SealedHoldsNoScope, [Next]_vars
               PROVE  SealedHoldsNoScope'
    OBVIOUS
  <2>1. ASSUME NEW h \in opened, Unseal(h) PROVE SealedHoldsNoScope'
    <3>1. h.push \in Push
      BY DEF TypeOK, Opening
    <3>2. h.push.bundle \in Bundle /\ h.push.intent \in Intent
      BY <3>1, PushParts
    <3> QED
      BY <2>1, <3>2, UnsealKeepsSealedEmpty DEF Unseal, SealedHoldsNoScope, TypeOK
  <2>2. ASSUME NEW id \in Identity, NEW hold \in BOOLEAN, Seal(id, hold)
        PROVE  SealedHoldsNoScope'
    BY <2>2 DEF Seal, SealVault, SealedHoldsNoScope
  <2>3. ASSUME NEW id \in Identity, ReleaseHold(id) PROVE SealedHoldsNoScope'
    BY <2>3 DEF ReleaseHold, ReleaseVault, SealedHoldsNoScope, Serving, TypeOK, VaultState
  <2>4. ASSUME Restart PROVE SealedHoldsNoScope'
    BY <2>4 DEF Restart, NewVault, SealedHoldsNoScope
  <2>5. ASSUME UNCHANGED vault PROVE SealedHoldsNoScope'
    BY <2>5 DEF SealedHoldsNoScope
  <2> QED
    BY <2>1, <2>2, <2>3, <2>4, <2>5
       DEF Next, ChallengeStep, SealStep, DataStep, PassDeadline, Issue, Open,
           FinishUnseal, Admit, Finish, sealVars, vars
<1> QED
  BY <1>1, <1>2, TypeCorrect, PTL DEF Spec

-----------------------------------------------------------------------------
(* Who may do what *)

\* What a handler checked before it gave up its lock still holds of what it
\* carries: an opened bundle is pushed by a caller that may claim its intent,
\* and an admitted data request is the scope owner's or a person's.
Admitted ==
    /\ \A h \in opened : MayPush(h.push.from, h.push.intent)
    /\ \A r \in Request : request[r].op # "none" =>
          \/ request[r].by \in {"operator", "device"}
          \/ request[r].by = request[r].scope /\ request[r].area = "data"

\* The checks of the handlers survive every step of the others.
LEMMA AdmittedStep == TypeOK /\ Admitted /\ [Next]_vars => Admitted'
<1> SUFFICES ASSUME TypeOK, Admitted, [Next]_vars PROVE Admitted'
  OBVIOUS
<1> USE DEF Admitted
<1>1. ASSUME NEW e \in sent, NEW readable \in BOOLEAN, Open(e, readable) PROVE Admitted'
  <2>1. \A h \in opened' : h \in opened \/ h.push = e.push
    BY <1>1 DEF Open
  <2>2. request' = request /\ MayPush(e.push.from, e.push.intent)
    BY <1>1 DEF Open
  <2>3. \A h \in opened' : MayPush(h.push.from, h.push.intent)
    BY <2>1, <2>2 DEF MayPush
  <2> QED
    BY <2>2, <2>3 DEF MayPush
<1>2. ASSUME NEW h \in opened, Unseal(h) PROVE Admitted'
  <2>1. [h EXCEPT !.asked = TRUE].push = h.push
    BY DEF TypeOK, Opening
  <2>2. \A g \in opened' : \E k \in opened : g.push = k.push
    BY <1>2, <2>1 DEF Unseal
  <2> QED
    BY <1>2, <2>2 DEF Unseal, MayPush
<1>3. ASSUME NEW h \in opened, FinishUnseal(h) PROVE Admitted'
  BY <1>3 DEF FinishUnseal, MayPush
<1>4. ASSUME Restart PROVE Admitted'
  BY <1>4 DEF Restart, Idle
<1>5. ASSUME NEW r \in Request, NEW id \in Identity, NEW op \in {"write", "delete"},
             NEW o \in Object, NEW declared \in Scope, Admit(r, id, op, o, declared)
      PROVE Admitted'
  <2>1. id \in {"operator", "device"} \/ (id = o.scope /\ o.area = "data")
    BY <1>5 DEF Admit, MayReach, MayMutate, Object, Area
  <2>2. \A q \in Request : request'[q] =
          IF q = r THEN [op |-> op, by |-> id, scope |-> o.scope, area |-> o.area,
                         active |-> vault.rings[o.scope].active, buf |-> ScopeCopy]
                   ELSE request[q]
    BY <1>5 DEF Admit, TypeOK
  <2> QED
    BY <1>5, <2>1, <2>2 DEF Admit, MayPush
<1>6. ASSUME NEW r \in Request, NEW succeeds \in BOOLEAN, Finish(r, succeeds)
      PROVE Admitted'
  BY <1>6 DEF Finish, MayPush, Idle, TypeOK
<1>7. ASSUME UNCHANGED <<opened, request>> PROVE Admitted'
  BY <1>7 DEF MayPush
<1> QED
  BY <1>1, <1>2, <1>3, <1>4, <1>5, <1>6, <1>7
     DEF Next, ChallengeStep, SealStep, DataStep, PassDeadline, Issue, Seal,
         ReleaseHold, vars

\* Admitted holds in every reachable state.
LEMMA AdmittedAlways == Spec => []Admitted
<1>1. Init => Admitted
  <2>1. Idle.op = "none"
    BY DEF Idle
  <2> QED
    BY <2>1 DEF Init, Admitted, MayPush
<1> QED
  BY <1>1, AdmittedStep, TypeCorrect, PTL DEF Spec

\* Nothing in the bucket was written by an application that does not own the
\* scope, and no secret was written by an application at all.
THEOREM OwnersWrite == Spec => []WrittenByOwner
<1>1. Init => WrittenByOwner
  BY DEF Init, WrittenByOwner, Absent
<1>2. TypeOK /\ Admitted /\ WrittenByOwner /\ [Next]_vars => WrittenByOwner'
  <2> SUFFICES ASSUME TypeOK, Admitted, WrittenByOwner, [Next]_vars
               PROVE  WrittenByOwner'
    OBVIOUS
  <2>1. ASSUME NEW r \in Request, NEW succeeds \in BOOLEAN, Finish(r, succeeds)
        PROVE  WrittenByOwner'
    <3> DEFINE q == request[r]
               o == [scope |-> q.scope, area |-> q.area]
               new == IF q.op = "delete" THEN Absent
                      ELSE [present |-> TRUE, key |-> q.active,
                            zeroed |-> q.buf \in wiped, by |-> q.by]
    <3>1. stored' = stored \/ stored' = [stored EXCEPT ![o] = new]
      BY <2>1 DEF Finish
    <3>2. q.op # "none" /\ o.scope = q.scope /\ o.area = q.area
      BY <2>1 DEF Finish
    <3>3. new.present =>
            \/ new.by \in {"operator", "device"}
            \/ new.by = o.scope /\ o.area = "data"
      BY <3>2 DEF Admitted, Absent
    <3>4. ASSUME NEW p \in Object
          PROVE  stored'[p] = stored[p] \/ (p = o /\ stored'[p] = new)
      BY <3>1 DEF TypeOK
    <3> QED
      BY <3>3, <3>4 DEF WrittenByOwner
  <2>2. ASSUME UNCHANGED stored PROVE WrittenByOwner'
    BY <2>2 DEF WrittenByOwner
  <2> QED
    BY <2>1, <2>2
       DEF Next, ChallengeStep, SealStep, DataStep, PassDeadline, Issue, Open, Unseal,
           FinishUnseal, Seal, ReleaseHold, Restart, Admit, vars
<1> QED
  BY <1>1, <1>2, TypeCorrect, AdmittedAlways, PTL DEF Spec

\* A keeper's pushes do nothing but re-seed a replica that restarted.
THEOREM KeeperReseeds == Spec => KeeperOnlyReseeds
<1>1. TypeOK /\ Admitted /\ [Next]_vars =>
        [vault' # vault /\ actor' = "keeper" =>
           vault.phase = "restart-sealed" /\ vault'.phase = "unsealed"]_vars
  <2> SUFFICES ASSUME TypeOK, Admitted, [Next]_vars, vault' # vault, actor' = "keeper"
               PROVE  vault.phase = "restart-sealed" /\ vault'.phase = "unsealed"
    OBVIOUS
  <2>1. ASSUME NEW h \in opened, Unseal(h)
        PROVE  vault.phase = "restart-sealed" /\ vault'.phase = "unsealed"
    <3>1. UnsealVerdict(vault, h.push.bundle, h.push.intent) = "install"
      BY <2>1 DEF Unseal, UnsealVault
    <3>2. h.push.from = "keeper"
      BY <2>1, <3>1 DEF Unseal
    <3>3. h.push.intent = "restart-reseed"
      BY <3>2 DEF Admitted, MayPush
    <3>4. vault.phase \in Phase
      BY DEF TypeOK, VaultState
    <3> QED
      BY <2>1, <3>1, <3>3, <3>4 DEF Unseal, UnsealVault, UnsealVerdict, Serving, Phase
  <2> QED
    BY <2>1, ScopeAssumption
       DEF Next, ChallengeStep, SealStep, DataStep, PassDeadline, Issue, Open,
           FinishUnseal, Seal, ReleaseHold, Restart, Admit, Finish, MaySeal, sealVars, vars
<1> QED
  BY <1>1, TypeCorrect, AdmittedAlways, PTL DEF Spec, KeeperOnlyReseeds

-----------------------------------------------------------------------------
(* Generations *)

\* Whatever is pushed, Unseal never lowers the generation and never changes
\* the scopes it is serving under an unchanged generation.
LEMMA UnsealNoRollback ==
  ASSUME NEW v \in VaultState, NEW b \in Bundle, NEW intent \in Intent
  PROVE  LET w == UnsealVault(v, b, intent) IN
           /\ w.generation >= v.generation
           /\ Serving(v) /\ w.generation = v.generation => w.rings = v.rings
<1>1. b.generation \in Nat /\ v.generation \in Nat
  BY BundleAssumption DEF BundleOf, VaultState
<1>2. CASE UnsealVerdict(v, b, intent) = "install"
  BY <1>1, <1>2 DEF UnsealVault, UnsealVerdict, Serving
<1>3. CASE UnsealVerdict(v, b, intent) # "install"
  BY <1>1, <1>3 DEF UnsealVault
<1> QED
  BY <1>2, <1>3

\* Within one process no push, seal or release takes the keys back to an
\* earlier generation.
THEOREM GenerationsGrow == Spec => NoRollback
<1>1. TypeOK /\ [Next]_vars =>
        [boot' = boot =>
          /\ vault'.generation >= vault.generation
          /\ Serving(vault) /\ Serving(vault)' /\ vault'.generation = vault.generation
               => vault'.rings = vault.rings]_vars
  <2> SUFFICES ASSUME TypeOK, [Next]_vars, boot' = boot
               PROVE  /\ vault'.generation >= vault.generation
                      /\ Serving(vault) /\ Serving(vault)'
                         /\ vault'.generation = vault.generation
                           => vault'.rings = vault.rings
    OBVIOUS
  <2>0. vault.generation \in Nat /\ boot \in Nat
    BY DEF TypeOK, VaultState
  <2>1. ASSUME NEW h \in opened, Unseal(h)
        PROVE  /\ vault'.generation >= vault.generation
               /\ Serving(vault) /\ vault'.generation = vault.generation
                    => vault'.rings = vault.rings
    <3>1. h.push \in Push
      BY DEF TypeOK, Opening
    <3>2. h.push.bundle \in Bundle /\ h.push.intent \in Intent
      BY <3>1, PushParts
    <3> QED
      BY <2>1, <3>2, UnsealNoRollback DEF Unseal, TypeOK
  <2>2. ASSUME NEW id \in Identity, NEW hold \in BOOLEAN, Seal(id, hold)
        PROVE  vault'.generation = vault.generation /\ ~Serving(vault)'
    BY <2>2 DEF Seal, SealVault, Serving
  <2>3. ASSUME NEW id \in Identity, ReleaseHold(id)
        PROVE  vault'.generation = vault.generation /\ ~Serving(vault)
    BY <2>3 DEF ReleaseHold, ReleaseVault, Serving, TypeOK, VaultState
  <2>4. ~Restart
    BY <2>0 DEF Restart
  <2>5. \/ \E h \in opened : Unseal(h)
        \/ \E id \in Identity, hold \in BOOLEAN : Seal(id, hold)
        \/ \E id \in Identity : ReleaseHold(id)
        \/ vault' = vault
    BY <2>4
       DEF Next, ChallengeStep, SealStep, DataStep, PassDeadline, Issue, Open,
           FinishUnseal, Admit, Finish, sealVars, vars
  <2>6. CASE \E h \in opened : Unseal(h)
    BY <2>1, <2>6
  <2>7. CASE \E id \in Identity, hold \in BOOLEAN : Seal(id, hold)
    BY <2>0, <2>2, <2>7
  <2>8. CASE \E id \in Identity : ReleaseHold(id)
    BY <2>0, <2>3, <2>8
  <2>9. CASE vault' = vault
    BY <2>0, <2>9
  <2> QED
    BY <2>5, <2>6, <2>7, <2>8, <2>9
<1> QED
  BY <1>1, TypeCorrect, PTL DEF Spec, NoRollback

-----------------------------------------------------------------------------
(* Challenges *)

\* A session an envelope was presented for is not outstanding any more.
SpentClosed == spent \intersect outstanding = {}

\* A challenge that was answered stays closed: Issue draws a fresh session id
\* and Open drops the one it was given.
LEMMA SpentStep == TypeOK /\ SpentClosed /\ [Next]_vars => SpentClosed'
<1> SUFFICES ASSUME TypeOK, SpentClosed, [Next]_vars PROVE SpentClosed'
  OBVIOUS
<1> USE DEF SpentClosed
<1>1. ASSUME NEW s \in Session, NEW p \in Push, Issue(s, p) PROVE SpentClosed'
  BY <1>1 DEF Issue
<1>2. ASSUME NEW e \in sent, NEW readable \in BOOLEAN, Open(e, readable)
      PROVE SpentClosed'
  BY <1>2 DEF Open, Consume
<1>3. ASSUME Restart PROVE SpentClosed'
  BY <1>3 DEF Restart
<1>4. ASSUME UNCHANGED <<spent, outstanding>> PROVE SpentClosed'
  BY <1>4
<1> QED
  BY <1>1, <1>2, <1>3, <1>4
     DEF Next, ChallengeStep, SealStep, DataStep, PassDeadline, Unseal, FinishUnseal,
         Seal, ReleaseHold, Admit, Finish, challengeVars, vars

\* Once an envelope was presented for a challenge, none ever opens for it
\* again, whether that attempt succeeded or failed.
THEOREM ChallengeIsSingleAttempt == Spec => SingleAttempt
<1>1. Init => SpentClosed
  BY DEF Init, SpentClosed
<1>2. TypeOK /\ SpentClosed /\ [Next]_vars => [\A s \in spent : opens'[s] = opens[s]]_vars
  <2> SUFFICES ASSUME TypeOK, SpentClosed, [Next]_vars, NEW s \in spent
               PROVE  opens'[s] = opens[s]
    OBVIOUS
  <2>1. ASSUME NEW e \in sent, NEW readable \in BOOLEAN, Open(e, readable)
        PROVE  opens'[s] = opens[s]
    BY <2>1 DEF Open, Consume, SpentClosed, TypeOK
  <2>2. ASSUME UNCHANGED opens PROVE opens'[s] = opens[s]
    BY <2>2
  <2> QED
    BY <2>1, <2>2
       DEF Next, ChallengeStep, SealStep, DataStep, PassDeadline, Issue, Unseal,
           FinishUnseal, Seal, ReleaseHold, Restart, Admit, Finish, challengeVars, vars
<1> QED
  BY <1>1, <1>2, SpentStep, TypeCorrect, PTL DEF Spec, SingleAttempt

\* The table of outstanding challenges never exceeds maxOutstanding, however
\* Issue, Open, deadlines and restarts interleave.
THEOREM TableBounded == Spec => []ChallengesBounded
<1> DEFINE Bounded == IsFiniteSet(outstanding) /\ ChallengesBounded
<1>1. Init => Bounded
  BY FS_EmptySet, BoundAssumption DEF Init, ChallengesBounded
<1>2. TypeOK /\ Bounded /\ [Next]_vars => Bounded'
  <2> SUFFICES ASSUME TypeOK, Bounded, [Next]_vars PROVE Bounded'
    OBVIOUS
  <2>1. ASSUME NEW T, T \subseteq outstanding
        PROVE  /\ IsFiniteSet(T) /\ Cardinality(T) \in Nat
               /\ Cardinality(T) <= MaxOutstanding
    <3>1. IsFiniteSet(T) /\ Cardinality(T) <= Cardinality(outstanding)
      BY <2>1, FS_Subset
    <3>2. Cardinality(T) \in Nat /\ Cardinality(outstanding) \in Nat
      BY <3>1, FS_CardinalityType
    <3> QED
      BY <3>1, <3>2, BoundAssumption DEF ChallengesBounded
  <2>2. ASSUME NEW s \in Session, NEW p \in Push, Issue(s, p) PROVE Bounded'
    <3> DEFINE live == outstanding \ late
    <3>1. IsFiniteSet(live) /\ Cardinality(live) \in Nat
      BY <2>1
    <3>2. s \notin live /\ Cardinality(live) < MaxOutstanding
          /\ outstanding' = live \union {s}
      BY <2>2 DEF Issue, HasRoom
    <3>3. /\ IsFiniteSet(live \union {s})
          /\ Cardinality(live \union {s}) = Cardinality(live) + 1
      BY <3>1, <3>2, FS_AddElement
    <3> QED
      BY <3>1, <3>2, <3>3, BoundAssumption DEF ChallengesBounded
  <2>3. ASSUME outstanding' \subseteq outstanding PROVE Bounded'
    BY <2>1, <2>3 DEF ChallengesBounded
  <2> QED
    BY <2>2, <2>3
       DEF Next, ChallengeStep, SealStep, DataStep, PassDeadline, Open, Consume, Unseal,
           FinishUnseal, Seal, ReleaseHold, Restart, Admit, Finish, challengeVars, vars
<1> QED
  BY <1>1, <1>2, TypeCorrect, PTL DEF Spec

-----------------------------------------------------------------------------
(* The ownership of key bytes *)

InUse(r) == request[r].op # "none"

\* KeyBytesOwned element by element.
Owners ==
    /\ vaultBuf = 0 <=> ~Serving(vault)
    /\ wiped \subseteq 1 .. buffers
    /\ vaultBuf \notin wiped
    /\ \A h \in opened : /\ h.buf \in (1 .. buffers) \ wiped
                         /\ h.buf # vaultBuf
    /\ \A r \in Request : InUse(r) => /\ request[r].buf \in (1 .. buffers) \ wiped
                                      /\ request[r].buf # vaultBuf
    /\ \A h \in opened, r \in Request : InUse(r) => h.buf # request[r].buf
    /\ \A h, g \in opened : h.buf = g.buf => h = g
    /\ \A r, q \in Request : InUse(r) /\ InUse(q) /\ request[r].buf = request[q].buf => r = q
    /\ \A b \in (1 .. buffers) \ wiped :
          \/ b = vaultBuf
          \/ \E h \in opened : h.buf = b
          \/ \E r \in Request : InUse(r) /\ request[r].buf = b

\* The two forms say the same of a well-formed state.
LEMMA OwnersImplies == TypeOK /\ Owners => KeyBytesOwned
<1> SUFFICES ASSUME TypeOK, Owners PROVE KeyBytesOwned
  OBVIOUS
<1> DEFINE vaultOwns   == IF Serving(vault) THEN {vaultBuf} ELSE {}
           requestOwns == {request[r].buf : r \in ActiveRequests}
<1>1. vaultBuf \in 0 .. buffers /\ buffers \in Nat
  BY DEF TypeOK
<1>2. ASSUME NEW b PROVE b \in vaultOwns <=> b = vaultBuf /\ b # 0
  BY DEF Owners
<1>3. ASSUME NEW b PROVE b \in requestOwns <=> \E r \in Request : InUse(r) /\ request[r].buf = b
  BY DEF ActiveRequests, InUse
<1>4. ASSUME NEW b PROVE b \in HandlerBuffers <=> \E h \in opened : h.buf = b
  BY DEF HandlerBuffers
<1>5. ASSUME NEW b
      PROVE  b \in (1 .. buffers) \ wiped <=> b \in vaultOwns \union HandlerBuffers \union requestOwns
  BY <1>1, <1>2, <1>3, <1>4 DEF Owners
<1>6. vaultOwns \intersect (HandlerBuffers \union requestOwns) = {}
  BY <1>2, <1>3, <1>4 DEF Owners
<1>7. HandlerBuffers \intersect requestOwns = {}
  BY <1>3, <1>4 DEF Owners
<1>8. \A r, q \in ActiveRequests : request[r].buf = request[q].buf => r = q
  BY DEF Owners, ActiveRequests, InUse
<1>9. (1 .. buffers) \ wiped = vaultOwns \union HandlerBuffers \union requestOwns
  BY <1>5
<1> HIDE DEF vaultOwns, requestOwns
<1>10. /\ vaultBuf = 0 <=> ~Serving(vault)
       /\ wiped \subseteq 1 .. buffers
       /\ \A h, g \in opened : h.buf = g.buf => h = g
  BY DEF Owners
<1> QED
  BY <1>6, <1>7, <1>8, <1>9, <1>10 DEF KeyBytesOwned, vaultOwns, requestOwns

\* Every step leaves each buffer with one owner or wiped.
LEMMA OwnersStep == TypeOK /\ Owners /\ [Next]_vars => Owners'
<1> SUFFICES ASSUME TypeOK, Owners, [Next]_vars PROVE Owners'
  OBVIOUS
<1>0. buffers \in Nat /\ vaultBuf \in 0 .. buffers /\ vault \in VaultState
  BY DEF TypeOK
<1>1. ASSUME NEW e \in sent, NEW readable \in BOOLEAN, Open(e, readable) PROVE Owners'
  <2> DEFINE new == [push |-> e.push, buf |-> buffers + 1, asked |-> FALSE]
  <2>1. UNCHANGED <<vault, vaultBuf, wiped, request>>
    BY <1>1 DEF Open, sealVars
  <2>2. \/ buffers' = buffers /\ opened' = opened
        \/ buffers' = buffers + 1 /\ opened' = opened \union {new}
    BY <1>1 DEF Open
  <2>3. new.buf = buffers + 1
    OBVIOUS
  <2> HIDE DEF new
  <2> QED
    BY <1>0, <2>1, <2>2, <2>3 DEF Owners, InUse
<1>2. ASSUME NEW h \in opened, Unseal(h) PROVE Owners'
  <2> DEFINE now == [h EXCEPT !.asked = TRUE]
  <2>1. now.buf = h.buf
    BY DEF TypeOK, Opening
  <2>2. opened' = (opened \ {h}) \union {now} /\ request' = request
    BY <1>2 DEF Unseal
  <2> HIDE DEF now
  <2>3. CASE UnsealVerdict(vault, h.push.bundle, h.push.intent) = "install"
    <3>1. /\ buffers' = buffers + 1
          /\ vaultBuf' = buffers + 1
          /\ wiped' = wiped \union (IF vaultBuf = 0 THEN {} ELSE {vaultBuf})
      BY <1>2, <2>3 DEF Unseal, InstalledBuffer, Dropped
    <3>2. Serving(vault')
      BY <1>2, <2>3 DEF Unseal, UnsealVault, Serving
    <3> QED
      BY <1>0, <2>1, <2>2, <3>1, <3>2 DEF Owners, InUse
  <2>4. CASE UnsealVerdict(vault, h.push.bundle, h.push.intent) # "install"
    <3>1. UNCHANGED <<vault, vaultBuf, buffers, wiped>>
      BY <1>2, <2>4 DEF Unseal, UnsealVault
    <3> QED
      BY <1>0, <2>1, <2>2, <3>1 DEF Owners, InUse
  <2> QED
    BY <2>3, <2>4
<1>3. ASSUME NEW h \in opened, FinishUnseal(h) PROVE Owners'
  BY ZenonT(40), <1>0, <1>3 DEF FinishUnseal, sealVars, Owners, InUse
<1>4. ASSUME NEW id \in Identity, NEW hold \in BOOLEAN, Seal(id, hold) PROVE Owners'
  <2>1. ~Serving(vault')
    BY <1>4 DEF Seal, SealVault, Serving
  <2>2. /\ vaultBuf' = 0
        /\ wiped' = wiped \union (IF vaultBuf = 0 THEN {} ELSE {vaultBuf})
        /\ UNCHANGED <<buffers, opened, request>>
    BY <1>4 DEF Seal, Dropped
  <2> QED
    BY <1>0, <2>1, <2>2 DEF Owners, InUse
<1>5. ASSUME NEW id \in Identity, ReleaseHold(id) PROVE Owners'
  <2>1. ~Serving(vault) /\ ~Serving(vault')
    BY <1>0, <1>5 DEF ReleaseHold, ReleaseVault, Serving, VaultState
  <2>2. UNCHANGED <<vaultBuf, opened, request, buffers, wiped>>
    BY <1>5 DEF ReleaseHold, memoryVars
  <2> QED
    BY <2>1, <2>2 DEF Owners, InUse
<1>6. ASSUME Restart PROVE Owners'
  <2>1. /\ ~Serving(vault') /\ vaultBuf' = 0 /\ opened' = {}
        /\ wiped' = 1 .. buffers /\ buffers' = buffers
    BY <1>6 DEF Restart, NewVault, Serving
  <2>2. \A r \in Request : request'[r].op = "none"
    BY <1>6 DEF Restart, Idle
  <2> QED
    BY <1>0, <2>1, <2>2 DEF Owners, InUse
<1>7. ASSUME NEW r \in Request, NEW id \in Identity, NEW op \in {"write", "delete"},
             NEW o \in Object, NEW declared \in Scope, Admit(r, id, op, o, declared)
      PROVE Owners'
  <2> DEFINE new == [op |-> op, by |-> id, scope |-> o.scope, area |-> o.area,
                     active |-> vault.rings[o.scope].active, buf |-> buffers + 1]
  <2>1. /\ UNCHANGED <<vault, vaultBuf, wiped, opened>>
        /\ buffers' = buffers + 1
        /\ request[r].op = "none"
    BY <1>7 DEF Admit, sealVars
  <2>2. \A q \in Request : request'[q] = IF q = r THEN new ELSE request[q]
    BY <1>7 DEF Admit, TypeOK, ScopeCopy
  <2>3. new.buf = buffers + 1 /\ new.op # "none"
    OBVIOUS
  <2> HIDE DEF new
  <2> QED
    BY <1>0, <2>1, <2>2, <2>3 DEF Owners, InUse
<1>8. ASSUME NEW r \in Request, NEW succeeds \in BOOLEAN, Finish(r, succeeds) PROVE Owners'
  <2>1. /\ UNCHANGED <<vault, vaultBuf, buffers, opened>>
        /\ wiped' = wiped \union {request[r].buf}
        /\ InUse(r)
    BY <1>8 DEF Finish, sealVars, InUse
  <2>2. \A q \in Request : /\ q = r => request'[q].op = "none"
                           /\ q # r => request'[q] = request[q]
    BY <1>8 DEF Finish, TypeOK, Idle
  <2>3. /\ request[r].buf \in (1 .. buffers) \ wiped
        /\ request[r].buf # vaultBuf
        /\ \A h \in opened : h.buf # request[r].buf
        /\ \A q \in Request : InUse(q) /\ q # r => request[q].buf # request[r].buf
    BY <2>1 DEF Owners
  <2>4. \A q \in Request : InUse(q)' <=> InUse(q) /\ q # r
    BY <2>2 DEF InUse
  <2>5. \A b \in (1 .. buffers) \ wiped' :
          \/ b = vaultBuf
          \/ \E h \in opened : h.buf = b
          \/ \E q \in Request : InUse(q)' /\ request'[q].buf = b
    BY <2>1, <2>2, <2>4 DEF Owners
  <2>6. \A q \in Request : InUse(q)' => /\ request'[q].buf \in (1 .. buffers) \ wiped'
                                        /\ request'[q].buf # vaultBuf
                                        /\ request'[q].buf = request[q].buf
    BY <2>1, <2>2, <2>3, <2>4 DEF Owners
  <2>7. /\ vaultBuf = 0 <=> ~Serving(vault)
        /\ wiped' \subseteq 1 .. buffers
        /\ vaultBuf \notin wiped'
        /\ \A h \in opened : h.buf \in (1 .. buffers) \ wiped' /\ h.buf # vaultBuf
        /\ \A h, g \in opened : h.buf = g.buf => h = g
    BY <2>1, <2>3 DEF Owners
  <2>8. \A h \in opened, q \in Request : InUse(q)' => h.buf # request'[q].buf
    BY <2>4, <2>6 DEF Owners
  <2>9. \A p, q \in Request :
          InUse(p)' /\ InUse(q)' /\ request'[p].buf = request'[q].buf => p = q
    BY <2>4, <2>6 DEF Owners
  <2> QED
    BY <2>1, <2>5, <2>6, <2>7, <2>8, <2>9 DEF Owners
<1>9. ASSUME UNCHANGED <<vault, vaultBuf, buffers, wiped, opened, request>> PROVE Owners'
  BY <1>9 DEF Owners, InUse
<1> QED
  BY <1>1, <1>2, <1>3, <1>4, <1>5, <1>6, <1>7, <1>8, <1>9
     DEF Next, ChallengeStep, SealStep, DataStep, PassDeadline, Issue, sealVars,
         memoryVars, vars

\* Owners holds in every reachable state.
LEMMA OwnersAlways == Spec => []Owners
<1>1. Init => Owners
  <2>1. Idle.op = "none"
    BY DEF Idle
  <2> QED
    BY <2>1 DEF Init, Owners, InUse, NewVault, Serving
<1> QED
  BY <1>1, OwnersStep, TypeCorrect, PTL DEF Spec

\* Every buffer of key bytes has one owner or is zeroed, in every
\* interleaving of unseals, hand-overs, seals, data requests and restarts.
THEOREM BytesOwned == Spec => []KeyBytesOwned
  BY OwnersAlways, OwnersImplies, TypeCorrect, PTL

\* No object is ever wrapped under a zeroed key.
THEOREM NothingWrittenUnderZeros == Spec => []NoZeroedWrite
<1>1. Init => NoZeroedWrite
  BY DEF Init, NoZeroedWrite, Absent
<1>2. TypeOK /\ Owners /\ NoZeroedWrite /\ [Next]_vars => NoZeroedWrite'
  <2> SUFFICES ASSUME TypeOK, Owners, NoZeroedWrite, [Next]_vars PROVE NoZeroedWrite'
    OBVIOUS
  <2>1. ASSUME NEW r \in Request, NEW succeeds \in BOOLEAN, Finish(r, succeeds)
        PROVE  NoZeroedWrite'
    <3> DEFINE q == request[r]
               o == [scope |-> q.scope, area |-> q.area]
               new == IF q.op = "delete" THEN Absent
                      ELSE [present |-> TRUE, key |-> q.active,
                            zeroed |-> q.buf \in wiped, by |-> q.by]
    <3>1. stored' = stored \/ stored' = [stored EXCEPT ![o] = new]
      BY <2>1 DEF Finish
    <3>2. q.buf \notin wiped
      BY <2>1 DEF Finish, Owners, InUse
    <3>3. ~new.zeroed
      BY <3>2 DEF Absent
    <3>4. ASSUME NEW p \in Object
          PROVE  stored'[p] = stored[p] \/ stored'[p] = new
      BY <3>1 DEF TypeOK
    <3> HIDE DEF new
    <3> QED
      BY <3>3, <3>4 DEF NoZeroedWrite
  <2>2. ASSUME UNCHANGED stored PROVE NoZeroedWrite'
    BY <2>2 DEF NoZeroedWrite
  <2> QED
    BY <2>1, <2>2
       DEF Next, ChallengeStep, SealStep, DataStep, PassDeadline, Issue, Open, Unseal,
           FinishUnseal, Seal, ReleaseHold, Restart, Admit, vars
<1> QED
  BY <1>1, <1>2, TypeCorrect, OwnersAlways, PTL DEF Spec
=============================================================================
