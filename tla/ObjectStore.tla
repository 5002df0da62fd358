---------------------------- MODULE ObjectStore ----------------------------
(***************************************************************************)
(* An instance's encrypted storage (datasphere/store.go, rekey.go) as the  *)
(* operator's commands (storage cp, rm and ls, storage key rekey) and the  *)
(* applications, through the keyholder's replicas, use it.                 *)
(*                                                                         *)
(* The instance's own key space and one application's scope.  A logical    *)
(* key under the application's prefix has a stored name in each, computed  *)
(* with that space's name key.  A command reads keys.yaml once, when it    *)
(* opens its session.  Uploads are atomic here (Upload has the protocol)   *)
(* and a rotation is the steps HandOver has in detail.  Left out: sizes,   *)
(* timestamps, secrets, and a keyholder that is not deployed.              *)
(***************************************************************************)
EXTENDS Blob, FiniteSets

CONSTANTS Key,           \* logical keys
          AppKey,        \* those under the application's prefix
          Replica,       \* the keyholder's replicas
          Absent,        \* no object, no file
          MaxWrites,     \* bound: objects written
          MaxRotations,  \* bound: rotations of the keys
          MaxCuts        \* bound: objects a sweep's source breaks off for

ASSUME StoreAssumption ==
    /\ AppKey \subseteq Key
    /\ MaxWrites \in Nat /\ MaxRotations \in Nat /\ MaxCuts \in Nat

VARIABLES bucket,    \* what is stored in each place
          ring,      \* keys.yaml
          replica,   \* the application's keys in each replica, NoRing if sealed
          bundle,    \* the application's keys in a keeper's bundle
          sweep,     \* the rekey command
          copy,      \* the upload under way
          local,     \* the file a download goes to
          written,   \* objects written so far; each has its own data key
          stray,     \* history: places others wrote to once the sweep was
                     \*   through with them, under keys it could not foresee
          steady,    \* history: replicas that have served since the sweep began,
                     \*   if it touches the application, or asked them
          cut        \* history: data keys of the objects a sweep put back from a
                     \*   source that broke off

keyVars == <<ring, replica, bundle>>
vars == <<bucket, keyVars, sweep, copy, local, written, stray, steady, cut>>

Space == {"master", "app"}

\* A place is a stored name: the space whose name key computed it, and the key.
Place == {p \in Space \X Key : p[1] = "app" => p[2] \in AppKey}

NoRing == [active |-> 0, held |-> {}]

\* The key-encryption keys of a ring are numbered by age.
Ring == [active : Nat, held : SUBSET Nat]

Idle == [pc |-> "idle"]

\* The n-th object's content, n units long.
Content(n) == [i \in 1 .. n |-> <<n, i>>]

Present == {p \in Place : bucket[p] # Absent}

HasScope(rings) == rings["app"].held # {}

Init ==
    /\ bucket = [p \in Place |-> Absent]
    /\ ring = [s \in Space |-> IF s = "master" THEN [active |-> 1, held |-> {1}] ELSE NoRing]
    /\ replica = [r \in Replica |-> NoRing]
    /\ bundle = NoRing
    /\ sweep = Idle /\ copy = Idle
    /\ local = Absent
    /\ written = 0
    /\ stray = {} /\ steady = {} /\ cut = {}

-----------------------------------------------------------------------------
(* Which key space has a key *)

\* StoreFor: the scope that owns the key, if this keyring has it.
StoreFor(rings, key) == IF key \in AppKey /\ HasScope(rings) THEN "app" ELSE "master"

PlaceFor(rings, key) == <<StoreFor(rings, key), key>>

Prefix == {"", "app/", "own/"}

Under(prefix) == CASE prefix = "" -> Key
                   [] prefix = "app/" -> AppKey
                   [] prefix = "own/" -> Key \ AppKey

KeySpaces(rings) == {s \in Space : rings[s].held # {}}

\* spaceCanHold: the scope's space unless the request diverges from it, the
\* instance's own unless the request lies inside the scope.
SpaceCanHold(rings, s, prefix) ==
    IF s = "app" THEN prefix # "own/" ELSE ~(prefix = "app/" /\ HasScope(rings))

\* ListEntries through one space: the objects whose sealed name opens.
ListEntries(s, prefix) ==
    {p \in Present : bucket[p].name.space = s /\ p[2] \in Under(prefix)}

\* The objects it lists and cannot name: a prefix with a separator narrows the
\* listing to names this space computes, the root lists the whole bucket.
Unnamed(s, prefix) == IF prefix = "" THEN Present \ ListEntries(s, prefix) ELSE {}

\* Mutant: a request inside the scope is the scope's alone.
ListForRekey_Scoped(rings, prefix, missed) ==
    UNION {ListEntries(s, prefix) : s \in {s \in KeySpaces(rings) : SpaceCanHold(rings, s, prefix)}} \ missed

\* listForRekey: the instance's own space is listed whatever the prefix.  A
\* space whose listing fails, or an object whose name cannot be read, is missed.
ListForRekey(rings, prefix, missed) ==
    UNION {ListEntries(s, prefix) :
             s \in {s \in KeySpaces(rings) : s = "master" \/ SpaceCanHold(rings, s, prefix)}} \ missed

\* expandPrefixes goes through one space and fails on any object it cannot name.
Expandable(rings, prefix) == Unnamed(IF prefix = "app/" /\ HasScope(rings) THEN "app" ELSE "master", prefix) = {}

Expanded(rings, prefix) == ListEntries(IF prefix = "app/" /\ HasScope(rings) THEN "app" ELSE "master", prefix)

-----------------------------------------------------------------------------
(* Applications, through a replica *)

Sweeping == sweep.pc # "idle"

\* A write by someone else to a place a sweep is through with: whether the sweep
\* could not have foreseen the key it is under.
Strays(p, unforeseen) ==
    stray' = IF Sweeping /\ p \in sweep.aim \ sweep.todo /\ unforeseen THEN stray \union {p} ELSE stray

Store(p, kek) ==
    /\ written < MaxWrites
    /\ written' = written + 1
    /\ bucket' = [bucket EXCEPT ![p] = Seal(<<p[1], kek>>, written + 1, p[1], p[2], Content(written + 1))]

\* Write: an upsert, under the replica's active key.
AppWrite(r, key) ==
    LET p == <<"app", key>> IN
    /\ replica[r] # NoRing /\ key \in AppKey
    /\ Store(p, replica[r].active)
    /\ Strays(p, r \notin steady)
    /\ UNCHANGED <<keyVars, sweep, copy, local, steady, cut>>

AppDelete(r, key) ==
    /\ replica[r] # NoRing /\ key \in AppKey /\ bucket[<<"app", key>>] # Absent
    /\ bucket' = [bucket EXCEPT ![<<"app", key>>] = Absent]
    /\ UNCHANGED <<keyVars, sweep, copy, local, written, stray, steady, cut>>

-----------------------------------------------------------------------------
(* Keys and replicas *)

KeyStep == UNCHANGED <<bucket, sweep, copy, local, written, stray, cut>>

\* farcast run mints the application's scope and hands it to the replicas.
MintScope ==
    /\ ~HasScope(ring)
    /\ ring' = [ring EXCEPT !["app"] = [active |-> 1, held |-> {1}]]
    /\ replica' = [r \in Replica |-> ring'["app"]]
    /\ bundle' = ring'["app"]
    /\ UNCHANGED steady /\ KeyStep

\* rotate saves its new keys: the instance's own in use at once, the
\* application's held, and then on every replica before it is used anywhere.
RotateHold ==
    LET n == ring["master"].active + 1 IN
    /\ n <= 1 + MaxRotations
    /\ ring' = [s \in Space |->
                  IF s = "master" THEN [active |-> n, held |-> ring[s].held \union {n}]
                  ELSE IF HasScope(ring) THEN [ring[s] EXCEPT !.held = @ \union {n}] ELSE ring[s]]
    /\ UNCHANGED <<replica, bundle, steady>> /\ KeyStep

Newest(rg) == CHOOSE n \in rg.held : \A m \in rg.held : m <= n

UnfinishedRotation(rg) == rg.held # {} /\ Newest(rg) # rg.active

RotatePush ==
    /\ UnfinishedRotation(ring["app"])
    /\ \A r \in Replica : replica[r] # NoRing
    /\ replica' = [r \in Replica |-> [replica[r] EXCEPT !.held = @ \union ring["app"].held]]
    /\ UNCHANGED <<ring, bundle, steady>> /\ KeyStep

RotateActivate ==
    /\ UnfinishedRotation(ring["app"])
    /\ \A r \in Replica : Newest(ring["app"]) \in replica[r].held
    /\ ring' = [ring EXCEPT !["app"].active = Newest(ring["app"])]
    /\ UNCHANGED <<replica, bundle, steady>> /\ KeyStep

\* A hand-over or an unseal brings a replica to this machine's keys.
HandOver(r) ==
    /\ HasScope(ring) /\ replica[r] # ring["app"]
    /\ replica[r].held \subseteq ring["app"].held
    /\ replica' = [replica EXCEPT ![r] = ring["app"]]
    /\ UNCHANGED <<ring, bundle, steady>> /\ KeyStep

Restart(r) ==
    /\ replica[r] # NoRing
    /\ replica' = [replica EXCEPT ![r] = NoRing]
    /\ steady' = steady \ {r}
    /\ UNCHANGED <<ring, bundle>> /\ KeyStep

\* A keeper re-seeds a replica unless another one serves keys its bundle lacks.
Reseed(r) ==
    /\ replica[r] = NoRing /\ bundle # NoRing
    /\ \A q \in Replica : replica[q].held \subseteq bundle.held
    /\ replica' = [replica EXCEPT ![r] = bundle]
    /\ UNCHANGED <<ring, bundle, steady>> /\ KeyStep

-----------------------------------------------------------------------------
(* storage cp and storage rm *)

\* An upload opens its session, looks whether the object exists, and stops
\* there unless it may replace it.
UploadBegin(key, force) ==
    /\ copy.pc = "idle" /\ written < MaxWrites
    /\ force \/ bucket[PlaceFor(ring, key)] = Absent
    /\ copy' = [pc |-> "upload", key |-> key, rings |-> ring]
    /\ UNCHANGED <<bucket, keyVars, sweep, local, written, stray, steady, cut>>

\* WriteStream, some time after, under the keys the session was opened with.
UploadWrite ==
    /\ copy.pc = "upload"
    /\ LET p == PlaceFor(copy.rings, copy.key)
           kek == copy.rings[p[1]].active IN
         Store(p, kek) /\ Strays(p, TRUE)
    /\ copy' = Idle
    /\ UNCHANGED <<keyVars, sweep, local, steady, cut>>

\* rm deletes the key in the space that owns it, there or not.
Rm(key) ==
    /\ bucket' = [bucket EXCEPT ![PlaceFor(ring, key)] = Absent]
    /\ UNCHANGED <<keyVars, sweep, copy, local, written, stray, steady, cut>>

\* rm --recursive lists a prefix first.
RmPrefix(prefix) ==
    /\ Expandable(ring, prefix)
    /\ bucket' = [p \in Place |->
         IF \E q \in Expanded(ring, prefix) : p = PlaceFor(ring, q[2]) THEN Absent ELSE bucket[p]]
    /\ UNCHANGED <<keyVars, sweep, copy, local, written, stray, steady, cut>>

\* What a download may read of an object: all of it or, when its connection
\* is cut, the frames before some point and perhaps a part of the next.
CutOff(blob) ==
    {[blob EXCEPT !.body = SubSeq(@, 1, n)] : n \in 0 .. Len(blob.body) - 1}
    \union {[blob EXCEPT !.body = Append(SubSeq(@, 1, n), Torn(@[n + 1]))] :
              n \in 0 .. Len(blob.body) - 1}

\* Mutant: frames go to the destination as they are read.
DownloadTo_Unstaged(key, blob) == Plaintext(blob, OpenedFrames(blob, key))

\* downloadTo stages the frames as they are read, renames what it staged once
\* the last one authenticated, and removes it otherwise.
DownloadTo(key, blob) ==
    IF Complete(blob, key) THEN Plaintext(blob, OpenedFrames(blob, key)) ELSE local

\* A download reads one version of the object, which no other step changes.
Download(key) ==
    LET p == PlaceFor(ring, key) IN
    /\ bucket[p] # Absent /\ Unwraps({<<p[1], n>> : n \in ring[p[1]].held}, bucket[p])
    /\ local' \in {DownloadTo(key, blob) : blob \in {bucket[p]} \union CutOff(bucket[p])}
    /\ UNCHANGED <<bucket, keyVars, sweep, copy, written, stray, steady, cut>>

-----------------------------------------------------------------------------
(* storage key rekey *)

\* The keyholder holds no key of the instance's own key space.
Touched(places) == \E p \in places : p[1] = "app"

\* The command lists first, warns of what it missed and goes on without it;
\* only one that missed nothing claims to retire what it was asked for.
RekeyList(prefix, missed) ==
    /\ sweep.pc = "idle" /\ missed \subseteq ListForRekey(ring, prefix, {})
    /\ sweep' = [pc |-> "next", rings |-> ring, todo |-> ListForRekey(ring, prefix, missed),
                 aim |-> IF missed = {} THEN {p \in Present : p[2] \in Under(prefix)} ELSE {},
                 asked |-> {}, reading |-> Absent]
    /\ steady' = {r \in Replica : Touched(sweep'.todo) /\ replica[r] # NoRing}
    /\ UNCHANGED <<bucket, keyVars, copy, local, written, stray, cut>>

\* Mutant: a replica's keys are not compared.
ReplicaAgrees_Any(rings, r) == TRUE

\* A replica serves, holds this machine's keys and uses the same one.
ReplicaAgrees(rings, r) == replica[r] = rings["app"]

\* gate asks one replica after the other, of an application's objects only.
RekeyAsk(r) ==
    /\ sweep.pc = "next" /\ Touched(sweep.todo) /\ r \notin sweep.asked
    /\ ReplicaAgrees(sweep.rings, r)
    /\ sweep' = [sweep EXCEPT !.asked = @ \union {r}]
    /\ steady' = steady \union {r}
    /\ UNCHANGED <<bucket, keyVars, copy, local, written, stray, cut>>

\* Nothing is moved while an application's object would go to a key that is
\* not the newest here, or before every replica agreed.
GateOpen ==
    Touched(sweep.todo) => ~UnfinishedRotation(sweep.rings["app"]) /\ sweep.asked = Replica

\* Mutant: the data key is rewrapped under the instance's own key.
RekeyKey_Master(p) == <<"master", sweep.rings["master"].active>>

\* The active key of the space that named the object.
RekeyKey(p) == <<p[1], sweep.rings[p[1]].active>>

\* Rekey reads the object and leaves one that is already under the active key.
RekeyRead(p) ==
    /\ sweep.pc = "next" /\ p \in sweep.todo /\ GateOpen
    /\ bucket[p] # Absent
    /\ Unwraps({<<p[1], n>> : n \in sweep.rings[p[1]].held}, bucket[p])
    /\ sweep' = IF bucket[p].kek = RekeyKey(p)
                  THEN [sweep EXCEPT !.todo = @ \ {p}]
                  ELSE [sweep EXCEPT !.pc = "put", !.reading = [at |-> p, blob |-> bucket[p]]]
    /\ UNCHANGED <<bucket, keyVars, copy, local, written, stray, steady, cut>>

\* It writes back what it reads of the object, whatever is there by now: all of
\* it or, when the download breaks off and the upload takes that for the end
\* (Upload, MCUploadRekey), a first part.
RekeyPut ==
    /\ sweep.pc = "put"
    /\ LET p == sweep.reading.at
           blob == sweep.reading.blob IN
         /\ \/ /\ bucket' = [bucket EXCEPT ![p] = Rewrapped(blob, RekeyKey(p))]
               /\ cut' = cut
            \/ /\ blob.dek \in cut \/ Cardinality(cut) < MaxCuts
               /\ \E part \in CutOff(blob) :
                     bucket' = [bucket EXCEPT ![p] = Rewrapped(part, RekeyKey(p))]
               /\ cut' = cut \union {blob.dek}
         /\ sweep' = [sweep EXCEPT !.pc = "next", !.todo = @ \ {p}, !.reading = Absent]
    /\ UNCHANGED <<keyVars, copy, local, written, stray, steady>>

\* Nothing is left: the command reports "rekeyed".
Rekeyed == sweep.pc = "next" /\ sweep.todo = {}

\* A sweep is refused or interrupted, stops at an object it cannot read, or has
\* reported.
RekeyStop ==
    /\ sweep.pc # "idle"
    /\ sweep' = Idle /\ stray' = {} /\ steady' = {}
    /\ UNCHANGED <<bucket, keyVars, copy, local, written, cut>>

-----------------------------------------------------------------------------
AppStep == \E r \in Replica, key \in Key : AppWrite(r, key) \/ AppDelete(r, key)

KeysStep ==
    \/ MintScope \/ RotateHold \/ RotatePush \/ RotateActivate
    \/ \E r \in Replica : HandOver(r) \/ Restart(r) \/ Reseed(r)

CopyStep ==
    \/ \E key \in Key : Download(key) \/ Rm(key) \/ \E force \in BOOLEAN : UploadBegin(key, force)
    \/ \E prefix \in Prefix : RmPrefix(prefix)
    \/ UploadWrite

RekeyStep ==
    \/ \E prefix \in Prefix, missed \in SUBSET Present : RekeyList(prefix, missed)
    \/ \E r \in Replica : RekeyAsk(r)
    \/ \E p \in Place : RekeyRead(p)
    \/ RekeyPut \/ RekeyStop

Next == AppStep \/ KeysStep \/ CopyStep \/ RekeyStep

Spec == Init /\ [][Next]_vars

-----------------------------------------------------------------------------
(* Correctness *)

TypeOK ==
    /\ ring \in [Space -> Ring] /\ replica \in [Replica -> Ring] /\ bundle \in Ring
    /\ written \in 0 .. MaxWrites
    /\ stray \subseteq Place /\ steady \subseteq Replica /\ cut \subseteq 1 .. MaxWrites

\* "Every object stays readable throughout": whatever uploads, applications,
\* rotations and interrupted rekeys did, keys.yaml has the key of every object,
\* in the space that names it, and opens it to its end, unless a sweep put it
\* back from a source that broke off (the case MCUploadRekey is about).
OperatorReadsAll ==
    \A p \in Present :
        /\ bucket[p].name.space = p[1]
        /\ Unwraps({<<p[1], n>> : n \in ring[p[1]].held}, bucket[p])
        /\ bucket[p].dek \notin cut => Complete(bucket[p], p[2])

\* Rekey takes no object from a replica: one that has served since the
\* sweep began, or asked it, holds the key of everything the sweep moves.
RekeyKeepsReadable ==
    [][ \A p \in Place, r \in steady :
          p[1] = "app" /\ sweep.pc = "put" /\ sweep'.pc = "next" /\ bucket'[p] # bucket[p] =>
              bucket'[p].kek[2] \in replica[r].held ]_vars

\* A sweep that reports "rekeyed" and warned of nothing left nothing it was
\* asked for under an older key, however it came to be stored there: by the
\* instance before the application had a scope, by a replica before it
\* was asked, or by one while the sweep ran.
SweepRetires ==
    Rekeyed =>
        \A p \in sweep.aim \ stray :
            bucket[p] # Absent => bucket[p].kek[2] >= sweep.rings[p[1]].active

\* A download leaves at its destination what was there or one whole object,
\* though frames are written out before the last one authenticates.
DownloadsWhole == local = Absent \/ \E n \in 1 .. MaxWrites : local = Content(n)
=============================================================================
