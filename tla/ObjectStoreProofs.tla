------------------------- MODULE ObjectStoreProofs -------------------------
(***************************************************************************)
(* Proofs about ObjectStore: what every interleaving of uploads,           *)
(* applications, rotations and rekeys leaves readable, for every set of    *)
(* keys and replicas, every frame size and any number of rotations.        *)
(***************************************************************************)
EXTENDS ObjectStore, TLAPS, SequenceTheorems

-----------------------------------------------------------------------------
(* The inductive invariant *)

\* The n-th object written, as it is stored at p under the space's k-th key.
Sealed(p, n, k) == Seal(<<p[1], k>>, n, p[1], p[2], Content(n))

\* The first m frames of the n-th object, and those with a part of the next.
FirstFrames(n, key, m) == [i \in 1 .. m |-> Frame(n, key, Content(n), i)]

TornFrames(n, key, m) ==
    [i \in 1 .. m + 1 |-> IF i <= m THEN Frame(n, key, Content(n), i)
                          ELSE Torn(Frame(n, key, Content(n), m + 1))]

\* The n-th object with a body that ends before its last frame does.
Part(p, n, k, blob) ==
    \E m \in 0 .. FrameCount(Content(n)) - 1 :
      \E body \in {FirstFrames(n, p[2], m), TornFrames(n, p[2], m)} :
        blob = [kek |-> <<p[1], k>>, dek |-> n, name |-> [space |-> p[1], key |-> p[2]], body |-> body]

OfWrite(p, n, k, blob) == blob = Sealed(p, n, k) \/ Part(p, n, k, blob)

\* What is stored at p is some write of p, under a key of these rings: whole,
\* unless it is one of those that broke off.
IsSealed(p, blob, rings, cuts) ==
    \E n \in 1 .. MaxWrites, k \in rings[p[1]].held :
        blob = Sealed(p, n, k) \/ (n \in cuts /\ Part(p, n, k, blob))

\* A ring that has keys uses one of them.
Uses(rg) == rg = NoRing \/ rg.active \in rg.held

\* keys.yaml: the instance's own newest key is the newest of all, and in use.
RingsSound ==
    /\ \A s \in Space : Uses(ring[s])
    /\ ring["master"].active >= 1
    /\ \A s \in Space : \A k \in ring[s].held : k <= ring["master"].active
    /\ HasScope(ring) => \E n \in ring["app"].held : \A m \in ring["app"].held : m <= n

\* No replica and no bundle has a key that keys.yaml does not.
ServedSound ==
    /\ \A r \in Replica : Uses(replica[r]) /\ replica[r].held \subseteq ring["app"].held
    /\ Uses(bundle) /\ bundle.held \subseteq ring["app"].held

\* keys.yaml as a command read it: of an earlier time, since keys only come.
Earlier(rings) ==
    /\ rings \in [Space -> Ring]
    /\ \A s \in Space : /\ Uses(rings[s])
                        /\ rings[s].held \subseteq ring[s].held
                        /\ rings[s].active <= ring[s].active
    /\ rings["master"] # NoRing

BucketSound ==
    /\ DOMAIN bucket = Place
    /\ \A p \in Place : bucket[p] # Absent => IsSealed(p, bucket[p], ring, cut)

CopySound ==
    \/ copy = Idle
    \/ /\ copy = [pc |-> "upload", key |-> copy.key, rings |-> copy.rings]
       /\ copy.key \in Key /\ Earlier(copy.rings)

\* The rekey command: the keys it read, what it has left, and what it is about
\* to write back.
SweepSound ==
    \/ sweep = Idle
    \/ /\ sweep = [pc |-> sweep.pc, rings |-> sweep.rings, todo |-> sweep.todo,
                   aim |-> sweep.aim, asked |-> sweep.asked, reading |-> sweep.reading]
       /\ sweep.pc \in {"next", "put"}
       /\ Earlier(sweep.rings)
       /\ sweep.todo \subseteq Place /\ sweep.aim \subseteq Place
       /\ Touched(sweep.todo) => sweep.rings["app"] # NoRing
       /\ Touched(sweep.aim \ sweep.todo) => sweep.asked = Replica
       /\ sweep.pc = "put" =>
            /\ sweep.reading.at \in sweep.todo
            /\ sweep.reading.at[1] = "app" => sweep.asked = Replica
            /\ IsSealed(sweep.reading.at, sweep.reading.blob, sweep.rings, cut)

\* What the gate is sure of: a replica that was asked and has served since holds
\* the key the sweep moves objects to and writes under no older one.
Gated ==
    /\ sweep.pc = "idle" => steady = {}
    /\ \A r \in steady : r \in sweep.asked =>
          /\ sweep.rings["app"].active \in replica[r].held
          /\ sweep.rings["app"].active <= replica[r].active

\* What the sweep is through with is under the key it moves objects to, or newer.
Retired ==
    sweep.pc # "idle" =>
        \A p \in sweep.aim \ (sweep.todo \union stray) :
            bucket[p] # Absent => bucket[p].kek[2] >= sweep.rings[p[1]].active

\* The frames of the n-th object's body, one after the other.
Joined(n) == Plaintext([body |-> SealBody(NoKey, NoKey, Content(n))], FrameCount(Content(n)))

\* A download's destination has all the frames of one object, or what it had.
LocalSound == local = Absent \/ \E n \in 1 .. MaxWrites : local = Joined(n)

StoreInv ==
    /\ TypeOK
    /\ RingsSound /\ ServedSound
    /\ BucketSound /\ CopySound
    /\ SweepSound /\ Gated /\ Retired

-----------------------------------------------------------------------------
(* Frames *)

\* What is left over of a body after its full frames is less than a frame.
LEMMA DivBound ==
    ASSUME NEW L \in Nat, NEW F \in Nat, F > 0
    PROVE  /\ L \div F \in Nat
           /\ (L \div F) * F \in Nat /\ (L \div F) * F <= L /\ L < ((L \div F) * F) + F
<1>1. L \div F \in Nat BY SMTT(20)
<1>2. (L \div F) * F <= L BY SMTT(20)
<1>3. L < ((L \div F) * F) + F BY SMTT(20)
<1>4. (L \div F) * F \in Nat BY <1>1, SMTT(20)
<1> QED BY <1>1, <1>2, <1>3, <1>4

\* Where a frame begins: after as many full frames as come before it.
LEMMA Scaled ==
    ASSUME NEW a \in Nat, NEW b \in Nat, NEW F \in Nat, a <= b
    PROVE  /\ a * F \in Nat /\ b * F \in Nat
           /\ a * F <= b * F
           /\ (a - 1) * F = (a * F) - F
<1>1. a * F \in Nat /\ b * F \in Nat BY SMTT(20)
<1>2. a * F <= b * F BY SMTT(20)
<1>3. (a - 1) * F = (a * F) - F BY SMTT(20)
<1> QED BY <1>1, <1>2, <1>3

\* A frame of a body before its last is full, the last one is short: sealing
\* and opening agree on which is which.
LEMMA FrameLengths ==
    ASSUME NEW T, NEW dek, NEW key, NEW content \in Seq(T), NEW i \in 1 .. FrameCount(content)
    PROVE  /\ Len(Frame(dek, key, content, i).data) \in Nat
           /\ (Len(Frame(dek, key, content, i).data) < FrameSize) <=> (i = FrameCount(content))
<1>1. FrameSize \in Nat /\ FrameSize > 0 /\ Len(content) \in Nat
      BY BlobAssumption, LenProperties
<1>2. PICK q \in Nat : q = Len(content) \div FrameSize
      BY <1>1, DivBound
<1>3. i \in Nat /\ i >= 1 /\ i <= q + 1 /\ FrameCount(content) = q + 1
      BY <1>1, <1>2 DEF FrameCount
<1>4. PICK full \in Nat : full = q * FrameSize /\ full <= Len(content) /\ Len(content) < full + FrameSize
      BY <1>1, <1>2, DivBound
<1>5. PICK end \in Nat : /\ end = i * FrameSize
                         /\ (i - 1) * FrameSize = end - FrameSize
                         /\ i <= q => end <= full
                         /\ i = q + 1 => end = full + FrameSize
  <2>1. i * FrameSize \in Nat /\ (i - 1) * FrameSize = (i * FrameSize) - FrameSize
        BY <1>1, <1>3, Scaled
  <2>2. i <= q => i * FrameSize <= full
        BY <1>1, <1>3, <1>4, Scaled
  <2>3. i = q + 1 => (i - 1) * FrameSize = full
    <3>1. i = q + 1 => i - 1 = q BY <1>3
    <3> QED BY <3>1, <1>4
  <2> QED BY <2>1, <2>2, <2>3, <1>1
<1>6. PICK to \in Nat : /\ to = IF end < Len(content) THEN end ELSE Len(content)
                        /\ Frame(dek, key, content, i).data = SubSeq(content, end - FrameSize + 1, to)
  <2>1. Min2(i * FrameSize, Len(content)) = IF end < Len(content) THEN end ELSE Len(content)
        BY <1>5 DEF Min2
  <2>2. Frame(dek, key, content, i).data =
            SubSeq(content, ((i - 1) * FrameSize) + 1, Min2(i * FrameSize, Len(content)))
        BY DEF Frame
  <2> QED BY <2>1, <2>2, <1>1, <1>5
<1>7. end >= FrameSize
  <2>1. CASE i = q + 1 BY <2>1, <1>1, <1>5
  <2>2. CASE i # q + 1
    <3>1. 1 * FrameSize <= i * FrameSize BY <1>1, <1>3, Scaled
    <3> QED BY <3>1, <1>1, <1>5
  <2> QED BY <2>1, <2>2
<1>8. end - FrameSize + 1 \in Int /\ end - FrameSize + 1 >= 1 /\ to <= Len(content)
      /\ end - FrameSize + 1 <= to + 1
      BY <1>1, <1>3, <1>4, <1>5, <1>6, <1>7
<1>9. Len(SubSeq(content, end - FrameSize + 1, to)) = to - (end - FrameSize)
  <2>1. PICK m \in Int : m = end - FrameSize + 1
        BY <1>8
  <2>2. \A j \in m .. to : content[j] \in T
        BY <2>1, <1>8, ElementOfSeq
  <2>3. Len(SubSeq(content, m, to)) = IF m <= to THEN to - m + 1 ELSE 0
        BY <2>2, SubSeqProperties
  <2>4. (IF m <= to THEN to - m + 1 ELSE 0) = to - (end - FrameSize)
        BY <2>1, <1>8, <1>1
  <2> QED BY <2>1, <2>3, <2>4
<1>10. /\ to - (end - FrameSize) \in Nat
       /\ (to - (end - FrameSize) < FrameSize) <=> (i = q + 1)
  <2>1. PICK L \in Nat : L = Len(content) /\ full <= L /\ L < full + FrameSize
        BY <1>1, <1>4
  <2>2. to = IF end < L THEN end ELSE L
        BY <2>1, <1>6
  <2>3. (i <= q => end <= full) /\ (i = q + 1 => end = full + FrameSize)
        BY <1>5
  <2>4. CASE i = q + 1
    <3>1. end = full + FrameSize BY <2>3, <2>4
    <3>2. to = L BY <3>1, <2>1, <2>2
    <3>3. to - (end - FrameSize) = L - full BY <3>1, <3>2, <1>1
    <3>4. L - full \in Nat /\ L - full < FrameSize BY <2>1, <1>1
    <3> QED BY <3>3, <3>4, <2>4
  <2>5. CASE i <= q
    <3>1. end <= full BY <2>3, <2>5
    <3>2. to = end BY <3>1, <2>1, <2>2
    <3>3. to - (end - FrameSize) = FrameSize BY <3>2, <1>1
    <3>4. i # q + 1 BY <2>5, <1>3
    <3> QED BY <3>3, <3>4, <1>1
  <2> QED BY <2>4, <2>5, <1>3
<1>11. Len(Frame(dek, key, content, i).data) = to - (end - FrameSize)
       BY <1>6, <1>9
<1> HIDE DEF FrameCount
<1> QED BY <1>3, <1>10, <1>11

\* A body is a sequence of its frames, of which there is at least one.
LEMMA BodyShape ==
    ASSUME NEW T, NEW dek, NEW key, NEW content \in Seq(T)
    PROVE  /\ FrameCount(content) \in Nat \ {0}
           /\ \E FS : SealBody(dek, key, content) \in Seq(FS)
           /\ Len(SealBody(dek, key, content)) = FrameCount(content)
           /\ \A i \in 1 .. FrameCount(content) :
                 SealBody(dek, key, content)[i] = Frame(dek, key, content, i)
<1> DEFINE FS == {Frame(dek, key, content, i) : i \in 1 .. FrameCount(content)}
           B == SealBody(dek, key, content)
           c == FrameCount(content)
<1>1. c \in Nat \ {0}
      BY BlobAssumption, LenProperties, DivBound DEF FrameCount
<1>2. B \in [1 .. c -> FS] /\ \A i \in 1 .. c : B[i] = Frame(dek, key, content, i)
      BY DEF SealBody
<1>3. B \in Seq(FS) /\ Len(B) = c
  <2> HIDE DEF FS, B, c
  <2> QED BY <1>1, <1>2
<1> QED BY <1>1, <1>2, <1>3

\* What a sealed object is made of.
LEMMA SealFields ==
    ASSUME NEW kek, NEW dek, NEW space, NEW key, NEW content
    PROVE  LET blob == Seal(kek, dek, space, key, content) IN
             /\ blob.kek = kek /\ blob.dek = dek
             /\ blob.name.space = space /\ blob.name.key = key
             /\ blob.body = SealBody(dek, key, content)
BY DEF Seal

\* Every frame of a sealed object opens where it was sealed, in a body that
\* has at least that many frames.
LEMMA FrameOpens ==
    ASSUME NEW T, NEW dek, NEW key, NEW content \in Seq(T), NEW blob,
           NEW i \in 1 .. FrameCount(content),
           blob.dek = dek, blob.body[i] = Frame(dek, key, content, i),
           i = FrameCount(content) => i = Len(blob.body)
    PROVE  Authentic(blob, key, i)
<1>1. (Len(blob.body[i].data) < FrameSize) <=> (i = FrameCount(content))
      BY FrameLengths
<1>2. /\ blob.body[i].dek = dek /\ blob.body[i].key = key /\ blob.body[i].index = i - 1
      /\ blob.body[i].final = (i = FrameCount(content))
      BY DEF Frame
<1>3. (blob.body[i].final) = (Len(blob.body[i].data) < FrameSize)
      BY <1>1, <1>2
<1> QED BY <1>1, <1>2, <1>3 DEF Authentic

\* A sealed object opens to its end.
LEMMA SealOpens ==
    ASSUME NEW T, NEW kek, NEW dek, NEW space, NEW key, NEW content \in Seq(T),
           NEW blob, blob = Seal(kek, dek, space, key, content)
    PROVE  OpenedFrames(blob, key) = FrameCount(content) /\ Complete(blob, key)
<1>1. /\ blob.dek = dek
      /\ FrameCount(content) \in Nat \ {0}
      /\ Len(blob.body) = FrameCount(content)
      /\ \A i \in 1 .. FrameCount(content) : blob.body[i] = Frame(dek, key, content, i)
  <2>1. blob.dek = dek /\ blob.body = SealBody(dek, key, content)
        BY DEF Seal
  <2>2. /\ FrameCount(content) \in Nat \ {0}
        /\ Len(SealBody(dek, key, content)) = FrameCount(content)
        /\ \A i \in 1 .. FrameCount(content) :
              SealBody(dek, key, content)[i] = Frame(dek, key, content, i)
        BY BodyShape
  <2> HIDE DEF FrameCount
  <2> QED BY <2>1, <2>2, Zenon
<1>2. \A i \in 1 .. FrameCount(content) : Authentic(blob, key, i)
  <2>1. TAKE i \in 1 .. FrameCount(content)
  <2>2. blob.body[i] = Frame(dek, key, content, i) /\ (i = FrameCount(content) => i = Len(blob.body))
        BY <1>1
  <2> QED BY <2>2, <1>1, FrameOpens
<1>3. OpenedFrames(blob, key) = FrameCount(content)
  <2> DEFINE Ends(n) == /\ \A i \in 1 .. n : Authentic(blob, key, i)
                        /\ n < Len(blob.body) => ~Authentic(blob, key, n + 1)
  <2>1. FrameCount(content) \in 0 .. Len(blob.body) /\ Ends(FrameCount(content))
        BY <1>1, <1>2
  <2>2. \A n \in 0 .. Len(blob.body) : Ends(n) => n = FrameCount(content)
    <3>1. TAKE n \in 0 .. Len(blob.body)
    <3>2. n < Len(blob.body) => n + 1 \in 1 .. FrameCount(content)
          BY <1>1
    <3> QED BY <3>2, <1>1, <1>2
  <2>3. OpenedFrames(blob, key) = CHOOSE n \in 0 .. Len(blob.body) : Ends(n)
        BY DEF OpenedFrames
  <2> HIDE DEF Ends
  <2> QED BY <2>1, <2>2, <2>3
<1>4. blob.body # <<>>
      BY <1>1
<1>5. Last(blob.body).final
  <2>1. Last(blob.body) = blob.body[FrameCount(content)]
        BY <1>1, Zenon DEF Last
  <2>2. blob.body[FrameCount(content)] = Frame(dek, key, content, FrameCount(content))
    <3>1. FrameCount(content) \in 1 .. FrameCount(content) BY <1>1
    <3> QED BY <3>1, <1>1
  <2>3. Frame(dek, key, content, FrameCount(content)).final = TRUE
        BY DEF Frame
  <2> QED BY <2>1, <2>2, <2>3
<1> QED BY <1>1, <1>3, <1>4, <1>5 DEF Complete

\* The n-th object's content is a sequence.
LEMMA ContentSeq ==
    ASSUME NEW n \in 1 .. MaxWrites
    PROVE  Content(n) \in Seq(Nat \X Nat) /\ n # NoKey
<1>1. n \in Nat /\ n # NoKey BY StoreAssumption DEF NoKey
<1>2. Content(n) \in [1 .. n -> Nat \X Nat] BY <1>1 DEF Content
<1> QED BY <1>1, <1>2

\* The first frames of an object are a sequence of them.
LEMMA FirstShape ==
    ASSUME NEW n, NEW key, NEW m \in Nat
    PROVE  /\ \E FS : FirstFrames(n, key, m) \in Seq(FS)
           /\ Len(FirstFrames(n, key, m)) = m
           /\ \A i \in 1 .. m : FirstFrames(n, key, m)[i] = Frame(n, key, Content(n), i)
<1> DEFINE FS == {Frame(n, key, Content(n), i) : i \in 1 .. m}
           B == FirstFrames(n, key, m)
<1>1. B \in [1 .. m -> FS] /\ \A i \in 1 .. m : B[i] = Frame(n, key, Content(n), i)
      BY DEF FirstFrames
<1>2. B \in Seq(FS) /\ Len(B) = m
  <2> HIDE DEF FS, B
  <2> QED BY <1>1
<1> QED BY <1>1, <1>2

\* And so are those with a part of the next.
LEMMA TornShape ==
    ASSUME NEW n, NEW key, NEW m \in Nat
    PROVE  /\ \E FS : TornFrames(n, key, m) \in Seq(FS)
           /\ Len(TornFrames(n, key, m)) = m + 1
           /\ \A i \in 1 .. m : TornFrames(n, key, m)[i] = Frame(n, key, Content(n), i)
           /\ TornFrames(n, key, m)[m + 1] = Torn(Frame(n, key, Content(n), m + 1))
<1> DEFINE G(i) == IF i <= m THEN Frame(n, key, Content(n), i) ELSE Torn(Frame(n, key, Content(n), m + 1))
           FS == {G(i) : i \in 1 .. m + 1}
           B == TornFrames(n, key, m)
<1>1. B = [i \in 1 .. m + 1 |-> G(i)]
      BY DEF TornFrames
<1>2. /\ \A i \in 1 .. m : G(i) = Frame(n, key, Content(n), i)
      /\ G(m + 1) = Torn(Frame(n, key, Content(n), m + 1))
      OBVIOUS
<1> HIDE DEF G, B
<1>3. B \in [1 .. m + 1 -> FS] /\ \A i \in 1 .. m + 1 : B[i] = G(i)
      BY <1>1
<1>4. B \in Seq(FS) /\ Len(B) = m + 1
  <2> HIDE DEF FS
  <2> QED BY <1>3
<1>5. \A i \in 1 .. m : B[i] = Frame(n, key, Content(n), i)
      BY <1>2, <1>3
<1>6. B[m + 1] = Torn(Frame(n, key, Content(n), m + 1))
      BY <1>2, <1>3
<1> QED BY <1>4, <1>5, <1>6 DEF B

\* A body that ends before its last frame does not open to its end, whether
\* it ends after a frame or inside one: only the last says that it is the last.
LEMMA PartFails ==
    ASSUME NEW p, NEW n \in 1 .. MaxWrites, NEW k, NEW blob, Part(p, n, k, blob)
    PROVE  ~Complete(blob, p[2])
<1> DEFINE c == FrameCount(Content(n))
           key == p[2]
<1>1. PICK T : Content(n) \in Seq(T) BY ContentSeq
<1>2. c \in Nat \ {0} /\ n # NoKey BY <1>1, BodyShape, ContentSeq
<1>3. PICK m \in 0 .. c - 1 :
        \E body \in {FirstFrames(n, key, m), TornFrames(n, key, m)} :
          blob = [kek |-> <<p[1], k>>, dek |-> n, name |-> [space |-> p[1], key |-> p[2]], body |-> body]
      BY DEF Part
<1>4. blob.dek = n /\ blob.body \in {FirstFrames(n, key, m), TornFrames(n, key, m)}
      BY <1>3
<1>5. m \in Nat /\ m < c BY <1>2
<1>6. ASSUME blob.body = FirstFrames(n, key, m), blob.body # <<>>
      PROVE  Last(blob.body).final = FALSE
  <2>1. PICK FS : blob.body \in Seq(FS) BY <1>5, <1>6, FirstShape
  <2>2. Len(blob.body) = m /\ \A i \in 1 .. m : blob.body[i] = Frame(n, key, Content(n), i)
        BY <1>5, <1>6, FirstShape
  <2>3. m # 0 BY <2>1, <2>2, <1>6, EmptySeq
  <2>4. Last(blob.body) = blob.body[m] BY <2>2, Zenon DEF Last
  <2>5. m \in 1 .. m /\ m # c BY <1>5, <2>3
  <2>6. blob.body[m] = Frame(n, key, Content(n), m) BY <2>2, <2>5
  <2>7. m # FrameCount(Content(n)) BY <2>5
  <2>8. Frame(n, key, Content(n), m).final = FALSE BY <2>7 DEF Frame
  <2> QED BY <2>4, <2>6, <2>8
<1>7. ASSUME blob.body = TornFrames(n, key, m)
      PROVE  OpenedFrames(blob, key) # Len(blob.body)
  <2>2. /\ Len(blob.body) = m + 1
        /\ \A i \in 1 .. m : blob.body[i] = Frame(n, key, Content(n), i)
        /\ blob.body[m + 1] = Torn(Frame(n, key, Content(n), m + 1))
        BY <1>5, <1>7, TornShape
  <2>3. \A i \in 1 .. m : Authentic(blob, key, i)
    <3>1. TAKE i \in 1 .. m
    <3>2. i \in 1 .. FrameCount(Content(n)) /\ i # FrameCount(Content(n))
          BY <1>2, <1>5
    <3>3. blob.body[i] = Frame(n, key, Content(n), i) BY <2>2
    <3> QED BY <3>2, <3>3, <1>1, <1>4, FrameOpens
  <2>4. ~Authentic(blob, key, m + 1)
    <3>1. Torn(Frame(n, key, Content(n), m + 1)).dek = NoKey
          BY DEF Torn, Frame
    <3> QED BY <3>1, <1>2, <1>4, <2>2 DEF Authentic
  <2> DEFINE Ends(j) == /\ \A i \in 1 .. j : Authentic(blob, key, i)
                        /\ j < Len(blob.body) => ~Authentic(blob, key, j + 1)
  <2>5. m \in 0 .. Len(blob.body) /\ Ends(m)
        BY <2>2, <2>3, <2>4, <1>5
  <2>6. ~Ends(m + 1)
    <3>1. m + 1 \in 1 .. m + 1 BY <1>5
    <3> QED BY <3>1, <2>4
  <2>7. OpenedFrames(blob, key) = CHOOSE j \in 0 .. Len(blob.body) : Ends(j)
        BY DEF OpenedFrames
  <2> HIDE DEF Ends
  <2> QED BY <2>2, <2>5, <2>6, <2>7
<1> QED BY <1>4, <1>6, <1>7 DEF Complete

\* What is read of a body whose last frame may be torn, when the reading breaks
\* off, is first frames of the object again, the last of them perhaps torn.
LEMMA CutShape ==
    ASSUME NEW n, NEW key, NEW L \in Nat, NEW FS, NEW body \in Seq(FS), Len(body) = L,
           \A i \in 1 .. L : \/ body[i] = Frame(n, key, Content(n), i)
                             \/ i = L /\ body[i] = Torn(Frame(n, key, Content(n), i)),
           NEW m \in 0 .. L - 1
    PROVE  /\ SubSeq(body, 1, m) = FirstFrames(n, key, m)
           /\ Append(SubSeq(body, 1, m), Torn(body[m + 1])) = TornFrames(n, key, m)
<1>1. m \in Nat /\ m < L BY SMT
<1>2. /\ SubSeq(body, 1, m) \in Seq(FS)
      /\ Len(SubSeq(body, 1, m)) = m
      /\ \A i \in 1 .. m : SubSeq(body, 1, m)[i] = body[i]
  <2>2. \A i \in 1 .. m : body[i] \in FS
        BY <1>1, ElementOfSeq
  <2>3. PICK one \in Int : one = 1 OBVIOUS
  <2>4. m \in Int BY <1>1
  <2>5. /\ SubSeq(body, one, m) \in Seq(FS)
        /\ Len(SubSeq(body, one, m)) = IF one <= m THEN m - one + 1 ELSE 0
        /\ \A i \in 1 .. m - one + 1 : SubSeq(body, one, m)[i] = body[one + i - 1]
        BY <2>2, <2>3, <2>4, SubSeqProperties
  <2>6. (IF one <= m THEN m - one + 1 ELSE 0) = m BY <2>3, <1>1
  <2>7. 1 .. m - one + 1 = 1 .. m /\ \A i \in 1 .. m : one + i - 1 = i BY <2>3, <1>1
  <2> QED BY <2>3, <2>5, <2>6, <2>7
<1>3. \A i \in 1 .. m : body[i] = Frame(n, key, Content(n), i)
  <2>1. TAKE i \in 1 .. m
  <2>2. i \in 1 .. L /\ i # L BY <1>1
  <2> QED BY <2>2
<1>4. Torn(body[m + 1]) = Torn(Frame(n, key, Content(n), m + 1))
  <2>1. m + 1 \in 1 .. L BY <1>1
  <2>2. Torn(Torn(Frame(n, key, Content(n), m + 1))) = Torn(Frame(n, key, Content(n), m + 1))
        BY DEF Torn, Frame
  <2> QED BY <2>1, <2>2
<1>5. PICK pre \in Seq(FS) :
         pre = SubSeq(body, 1, m) /\ Len(pre) = m /\ \A i \in 1 .. m : pre[i] = Frame(n, key, Content(n), i)
      BY <1>2, <1>3
<1>6. pre = FirstFrames(n, key, m)
  <2>1. PICK F2 : FirstFrames(n, key, m) \in Seq(F2) BY <1>1, FirstShape
  <2>2. /\ Len(FirstFrames(n, key, m)) = m
        /\ \A i \in 1 .. m : FirstFrames(n, key, m)[i] = pre[i]
        BY <1>1, <1>5, FirstShape
  <2>3. PICK x : x = FirstFrames(n, key, m) OBVIOUS
  <2>4. pre = [i \in 1 .. m |-> pre[i]] BY <1>1, <1>5
  <2>5. x = [i \in 1 .. m |-> x[i]] BY <1>1, <2>1, <2>2, <2>3
  <2> QED BY <2>2, <2>3, <2>4, <2>5
<1>7. PICK torn : torn = Torn(Frame(n, key, Content(n), m + 1)) OBVIOUS
<1>8. Append(pre, torn) = TornFrames(n, key, m)
  <2> DEFINE FT == FS \union {torn}
  <2>1. pre \in Seq(FT)
    <3>1. pre \in [1 .. m -> FT] BY ZenonT(40), <1>5, LenProperties
    <3> HIDE DEF FT
    <3> QED BY <3>1, <1>1
  <2>2. /\ Append(pre, torn) \in Seq(FT)
        /\ Len(Append(pre, torn)) = m + 1
        /\ \A i \in 1 .. m : Append(pre, torn)[i] = pre[i]
        /\ Append(pre, torn)[m + 1] = torn
    <3>1. torn \in FT OBVIOUS
    <3> HIDE DEF FT
    <3> QED BY <2>1, <3>1, <1>1, <1>5, AppendProperties
  <2>3. PICK x : x = Append(pre, torn) OBVIOUS
  <2>4. PICK y : y = TornFrames(n, key, m) OBVIOUS
  <2>5. PICK F2 : y \in Seq(F2) BY <1>1, <2>4, TornShape
  <2>6. /\ Len(y) = m + 1 /\ y[m + 1] = torn
        /\ \A i \in 1 .. m : y[i] = pre[i]
        BY <1>1, <1>5, <1>7, <2>4, TornShape
  <2> HIDE DEF FT
  <2>7. x \in Seq(FT) /\ Len(x) = m + 1 /\ x[m + 1] = torn /\ \A i \in 1 .. m : x[i] = pre[i]
        BY <2>2, <2>3
  <2>8. x = [i \in 1 .. m + 1 |-> x[i]] BY <1>1, <2>7
  <2>9. y = [i \in 1 .. m + 1 |-> y[i]] BY <1>1, <2>5, <2>6
  <2>10. \A i \in 1 .. m + 1 : x[i] = y[i]
    <3>1. TAKE i \in 1 .. m + 1
    <3>2. i \in 1 .. m \/ i = m + 1 BY <1>1
    <3> QED BY <3>2, <2>6, <2>7
  <2> QED BY <2>3, <2>4, <2>8, <2>9, <2>10
<1> QED BY <1>4, <1>5, <1>6, <1>7, <1>8

\* So what breaks off of an object, or of a part of one, is a part of it.
LEMMA CutIsPart ==
    ASSUME NEW p, NEW n \in 1 .. MaxWrites, NEW k, NEW blob,
           blob = Sealed(p, n, k) \/ Part(p, n, k, blob),
           NEW less \in CutOff(blob)
    PROVE  Part(p, n, k, less)
<1> DEFINE c == FrameCount(Content(n))
           key == p[2]
<1>1. PICK T : Content(n) \in Seq(T) BY ContentSeq
<1>2. c \in Nat \ {0} BY <1>1, BodyShape
<1>3. PICK body : blob = [kek |-> <<p[1], k>>, dek |-> n, name |-> [space |-> p[1], key |-> p[2]], body |-> body]
                  /\ \/ body = SealBody(n, key, Content(n))
                     \/ \E m \in 0 .. c - 1 : body = FirstFrames(n, key, m) \/ body = TornFrames(n, key, m)
  <2>1. CASE blob = Sealed(p, n, k)
        BY <2>1 DEF Sealed, Seal
  <2>2. CASE Part(p, n, k, blob)
    <3>1. PICK m \in 0 .. c - 1 :
            \E b \in {FirstFrames(n, key, m), TornFrames(n, key, m)} :
              blob = [kek |-> <<p[1], k>>, dek |-> n, name |-> [space |-> p[1], key |-> p[2]], body |-> b]
          BY <2>2 DEF Part
    <3> QED BY <3>1
  <2> QED BY <2>1, <2>2
<1>5. \E L \in 0 .. c :
        \E FS : /\ body \in Seq(FS) /\ Len(body) = L
                /\ \A i \in 1 .. L : \/ body[i] = Frame(n, key, Content(n), i)
                                     \/ i = L /\ body[i] = Torn(Frame(n, key, Content(n), i))
  <2>1. CASE body = SealBody(n, key, Content(n))
    <3>1. PICK FS : body \in Seq(FS) BY <1>1, <2>1, BodyShape
    <3>2. Len(body) = c /\ \A i \in 1 .. c : body[i] = Frame(n, key, Content(n), i)
          BY <1>1, <2>1, BodyShape
    <3>3. c \in 0 .. c BY <1>2
    <3> QED BY <3>1, <3>2, <3>3
  <2>2. ASSUME NEW m \in 0 .. c - 1, body = FirstFrames(n, key, m)
        PROVE  \E L \in 0 .. c :
                 \E FS : /\ body \in Seq(FS) /\ Len(body) = L
                         /\ \A i \in 1 .. L : \/ body[i] = Frame(n, key, Content(n), i)
                                              \/ i = L /\ body[i] = Torn(Frame(n, key, Content(n), i))
    <3>0. m \in Nat /\ m \in 0 .. c BY <1>2
    <3>1. PICK FS : body \in Seq(FS) BY <2>2, <3>0, FirstShape
    <3>2. Len(body) = m /\ \A i \in 1 .. m : body[i] = Frame(n, key, Content(n), i)
          BY <2>2, <3>0, FirstShape
    <3> QED BY <3>0, <3>1, <3>2
  <2>3. ASSUME NEW m \in 0 .. c - 1, body = TornFrames(n, key, m)
        PROVE  \E L \in 0 .. c :
                 \E FS : /\ body \in Seq(FS) /\ Len(body) = L
                         /\ \A i \in 1 .. L : \/ body[i] = Frame(n, key, Content(n), i)
                                              \/ i = L /\ body[i] = Torn(Frame(n, key, Content(n), i))
    <3>0. m \in Nat /\ m + 1 \in 0 .. c BY <1>2
    <3>1. PICK FS : body \in Seq(FS) BY <2>3, <3>0, TornShape
    <3>2. /\ Len(body) = m + 1 /\ \A i \in 1 .. m : body[i] = Frame(n, key, Content(n), i)
          /\ body[m + 1] = Torn(Frame(n, key, Content(n), m + 1))
          BY <2>3, <3>0, TornShape
    <3>3. \A i \in 1 .. m + 1 : i \in 1 .. m \/ i = m + 1 BY <3>0
    <3> QED BY <3>0, <3>1, <3>2, <3>3
  <2> QED BY <1>3, <2>1, <2>2, <2>3
<1>4. PICK L \in 0 .. c :
        \E FS : /\ body \in Seq(FS) /\ Len(body) = L
                /\ \A i \in 1 .. L : \/ body[i] = Frame(n, key, Content(n), i)
                                     \/ i = L /\ body[i] = Torn(Frame(n, key, Content(n), i))
      BY <1>5
<1>6. PICK FS :
        /\ body \in Seq(FS) /\ Len(body) = L
        /\ \A i \in 1 .. L : \/ body[i] = Frame(n, key, Content(n), i)
                             \/ i = L /\ body[i] = Torn(Frame(n, key, Content(n), i))
      BY <1>4
<1>7. blob.body = body /\ L \in Nat BY <1>2, <1>3
<1>8. PICK m \in 0 .. L - 1 :
         \/ less = [blob EXCEPT !.body = SubSeq(body, 1, m)]
         \/ less = [blob EXCEPT !.body = Append(SubSeq(body, 1, m), Torn(body[m + 1]))]
      BY <1>6, <1>7 DEF CutOff
<1>9. /\ SubSeq(body, 1, m) = FirstFrames(n, key, m)
      /\ Append(SubSeq(body, 1, m), Torn(body[m + 1])) = TornFrames(n, key, m)
  <2> HIDE DEF c, key
  <2> QED BY <1>6, <1>7, CutShape, ZenonT(30)
<1>10. PICK rest \in {FirstFrames(n, key, m), TornFrames(n, key, m)} : less = [blob EXCEPT !.body = rest]
       BY <1>8, <1>9
<1>11. less = [kek |-> <<p[1], k>>, dek |-> n, name |-> [space |-> p[1], key |-> p[2]], body |-> rest]
       BY <1>3, <1>10
<1>12. m \in 0 .. c - 1 BY <1>2, <1>7
<1> QED BY <1>10, <1>11, <1>12 DEF Part

\* A rewrapped object is the same one under another key, a part of one too.
LEMMA RewrapKeeps ==
    ASSUME NEW p, NEW n, NEW k, NEW a, NEW blob
    PROVE  /\ blob = Sealed(p, n, k) => Rewrapped(blob, <<p[1], a>>) = Sealed(p, n, a)
           /\ Part(p, n, k, blob) => Part(p, n, a, Rewrapped(blob, <<p[1], a>>))
<1>1. blob = Sealed(p, n, k) => Rewrapped(blob, <<p[1], a>>) = Sealed(p, n, a)
      BY DEF Rewrapped, Sealed, Seal
<1>2. ASSUME Part(p, n, k, blob) PROVE Part(p, n, a, Rewrapped(blob, <<p[1], a>>))
  <2>0. PICK m \in 0 .. FrameCount(Content(n)) - 1 :
          \E b \in {FirstFrames(n, p[2], m), TornFrames(n, p[2], m)} :
            blob = [kek |-> <<p[1], k>>, dek |-> n, name |-> [space |-> p[1], key |-> p[2]], body |-> b]
        BY <1>2 DEF Part
  <2>1. PICK body \in {FirstFrames(n, p[2], m), TornFrames(n, p[2], m)} :
          blob = [kek |-> <<p[1], k>>, dek |-> n, name |-> [space |-> p[1], key |-> p[2]], body |-> body]
        BY <2>0
  <2>2. Rewrapped(blob, <<p[1], a>>) =
          [kek |-> <<p[1], a>>, dek |-> n, name |-> [space |-> p[1], key |-> p[2]], body |-> body]
        BY <2>1 DEF Rewrapped
  <2> QED BY <2>1, <2>2 DEF Part
<1> QED BY <1>1, <1>2

\* What an object or a part of one says of the key and the write it is of.
LEMMA SealedFields ==
    ASSUME NEW p, NEW n, NEW k, NEW blob, OfWrite(p, n, k, blob)
    PROVE  blob.kek = <<p[1], k>> /\ blob.dek = n /\ blob.name.space = p[1]
<1>1. CASE blob = Sealed(p, n, k) BY <1>1 DEF Sealed, Seal
<1>2. CASE Part(p, n, k, blob) BY <1>2 DEF Part
<1> QED BY <1>1, <1>2 DEF OfWrite

-----------------------------------------------------------------------------
(* Keys *)

\* Keys only come, and the one in use is never an older one again.
KeysGrow ==
    \A s \in Space : ring[s].held \subseteq ring'[s].held /\ ring[s].active <= ring'[s].active

\* A step that is not about keys leaves them, and what follows from them.
LEMMA KeysStay ==
    ASSUME TypeOK, RingsSound, ServedSound, UNCHANGED keyVars
    PROVE  RingsSound' /\ ServedSound' /\ KeysGrow
BY DEF TypeOK, RingsSound, ServedSound, KeysGrow, keyVars, HasScope, Uses, Ring, Space

\* The newest key of a ring that has a newest one.
LEMMA NewestIs ==
    ASSUME NEW rg, \E n \in rg.held : \A m \in rg.held : m <= n
    PROVE  Newest(rg) \in rg.held /\ \A m \in rg.held : m <= Newest(rg)
<1> DEFINE P(n) == \A m \in rg.held : m <= n
<1>1. \E n \in rg.held : P(n) OBVIOUS
<1>2. Newest(rg) = CHOOSE n \in rg.held : P(n) BY DEF Newest
<1> HIDE DEF P
<1>3. Newest(rg) \in rg.held /\ P(Newest(rg)) BY <1>1, <1>2
<1> QED BY <1>3 DEF P

\* Minting, rotating, handing over, restarting and re-seeding keep keys.yaml
\* in order and ahead of every replica and bundle.
LEMMA KeysSound ==
    ASSUME TypeOK, RingsSound, ServedSound, KeysStep
    PROVE  TypeOK' /\ RingsSound' /\ ServedSound' /\ KeysGrow
<1>0. /\ ring \in [Space -> Ring] /\ replica \in [Replica -> Ring] /\ bundle \in Ring
      /\ written \in 0 .. MaxWrites /\ stray \subseteq Place /\ steady \subseteq Replica
      /\ cut \subseteq 1 .. MaxWrites
      /\ NoRing \in Ring /\ "master" \in Space /\ "app" \in Space
      BY DEF TypeOK, NoRing, Ring, Space
<1>00. ASSUME KeyStep, ring' \in [Space -> Ring], replica' \in [Replica -> Ring], bundle' \in Ring,
              steady' \subseteq steady
       PROVE  TypeOK'
       BY <1>0, <1>00 DEF TypeOK, KeyStep
<1>1. ASSUME MintScope
      PROVE  TypeOK' /\ RingsSound' /\ ServedSound' /\ KeysGrow
  <2> DEFINE one == [active |-> 1, held |-> {1}]
  <2>1. one \in Ring /\ Uses(one) /\ one.active = 1 /\ one.held = {1} /\ one # NoRing
        BY DEF Ring, Uses, NoRing
  <2>2. /\ ring' = [ring EXCEPT !["app"] = one] /\ ring'["app"] = one
        /\ ring'["master"] = ring["master"] /\ ring' \in [Space -> Ring]
        /\ replica' = [r \in Replica |-> one] /\ bundle' = one /\ steady' = steady /\ KeyStep
        BY <1>0, <1>1, <2>1 DEF MintScope
  <2>3. ring["app"] = NoRing
        BY <1>0, <1>1 DEF MintScope, HasScope, RingsSound, Uses, NoRing
  <2> HIDE DEF one
  <2>4. TypeOK' BY <1>00, <2>1, <2>2
  <2>5. KeysGrow
        BY <1>0, <2>1, <2>2, <2>3 DEF KeysGrow, Space, NoRing, Ring
  <2>6. RingsSound'
    <3>1. ring["master"].active \in Nat /\ ring["master"].active >= 1
          BY <1>0 DEF RingsSound, Ring
    <3> QED BY <1>0, <2>1, <2>2, <3>1 DEF RingsSound, HasScope, Space
  <2>7. ServedSound'
        BY <2>1, <2>2 DEF ServedSound
  <2> QED BY <2>4, <2>5, <2>6, <2>7
<1>2. ASSUME RotateHold
      PROVE  TypeOK' /\ RingsSound' /\ ServedSound' /\ KeysGrow
  <2>1. PICK n \in Nat : n = ring["master"].active + 1 /\ n >= 1
        BY <1>0 DEF Ring
  <2>2. /\ ring' = [s \in Space |->
                      IF s = "master" THEN [active |-> n, held |-> ring[s].held \union {n}]
                      ELSE IF HasScope(ring) THEN [ring[s] EXCEPT !.held = @ \union {n}] ELSE ring[s]]
        /\ UNCHANGED <<replica, bundle, steady>> /\ KeyStep
        BY <1>2, <2>1 DEF RotateHold
  <2>3. \A s \in Space : ring[s].held \in SUBSET Nat /\ ring[s].active \in Nat
        BY <1>0 DEF Ring
  <2>4. /\ ring'["master"] = [active |-> n, held |-> ring["master"].held \union {n}]
        /\ ring'["master"].active = n /\ ring'["master"].held = ring["master"].held \union {n}
        /\ ring'["master"] \in Ring
        BY <1>0, <2>1, <2>2, <2>3 DEF Ring
  <2>5. /\ ring'["app"] \in Ring /\ ring'["app"].active = ring["app"].active
        /\ ring'["app"].held = IF HasScope(ring) THEN ring["app"].held \union {n} ELSE ring["app"].held
        /\ ~HasScope(ring) => ring'["app"] = ring["app"]
    <3>1. PICK a \in Nat, h \in SUBSET Nat : ring["app"] = [active |-> a, held |-> h]
          BY <1>0 DEF Ring
    <3>2. ring'["app"] = IF HasScope(ring) THEN [ring["app"] EXCEPT !.held = @ \union {n}] ELSE ring["app"]
          BY <1>0, <2>2
    <3> QED BY <3>1, <3>2, <2>1 DEF Ring
  <2>6. ring' \in [Space -> Ring]
        BY <2>2, <2>4, <2>5 DEF Space
  <2>7. TypeOK'
        BY <1>00, <1>0, <2>2, <2>6
  <2>8. KeysGrow
        BY <2>1, <2>3, <2>4, <2>5 DEF KeysGrow, Space
  <2>9. RingsSound'
    <3>1. \A s \in Space : Uses(ring'[s])
      <4>1. Uses(ring'["master"]) BY <2>4 DEF Uses
      <4>2. Uses(ring'["app"])
        <5>1. CASE HasScope(ring)
          <6>1. ring["app"].held # {} /\ NoRing.held = {} BY <5>1 DEF HasScope, NoRing
          <6>2. ring["app"].active \in ring["app"].held BY <6>1, <1>0 DEF RingsSound, Uses
          <6> QED BY <5>1, <6>2, <2>5 DEF Uses
        <5>2. CASE ~HasScope(ring)
              BY <5>2, <2>5, <1>0 DEF RingsSound
        <5> QED BY <5>1, <5>2
      <4> QED BY <4>1, <4>2 DEF Space
    <3>2. \A s \in Space : \A k \in ring[s].held : k <= n
          BY <2>1, <2>3, <1>0 DEF RingsSound
    <3>3. \A s \in Space : \A k \in ring'[s].held : k <= n
          BY <3>2, <2>1, <2>4, <2>5 DEF Space
    <3>4. HasScope(ring') => \E m \in ring'["app"].held : \A k \in ring'["app"].held : k <= m
      <4>1. CASE HasScope(ring)
            BY <4>1, <3>3, <2>5, <1>0
      <4>2. CASE ~HasScope(ring)
            BY <4>2, <2>5 DEF HasScope
      <4> QED BY <4>1, <4>2
    <3> QED BY <3>1, <3>3, <3>4, <2>1, <2>4 DEF RingsSound
  <2>10. ServedSound'
    <3>1. ring["app"].held \subseteq ring'["app"].held BY <2>8, <1>0 DEF KeysGrow
    <3> QED BY <2>2, <3>1 DEF ServedSound
  <2> QED BY <2>7, <2>8, <2>9, <2>10
<1>3. ASSUME UnfinishedRotation(ring["app"])
      PROVE  /\ Newest(ring["app"]) \in ring["app"].held
             /\ \A m \in ring["app"].held : m <= Newest(ring["app"])
             /\ Newest(ring["app"]) \in Nat /\ ring["app"].active <= Newest(ring["app"])
  <2>1. /\ Newest(ring["app"]) \in ring["app"].held
        /\ \A m \in ring["app"].held : m <= Newest(ring["app"])
        BY <1>3, NewestIs DEF UnfinishedRotation, RingsSound, HasScope
  <2>2. ring["app"].active \in ring["app"].held
        BY <1>3, <1>0 DEF RingsSound, Uses, UnfinishedRotation, NoRing
  <2> QED BY <2>1, <2>2, <1>0 DEF Ring
<1>4. ASSUME RotatePush
      PROVE  TypeOK' /\ RingsSound' /\ ServedSound' /\ KeysGrow
  <2>1. UNCHANGED <<ring, bundle, steady>> /\ KeyStep
        BY <1>4 DEF RotatePush
  <2>2. ring["app"].held \in SUBSET Nat BY <1>0 DEF Ring
  <2>3. \A r \in Replica : /\ replica'[r] \in Ring /\ replica'[r].active = replica[r].active
                            /\ replica'[r].held = replica[r].held \union ring["app"].held
                            /\ replica[r] # NoRing
    <3>1. TAKE r \in Replica
    <3>2. PICK a \in Nat, h \in SUBSET Nat : replica[r] = [active |-> a, held |-> h]
          BY <1>0 DEF Ring
    <3>3. replica'[r] = [replica[r] EXCEPT !.held = @ \union ring["app"].held] /\ replica[r] # NoRing
          BY <1>4 DEF RotatePush
    <3> QED BY <3>2, <3>3, <2>2 DEF Ring
  <2>4. replica' \in [Replica -> Ring]
        BY <1>4, <2>3 DEF RotatePush
  <2>5. TypeOK' BY <1>00, <1>0, <2>1, <2>4
  <2>6. KeysGrow BY <2>1, <1>0 DEF KeysGrow, Ring
  <2>7. RingsSound' BY <2>1 DEF RingsSound, HasScope
  <2>8. ServedSound'
        BY <2>1, <2>3 DEF ServedSound, Uses
  <2> QED BY <2>5, <2>6, <2>7, <2>8
<1>5. ASSUME RotateActivate
      PROVE  TypeOK' /\ RingsSound' /\ ServedSound' /\ KeysGrow
  <2>1. UNCHANGED <<replica, bundle, steady>> /\ KeyStep /\ UnfinishedRotation(ring["app"])
        BY <1>5 DEF RotateActivate
  <2>2. PICK n \in Nat : /\ n = Newest(ring["app"]) /\ n \in ring["app"].held
                         /\ ring["app"].active <= n
        BY <2>1, <1>3
  <2>3. /\ ring' = [ring EXCEPT !["app"].active = n]
        BY <1>5, <2>2 DEF RotateActivate
  <2>4. /\ ring'["master"] = ring["master"] /\ ring'["app"] \in Ring
        /\ ring'["app"].held = ring["app"].held /\ ring'["app"].active = n
        /\ ring' \in [Space -> Ring]
    <3>1. PICK a \in Nat, h \in SUBSET Nat : ring["app"] = [active |-> a, held |-> h]
          BY <1>0 DEF Ring
    <3>2. ring' = [ring EXCEPT !["app"] = [ring["app"] EXCEPT !.active = n]]
          BY <2>3
    <3>3. [ring["app"] EXCEPT !.active = n] = [active |-> n, held |-> h]
          BY <3>1
    <3>4. [active |-> n, held |-> h] \in Ring BY DEF Ring
    <3> QED BY <1>0, <3>1, <3>2, <3>3, <3>4
  <2>5. TypeOK' BY <1>00, <1>0, <2>1, <2>4
  <2>6. KeysGrow
    <3>1. ring["master"].active \in Nat BY <1>0 DEF Ring
    <3> QED BY <2>2, <2>4, <3>1 DEF KeysGrow, Space
  <2>7. RingsSound'
        BY <2>2, <2>4, <1>0 DEF RingsSound, HasScope, Uses, Space
  <2>8. ServedSound'
        BY <2>1, <2>4 DEF ServedSound
  <2> QED BY <2>5, <2>6, <2>7, <2>8
<1>6. ASSUME NEW r \in Replica, NEW rg \in Ring, Uses(rg), rg.held \subseteq ring["app"].held,
             replica' = [replica EXCEPT ![r] = rg], UNCHANGED <<ring, bundle>>, KeyStep,
             steady' \subseteq steady
      PROVE  TypeOK' /\ RingsSound' /\ ServedSound' /\ KeysGrow
  <2>1. replica' \in [Replica -> Ring] /\ \A q \in Replica : replica'[q] \in {rg, replica[q]}
        BY <1>0, <1>6
  <2>2. TypeOK' BY <1>00, <1>0, <1>6, <2>1
  <2>3. KeysGrow BY <1>0, <1>6 DEF KeysGrow, Ring
  <2>4. RingsSound' BY <1>6 DEF RingsSound, HasScope
  <2>5. ServedSound' BY <1>6, <2>1 DEF ServedSound
  <2> QED BY <2>2, <2>3, <2>4, <2>5
<1>7. ASSUME NEW r \in Replica, HandOver(r)
      PROVE  TypeOK' /\ RingsSound' /\ ServedSound' /\ KeysGrow
      BY <1>0, <1>6, <1>7 DEF HandOver, RingsSound
<1>8. ASSUME NEW r \in Replica, Restart(r)
      PROVE  TypeOK' /\ RingsSound' /\ ServedSound' /\ KeysGrow
  <2>1. Uses(NoRing) /\ NoRing.held \subseteq ring["app"].held BY DEF Uses, NoRing
  <2> QED BY <1>0, <1>6, <1>8, <2>1 DEF Restart
<1>9. ASSUME NEW r \in Replica, Reseed(r)
      PROVE  TypeOK' /\ RingsSound' /\ ServedSound' /\ KeysGrow
      BY <1>0, <1>6, <1>9 DEF Reseed, ServedSound
<1> QED BY <1>1, <1>2, <1>4, <1>5, <1>7, <1>8, <1>9 DEF KeysStep

\* Keys read earlier were read earlier still.
LEMMA EarlierStays ==
    ASSUME NEW rings, TypeOK, TypeOK', KeysGrow, Earlier(rings)
    PROVE  Earlier(rings)'
<1>1. \A s \in Space : rings[s].active \in Nat /\ ring[s].active \in Nat /\ ring'[s].active \in Nat
      BY DEF TypeOK, Earlier, Ring
<1> QED BY <1>1 DEF Earlier, KeysGrow

\* keys.yaml as it is has just been read.
LEMMA EarlierNow ==
    ASSUME TypeOK, RingsSound
    PROVE  Earlier(ring)
<1>1. ring["master"] # NoRing BY DEF RingsSound, NoRing
<1>2. \A s \in Space : ring[s].active \in Nat BY DEF TypeOK, Ring
<1> QED BY <1>1, <1>2 DEF Earlier, TypeOK, RingsSound

\* What is sealed under a key of some rings is under a key of larger ones, and
\* what broke off stays known.
LEMMA SealedStays ==
    ASSUME NEW p \in Place, NEW blob, NEW less, NEW more, NEW cuts, NEW also,
           IsSealed(p, blob, less, cuts),
           less[p[1]].held \subseteq more[p[1]].held, cuts \subseteq also
    PROVE  IsSealed(p, blob, more, also)
BY DEF IsSealed

\* A step about keys takes nothing from what a command goes by.
LEMMA KeysStepRest ==
    ASSUME StoreInv, KeysStep, TypeOK', KeysGrow
    PROVE  BucketSound' /\ CopySound' /\ SweepSound' /\ Retired'
<1>1. UNCHANGED <<bucket, sweep, copy, local, written, stray, cut>>
      BY DEF KeysStep, KeyStep, MintScope, RotateHold, RotatePush, RotateActivate,
             HandOver, Restart, Reseed
<1>2. \A p \in Place : p[1] \in Space
      BY DEF Place
<1>3. BucketSound'
  <2>1. ASSUME NEW p \in Place, bucket[p] # Absent
        PROVE  IsSealed(p, bucket[p], ring', cut)
    <3>1. IsSealed(p, bucket[p], ring, cut) BY <2>1 DEF StoreInv, BucketSound
    <3>2. ring[p[1]].held \subseteq ring'[p[1]].held BY <1>2 DEF KeysGrow
    <3> QED BY <3>1, <3>2, SealedStays
  <2> QED BY <2>1, <1>1 DEF StoreInv, BucketSound
<1>4. CopySound'
  <2>1. CASE copy = Idle BY <2>1, <1>1 DEF CopySound
  <2>2. CASE copy # Idle
    <3>1. /\ copy = [pc |-> "upload", key |-> copy.key, rings |-> copy.rings]
          /\ copy.key \in Key /\ Earlier(copy.rings)
          BY <2>2 DEF StoreInv, CopySound
    <3>2. PICK c : c = copy.rings OBVIOUS
    <3>3. Earlier(c)' BY <3>1, <3>2, EarlierStays DEF StoreInv
    <3>4. c = copy'.rings BY <3>2, <1>1
    <3>5. Earlier(copy.rings)' BY <3>3, <3>4 DEF Earlier
    <3> QED BY <3>1, <3>5, <1>1 DEF CopySound
  <2> QED BY <2>1, <2>2
<1>5. SweepSound'
  <2>1. CASE sweep = Idle BY <2>1, <1>1 DEF SweepSound
  <2>2. CASE sweep # Idle
    <3>1. Earlier(sweep.rings)
          BY <2>2 DEF StoreInv, SweepSound
    <3>2. PICK c : c = sweep.rings OBVIOUS
    <3>3. Earlier(c)' BY <3>1, <3>2, EarlierStays DEF StoreInv
    <3>4. c = sweep'.rings BY <3>2, <1>1
    <3>5. Earlier(sweep.rings)' BY <3>3, <3>4 DEF Earlier
    <3> QED BY <2>2, <3>5, <1>1 DEF StoreInv, SweepSound
  <2> QED BY <2>1, <2>2
<1>6. Retired'
      BY <1>1 DEF StoreInv, Retired
<1> QED BY <1>3, <1>4, <1>5, <1>6

\* A replica that has served since the gate keeps what it holds, and moves on
\* to newer keys only.
LEMMA KeysStepGated ==
    ASSUME StoreInv, KeysStep, TypeOK', KeysGrow
    PROVE  Gated'
<1>1. UNCHANGED sweep /\ steady' \subseteq steady
      BY DEF KeysStep, KeyStep, MintScope, RotateHold, RotatePush, RotateActivate,
             HandOver, Restart, Reseed
<1>2. SUFFICES ASSUME NEW r \in steady', r \in sweep.asked
               PROVE  /\ sweep.rings["app"].active \in replica'[r].held
                      /\ sweep.rings["app"].active <= replica'[r].active
      BY <1>1 DEF StoreInv, Gated
<1>3. /\ sweep.rings["app"].active \in replica[r].held
      /\ sweep.rings["app"].active <= replica[r].active
      /\ sweep.pc # "idle"
      /\ r \in Replica /\ replica \in [Replica -> Ring] /\ bundle \in Ring /\ ring \in [Space -> Ring]
      BY <1>1, <1>2 DEF StoreInv, Gated, TypeOK
<1>4. /\ sweep.rings["app"].active <= ring["app"].active
      /\ sweep.rings["app"].active \in Nat /\ ring["app"].active \in Nat
  <2>1. Earlier(sweep.rings) /\ "app" \in Space
        BY <1>3 DEF StoreInv, SweepSound, Idle, Space
  <2> QED BY <2>1, <1>3 DEF Earlier, Ring
<1>5. replica[r].held \subseteq ring["app"].held /\ replica[r] # NoRing
      BY <1>3 DEF StoreInv, ServedSound, NoRing
<1>6. CASE MintScope
      BY <1>3, <1>5, <1>6 DEF MintScope, HasScope
<1>7. CASE RotatePush
  <2>1. PICK a \in Nat, h \in SUBSET Nat : replica[r] = [active |-> a, held |-> h]
        BY <1>3 DEF Ring
  <2>2. replica'[r] = [replica[r] EXCEPT !.held = @ \union ring["app"].held]
        BY <1>3, <1>7 DEF RotatePush
  <2> QED BY <1>3, <2>1, <2>2
<1>8. CASE UNCHANGED replica
      BY <1>3, <1>8
<1>9. ASSUME NEW q \in Replica, HandOver(q)
      PROVE  /\ sweep.rings["app"].active \in replica'[r].held
             /\ sweep.rings["app"].active <= replica'[r].active
  <2>1. replica'[r] = IF r = q THEN ring["app"] ELSE replica[r]
        BY <1>3, <1>9 DEF HandOver
  <2> QED BY <2>1, <1>3, <1>4, <1>5
<1>10. ASSUME NEW q \in Replica, Restart(q)
       PROVE  replica'[r] = replica[r]
       BY <1>2, <1>3, <1>10 DEF Restart
<1>11. ASSUME NEW q \in Replica, Reseed(q)
       PROVE  replica'[r] = replica[r]
       BY <1>3, <1>5, <1>11 DEF Reseed
<1> QED BY <1>3, <1>6, <1>7, <1>8, <1>9, <1>10, <1>11 DEF KeysStep, RotateHold, RotateActivate

-----------------------------------------------------------------------------
(* Objects *)

\* A step that leaves the keys leaves what a command made of them.
LEMMA CommandsStay ==
    ASSUME StoreInv, UNCHANGED keyVars
    PROVE  /\ \A rings : Earlier(rings) => Earlier(rings)'
           /\ UNCHANGED copy => CopySound'
           /\ UNCHANGED <<sweep, cut>> => SweepSound'
           /\ UNCHANGED <<sweep, steady>> => Gated'
<1>1. ring' = ring /\ replica' = replica BY DEF keyVars
<1>2. \A rings : Earlier(rings) => Earlier(rings)'
      BY <1>1 DEF Earlier
<1>3. ASSUME UNCHANGED copy PROVE CopySound'
      BY <1>1, <1>3 DEF StoreInv, CopySound, Earlier
<1>4. ASSUME UNCHANGED <<sweep, cut>> PROVE SweepSound'
      BY <1>1, <1>4 DEF StoreInv, SweepSound, Earlier
<1>5. ASSUME UNCHANGED <<sweep, steady>> PROVE Gated'
      BY <1>1, <1>5 DEF StoreInv, Gated
<1> QED BY <1>2, <1>3, <1>4, <1>5

\* An object written under a key of the space that names it.
LEMMA StoreSound ==
    ASSUME StoreInv, UNCHANGED keyVars, UNCHANGED cut, NEW p \in Place, NEW k \in ring[p[1]].held, Store(p, k)
    PROVE  /\ BucketSound' /\ written' \in 0 .. MaxWrites
           /\ bucket'[p].kek[2] = k
           /\ \A q \in Place : q # p => bucket'[q] = bucket[q]
<1>1. PICK n \in 1 .. MaxWrites : n = written + 1 /\ written' = n
      BY StoreAssumption DEF StoreInv, TypeOK, Store
<1>2. bucket' = [bucket EXCEPT ![p] = Sealed(p, n, k)] /\ ring' = ring
      BY <1>1 DEF Store, Sealed, keyVars
<1>3. DOMAIN bucket = Place /\ \A q \in Place : bucket[q] # Absent => IsSealed(q, bucket[q], ring, cut)
      BY DEF StoreInv, BucketSound
<1>4. /\ DOMAIN bucket' = Place /\ bucket'[p] = Sealed(p, n, k)
      /\ \A q \in Place : q # p => bucket'[q] = bucket[q]
      BY <1>2, <1>3
<1>5. IsSealed(p, Sealed(p, n, k), ring, cut)
      BY DEF IsSealed
<1>6. BucketSound'
      BY <1>2, <1>3, <1>4, <1>5 DEF BucketSound
<1>7. bucket'[p].kek[2] = k
      BY <1>4 DEF Sealed, Seal
<1> QED BY <1>1, <1>4, <1>6, <1>7, StoreAssumption

\* Objects that go leave the others.
LEMMA DeleteSound ==
    ASSUME StoreInv, UNCHANGED <<keyVars, sweep, stray, cut>>, DOMAIN bucket' = Place,
           \A q \in Place : bucket'[q] \in {bucket[q], Absent}
    PROVE  BucketSound' /\ Retired'
<1>1. ring' = ring BY DEF keyVars
<1>2. BucketSound'
      BY <1>1 DEF StoreInv, BucketSound
<1>3. Retired'
  <2>1. sweep.pc # "idle" => sweep.aim \subseteq Place
        BY DEF StoreInv, SweepSound, Idle
  <2> QED BY <2>1 DEF StoreInv, Retired
<1> QED BY <1>2, <1>3

\* An application's place, and the instance's own.
LEMMA Places ==
    /\ \A key \in AppKey : <<"app", key>> \in Place /\ <<"app", key>>[1] = "app"
    /\ \A key \in Key : <<"master", key>> \in Place /\ <<"master", key>>[1] = "master"
    /\ \A rings : \A key \in Key : PlaceFor(rings, key) \in Place
<1>1. \A key \in AppKey : <<"app", key>> \in Place /\ <<"app", key>>[1] = "app"
      BY StoreAssumption DEF Place, Space
<1>2. \A key \in Key : <<"master", key>> \in Place /\ <<"master", key>>[1] = "master"
      BY DEF Place, Space
<1>3. \A rings : \A key \in Key : PlaceFor(rings, key) \in Place
      BY <1>1, <1>2 DEF PlaceFor, StoreFor
<1> QED BY <1>1, <1>2, <1>3

\* An application writes and deletes in its scope.
LEMMA AppStepSound ==
    ASSUME StoreInv, AppStep
    PROVE  StoreInv'
<1>1. PICK r \in Replica, key \in Key : AppWrite(r, key) \/ AppDelete(r, key)
      BY DEF AppStep
<1>2. UNCHANGED keyVars /\ UNCHANGED <<sweep, copy, steady, cut>>
      BY <1>1 DEF AppWrite, AppDelete
<1>3. RingsSound' /\ ServedSound'
      BY <1>2, KeysStay DEF StoreInv
<1>4. CopySound' /\ SweepSound' /\ Gated'
      BY <1>2, CommandsStay
<1>5. PICK p : p = <<"app", key>> OBVIOUS
<1>6. CASE AppWrite(r, key)
  <2>1. /\ replica[r] # NoRing /\ key \in AppKey /\ Store(p, replica[r].active)
        /\ Strays(p, r \notin steady)
        BY <1>5, <1>6 DEF AppWrite
  <2>2. p \in Place /\ p[1] = "app"
        BY <1>5, <2>1, Places
  <2>3. replica[r].active \in ring[p[1]].held
        BY <2>1, <2>2 DEF StoreInv, ServedSound, Uses
  <2>4. /\ BucketSound' /\ written' \in 0 .. MaxWrites
        /\ bucket'[p].kek[2] = replica[r].active
        /\ \A q \in Place : q # p => bucket'[q] = bucket[q]
        BY <1>2, <2>1, <2>2, <2>3, StoreSound
  <2>5. stray' = IF sweep.pc # "idle" /\ p \in sweep.aim \ sweep.todo /\ r \notin steady THEN stray \union {p} ELSE stray
        BY <2>1 DEF Strays, Sweeping
  <2>6. TypeOK'
        BY <1>2, <2>2, <2>4, <2>5 DEF StoreInv, TypeOK, keyVars
  <2>7. Retired'
    <3>1. SUFFICES ASSUME sweep.pc # "idle", NEW q \in sweep.aim \ (sweep.todo \union stray'),
                          bucket'[q] # Absent
                   PROVE  bucket'[q].kek[2] >= sweep.rings[q[1]].active
          BY <1>2 DEF Retired
    <3>2. q \in Place
          BY <3>1 DEF StoreInv, SweepSound, Idle
    <3>3. CASE q # p
          BY <3>1, <3>2, <3>3, <2>4, <2>5 DEF StoreInv, Retired
    <3>4. CASE q = p
      <4>1. r \in steady /\ r \in sweep.asked
        <5>1. p \in sweep.aim \ sweep.todo BY <3>1, <3>4
        <5>2. sweep.asked = Replica BY <5>1, <3>1, <2>2 DEF StoreInv, SweepSound, Idle, Touched
        <5> QED BY <5>1, <5>2, <3>1, <3>4, <2>5
      <4>2. sweep.rings["app"].active <= replica[r].active
            BY <4>1, <3>1, <3>4, <2>2 DEF StoreInv, Gated
      <4>3. sweep.rings["app"].active \in Nat /\ replica[r].active \in Nat
        <5>1. Earlier(sweep.rings) BY <3>1 DEF StoreInv, SweepSound, Idle
        <5> QED BY <5>1 DEF StoreInv, TypeOK, Earlier, Ring, Space
      <4> QED BY <4>2, <4>3, <3>4, <2>2, <2>4
    <3> QED BY <3>3, <3>4
  <2> QED BY <1>3, <1>4, <2>4, <2>6, <2>7 DEF StoreInv
<1>7. CASE AppDelete(r, key)
  <2>1. /\ key \in AppKey /\ bucket' = [bucket EXCEPT ![p] = Absent]
        /\ UNCHANGED <<written, stray>>
        BY <1>5, <1>7 DEF AppDelete
  <2>2. DOMAIN bucket' = Place /\ \A q \in Place : bucket'[q] \in {bucket[q], Absent}
        BY <2>1 DEF StoreInv, BucketSound
  <2>3. BucketSound' /\ Retired'
        BY <1>2, <2>1, <2>2, DeleteSound
  <2>4. TypeOK'
        BY <1>2, <2>1 DEF StoreInv, TypeOK, keyVars
  <2> QED BY <1>3, <1>4, <2>3, <2>4 DEF StoreInv
<1> QED BY <1>1, <1>6, <1>7

\* The operator's uploads, deletes and downloads.
LEMMA CopyStepSound ==
    ASSUME StoreInv, CopyStep
    PROVE  StoreInv'
<1>1. UNCHANGED keyVars /\ UNCHANGED <<sweep, steady, cut>>
      BY DEF CopyStep, Download, Rm, RmPrefix, UploadBegin, UploadWrite
<1>2. RingsSound' /\ ServedSound'
      BY <1>1, KeysStay DEF StoreInv
<1>3. SweepSound' /\ Gated' /\ (UNCHANGED copy => CopySound')
      BY <1>1, CommandsStay
<1>4. ASSUME UNCHANGED <<copy, written, stray>>, DOMAIN bucket' = Place,
             \A q \in Place : bucket'[q] \in {bucket[q], Absent}
      PROVE  StoreInv'
  <2>1. BucketSound' /\ Retired'
        BY <1>1, <1>4, DeleteSound
  <2>2. TypeOK'
        BY <1>1, <1>4 DEF StoreInv, TypeOK, keyVars
  <2> QED BY <1>2, <1>3, <1>4, <2>1, <2>2 DEF StoreInv
<1>5. DOMAIN bucket = Place BY DEF StoreInv, BucketSound
<1>6. ASSUME NEW key \in Key, Download(key)
      PROVE  StoreInv'
      BY <1>4, <1>5, <1>6 DEF Download
<1>7. ASSUME NEW key \in Key, Rm(key)
      PROVE  StoreInv'
  <2>1. DOMAIN bucket' = Place /\ \A q \in Place : bucket'[q] \in {bucket[q], Absent}
        BY <1>5, <1>7 DEF Rm
  <2> QED BY <1>4, <1>7, <2>1 DEF Rm
<1>8. ASSUME NEW prefix \in Prefix, RmPrefix(prefix)
      PROVE  StoreInv'
  <2>1. DOMAIN bucket' = Place /\ \A q \in Place : bucket'[q] \in {bucket[q], Absent}
        BY <1>5, <1>8 DEF RmPrefix
  <2> QED BY <1>4, <1>8, <2>1 DEF RmPrefix
<1>9. ASSUME NEW key \in Key, NEW force \in BOOLEAN, UploadBegin(key, force)
      PROVE  StoreInv'
  <2>1. copy' = [pc |-> "upload", key |-> key, rings |-> ring] /\ UNCHANGED <<bucket, written, stray>>
        BY <1>9 DEF UploadBegin
  <2>2. Earlier(ring)
        BY EarlierNow DEF StoreInv
  <2>3. copy'.rings = ring /\ copy'.key = key
        BY <2>1
  <2>4. ring' = ring BY <1>1 DEF keyVars
  <2>5. Earlier(copy.rings)'
        BY <2>2, <2>3, <2>4 DEF Earlier
  <2>6. CopySound'
        BY <2>1, <2>3, <2>5 DEF CopySound
  <2>7. BucketSound' /\ Retired'
        BY <1>1, <1>5, <2>1, DeleteSound
  <2>8. TypeOK'
        BY <1>1, <2>1 DEF StoreInv, TypeOK, keyVars
  <2> QED BY <1>2, <1>3, <2>6, <2>7, <2>8 DEF StoreInv
<1>10. ASSUME UploadWrite
       PROVE  StoreInv'
  <2>1. /\ copy.pc = "upload" /\ copy' = Idle
        /\ copy.key \in Key /\ Earlier(copy.rings)
        BY <1>10 DEF UploadWrite, StoreInv, CopySound, Idle
  <2>2. PICK p \in Place : p = PlaceFor(copy.rings, copy.key)
        BY <2>1, Places
  <2>3. PICK k : k = copy.rings[p[1]].active OBVIOUS
  <2>4. Store(p, k) /\ Strays(p, TRUE)
        BY <1>10, <2>2, <2>3 DEF UploadWrite
  <2>5. k \in ring[p[1]].held
    <3>1. p[1] \in Space /\ copy.rings[p[1]] # NoRing
      <4>1. p[1] = StoreFor(copy.rings, copy.key)
            BY <2>2 DEF PlaceFor
      <4>2. CASE p[1] = "app"
            BY <4>1, <4>2 DEF StoreFor, HasScope, NoRing, Space
      <4>3. CASE p[1] = "master"
            BY <4>3, <2>1 DEF Earlier, Space
      <4> QED BY <4>1, <4>2, <4>3 DEF StoreFor
    <3> QED BY <3>1, <2>1, <2>3 DEF Earlier, Uses
  <2>6. /\ BucketSound' /\ written' \in 0 .. MaxWrites
        /\ \A q \in Place : q # p => bucket'[q] = bucket[q]
        BY <1>1, <2>4, <2>5, StoreSound
  <2>7. stray' = IF sweep.pc # "idle" /\ p \in sweep.aim \ sweep.todo THEN stray \union {p} ELSE stray
        BY <2>4 DEF Strays, Sweeping
  <2>8. TypeOK'
        BY <1>1, <2>6, <2>7 DEF StoreInv, TypeOK, keyVars
  <2>9. Retired'
    <3>1. SUFFICES ASSUME sweep.pc # "idle", NEW q \in sweep.aim \ (sweep.todo \union stray'),
                          bucket'[q] # Absent
                   PROVE  bucket'[q].kek[2] >= sweep.rings[q[1]].active
          BY <1>1 DEF Retired
    <3>2. q \in Place /\ q # p
          BY <3>1, <2>7 DEF StoreInv, SweepSound, Idle
    <3> QED BY <3>1, <3>2, <2>6, <2>7 DEF StoreInv, Retired
  <2>10. CopySound' BY <2>1 DEF CopySound
  <2> QED BY <1>2, <1>3, <2>6, <2>8, <2>9, <2>10 DEF StoreInv
<1> QED BY <1>6, <1>7, <1>8, <1>9, <1>10 DEF CopyStep

\* What an object at p says of the key that sealed it.
LEMMA SealedKey ==
    ASSUME NEW p \in Place, NEW blob, NEW rings, NEW cuts, IsSealed(p, blob, rings, cuts)
    PROVE  /\ \E k \in rings[p[1]].held : blob.kek = <<p[1], k>>
           /\ blob.name.space = p[1]
<1>1. PICK n \in 1 .. MaxWrites, k \in rings[p[1]].held : OfWrite(p, n, k, blob)
      BY DEF IsSealed, OfWrite
<1>2. blob.kek = <<p[1], k>> /\ blob.name.space = p[1] BY <1>1, SealedFields
<1> QED BY <1>2

\* A sweep that misses nothing lists everything that is stored under its prefix,
\* in whichever space: the application's, or the instance's own from before it
\* had one.
LEMMA ListsAll ==
    ASSUME StoreInv, NEW prefix \in Prefix, NEW missed
    PROVE  /\ {p \in Present : p[2] \in Under(prefix)} \subseteq ListForRekey(ring, prefix, {})
           /\ ListForRekey(ring, prefix, missed) \subseteq Present
           /\ Touched(Present) => ring["app"] # NoRing
<1>1. \A p \in Present : p \in Place /\ bucket[p].name.space = p[1] /\ ring[p[1]].held # {}
                         /\ p[1] \in Space /\ (p[1] = "app" => p[2] \in AppKey)
  <2>1. TAKE p \in Present
  <2>2. p \in Place /\ bucket[p] # Absent BY DEF Present
  <2>3. IsSealed(p, bucket[p], ring, cut) BY <2>2 DEF StoreInv, BucketSound
  <2> QED BY <2>2, <2>3, SealedKey DEF Place
<1>2. ASSUME NEW p \in Present, p[2] \in Under(prefix)
      PROVE  p \in ListForRekey(ring, prefix, {})
  <2>1. p \in ListEntries(p[1], prefix) /\ p[1] \in KeySpaces(ring)
        BY <1>1, <1>2 DEF ListEntries, KeySpaces
  <2>2. p[1] = "master" \/ SpaceCanHold(ring, p[1], prefix)
        BY <1>1, <1>2 DEF SpaceCanHold, Under, Prefix, Space
  <2> QED BY <2>1, <2>2 DEF ListForRekey
<1>3. ListForRekey(ring, prefix, missed) \subseteq Present
      BY DEF ListForRekey, ListEntries
<1>4. Touched(Present) => ring["app"] # NoRing
      BY <1>1 DEF Touched, NoRing
<1> QED BY <1>2, <1>3, <1>4

\* A listing and the replicas' answers.
LEMMA RekeyGateSound ==
    ASSUME StoreInv,
           \/ \E prefix \in Prefix, missed \in SUBSET Present : RekeyList(prefix, missed)
           \/ \E r \in Replica : RekeyAsk(r)
    PROVE  StoreInv'
<1>1. UNCHANGED keyVars /\ UNCHANGED <<bucket, copy, written, stray, cut>>
      BY DEF RekeyList, RekeyAsk
<1>2. RingsSound' /\ ServedSound' /\ CopySound' /\ \A rings : Earlier(rings) => Earlier(rings)'
  <2>1. RingsSound' /\ ServedSound' BY <1>1, KeysStay DEF StoreInv
  <2>2. CopySound' /\ \A rings : Earlier(rings) => Earlier(rings)' BY <1>1, CommandsStay
  <2> QED BY <2>1, <2>2
<1>3. ring' = ring /\ replica' = replica BY <1>1 DEF keyVars
<1>4. ASSUME steady' \subseteq Replica PROVE TypeOK'
      BY <1>1, <1>4 DEF StoreInv, TypeOK, keyVars
<1>5. BucketSound'
      BY <1>1, <1>3 DEF StoreInv, BucketSound
<1>6. ASSUME NEW prefix \in Prefix, NEW missed \in SUBSET Present, RekeyList(prefix, missed)
      PROVE  StoreInv'
  <2>1. PICK listed : listed = ListForRekey(ring, prefix, missed) OBVIOUS
  <2>2. PICK aim : aim = IF missed = {} THEN {p \in Present : p[2] \in Under(prefix)} ELSE {} OBVIOUS
  <2>3. /\ sweep' = [pc |-> "next", rings |-> ring, todo |-> listed, aim |-> aim, asked |-> {},
                     reading |-> Absent]
        /\ steady' \subseteq Replica
        BY <1>6, <2>1, <2>2 DEF RekeyList
  <2>4. aim \subseteq listed /\ listed \subseteq Present /\ Present \subseteq Place
        /\ (Touched(listed) => ring["app"] # NoRing)
    <3>1. aim \subseteq listed /\ listed \subseteq Present BY <2>1, <2>2, ListsAll
    <3>2. Touched(listed) => Touched(Present) BY <3>1 DEF Touched
    <3> QED BY <3>1, <3>2, ListsAll DEF Present
  <2>5. /\ sweep'.pc = "next" /\ sweep'.rings = ring /\ sweep'.todo = listed
        /\ sweep'.aim = aim /\ sweep'.asked = {} /\ sweep'.reading = Absent
        BY <2>3
  <2>6. Earlier(sweep.rings)'
        BY <1>3, <2>5, EarlierNow DEF StoreInv, Earlier
  <2>7. SweepSound'
    <3>1. ~Touched(aim \ listed) BY <2>4 DEF Touched
    <3> QED BY <2>3, <2>4, <2>5, <2>6, <3>1 DEF SweepSound
  <2>8. Retired' /\ Gated'
        BY <2>4, <2>5 DEF Retired, Gated
  <2> QED BY <1>2, <1>4, <1>5, <2>3, <2>7, <2>8 DEF StoreInv
<1>7. ASSUME NEW r \in Replica, RekeyAsk(r)
      PROVE  StoreInv'
  <2>1. PICK s : s = sweep OBVIOUS
  <2>2. /\ s.pc = "next" /\ Touched(s.todo) /\ replica[r] = s.rings["app"]
        /\ sweep' = [s EXCEPT !.asked = s.asked \union {r}] /\ steady' = steady \union {r}
        BY <1>7, <2>1 DEF RekeyAsk, ReplicaAgrees
  <2>3. /\ s = [pc |-> s.pc, rings |-> s.rings, todo |-> s.todo, aim |-> s.aim, asked |-> s.asked,
                reading |-> s.reading]
        /\ Earlier(s.rings) /\ s.todo \subseteq Place /\ s.aim \subseteq Place
        /\ s.rings["app"] # NoRing
        /\ Touched(s.aim \ s.todo) => s.asked = Replica
        BY <2>1, <2>2 DEF StoreInv, SweepSound, Idle
  <2>4. PICK t : t = s.asked \union {r} OBVIOUS
  <2>5. sweep' = [pc |-> "next", rings |-> s.rings, todo |-> s.todo, aim |-> s.aim, asked |-> t,
                  reading |-> s.reading]
        BY <2>2, <2>3, <2>4
  <2>6. /\ sweep'.pc = "next" /\ sweep'.rings = s.rings /\ sweep'.todo = s.todo
        /\ sweep'.aim = s.aim /\ sweep'.asked = t /\ sweep'.reading = s.reading
        BY <2>5
  <2>7. Earlier(sweep.rings)'
        BY <1>3, <2>3, <2>6 DEF Earlier
  <2>8. Touched(s.aim \ s.todo) => t = Replica
        BY <2>3, <2>4
  <2>9. SweepSound'
        BY <2>3, <2>5, <2>6, <2>7, <2>8 DEF SweepSound
  <2>10. s.rings["app"].active \in replica[r].held /\ s.rings["app"].active <= replica[r].active
         BY <2>2, <2>3 DEF Earlier, Uses, Ring, Space
  <2>11. Gated'
    <3>1. ASSUME NEW q \in steady', q \in t
          PROVE  /\ s.rings["app"].active \in replica[q].held
                 /\ s.rings["app"].active <= replica[q].active
      <4>1. CASE q = r BY <4>1, <2>10
      <4>2. CASE q # r
        <5>1. q \in steady /\ q \in sweep.asked BY <4>2, <3>1, <2>1, <2>2, <2>4
        <5> QED BY <5>1, <2>1 DEF StoreInv, Gated
      <4> QED BY <4>1, <4>2
    <3> QED BY <3>1, <1>3, <2>6 DEF Gated
  <2>12. Retired'
         BY <1>1, <2>1, <2>2, <2>6 DEF StoreInv, Retired
  <2>13. steady' \subseteq Replica BY <2>2 DEF StoreInv, TypeOK
  <2> QED BY <1>2, <1>4, <1>5, <2>9, <2>11, <2>12, <2>13 DEF StoreInv
<1> QED BY <1>6, <1>7

\* The rekey command.
LEMMA RekeyStepSound ==
    ASSUME StoreInv, RekeyStep
    PROVE  StoreInv'
<1>1. ASSUME \/ \E p \in Place : RekeyRead(p)
             \/ RekeyPut \/ RekeyStop
      PROVE  UNCHANGED keyVars /\ UNCHANGED <<copy, written>>
      BY <1>1 DEF RekeyRead, RekeyPut, RekeyStop
<1>2. ASSUME UNCHANGED keyVars, UNCHANGED <<copy, written>>
      PROVE  /\ RingsSound' /\ ServedSound' /\ CopySound' /\ (\A rings : Earlier(rings) => Earlier(rings)')
             /\ ring' = ring /\ replica' = replica
             /\ (stray' \subseteq Place /\ steady' \subseteq Replica /\ cut' \subseteq 1 .. MaxWrites => TypeOK')
             /\ (UNCHANGED <<bucket, cut>> => BucketSound')
  <2>1. RingsSound' /\ ServedSound' BY <1>2, KeysStay DEF StoreInv
  <2>2. CopySound' /\ \A rings : Earlier(rings) => Earlier(rings)' BY <1>2, CommandsStay
  <2>3. ring' = ring /\ replica' = replica BY <1>2 DEF keyVars
  <2>4. ASSUME stray' \subseteq Place, steady' \subseteq Replica, cut' \subseteq 1 .. MaxWrites PROVE TypeOK'
        BY <1>2, <2>4 DEF StoreInv, TypeOK, keyVars
  <2>5. ASSUME UNCHANGED <<bucket, cut>> PROVE BucketSound'
        BY <2>3, <2>5 DEF StoreInv, BucketSound
  <2> QED BY <2>1, <2>2, <2>3, <2>4, <2>5
<1>5. stray \subseteq Place /\ steady \subseteq Replica /\ cut \subseteq 1 .. MaxWrites
      BY DEF StoreInv, TypeOK
<1>8. ASSUME UNCHANGED keyVars, UNCHANGED <<copy, written>>,
             NEW rg, NEW t, NEW a, NEW k, NEW x, NEW pc \in {"next", "put"},
             sweep.pc # "idle", rg = sweep.rings, a = sweep.aim, k = sweep.asked, t \subseteq sweep.todo,
             sweep' = [pc |-> pc, rings |-> rg, todo |-> t, aim |-> a, asked |-> k, reading |-> x],
             Touched(sweep.todo \ t) => k = Replica,
             pc = "put" => /\ x.at \in t /\ IsSealed(x.at, x.blob, rg, cut')
                           /\ x.at[1] = "app" => k = Replica,
             UNCHANGED <<stray, steady>>, cut' \subseteq 1 .. MaxWrites
      PROVE  TypeOK' /\ SweepSound' /\ Gated'
  <2>0. ring' = ring /\ replica' = replica BY <1>8 DEF keyVars
  <2>1. /\ sweep'.pc = pc /\ sweep'.rings = rg /\ sweep'.todo = t
        /\ sweep'.aim = a /\ sweep'.asked = k /\ sweep'.reading = x
        BY <1>8
  <2>2. /\ Earlier(sweep.rings) /\ sweep.todo \subseteq Place /\ sweep.aim \subseteq Place
        /\ Touched(sweep.todo) => sweep.rings["app"] # NoRing
        /\ Touched(sweep.aim \ sweep.todo) => sweep.asked = Replica
        BY <1>8 DEF StoreInv, SweepSound, Idle
  <2>3. Earlier(sweep.rings)'
        BY <1>8, <2>0, <2>1, <2>2 DEF Earlier
  <2>4. (Touched(t) => rg["app"] # NoRing) /\ (Touched(a \ t) => k = Replica)
        BY <1>8, <2>2 DEF Touched
  <2>5. SweepSound'
        BY <1>8, <2>1, <2>2, <2>3, <2>4 DEF SweepSound
  <2>6. Gated'
        BY <1>8, <2>0, <2>1 DEF StoreInv, Gated
  <2>7. TypeOK' BY <1>2, <1>5, <1>8
  <2> QED BY <2>5, <2>6, <2>7
<1>9. ASSUME sweep.pc # "idle"
      PROVE  /\ sweep = [pc |-> sweep.pc, rings |-> sweep.rings, todo |-> sweep.todo,
                         aim |-> sweep.aim, asked |-> sweep.asked, reading |-> sweep.reading]
             /\ Earlier(sweep.rings) /\ sweep.todo \subseteq Place /\ sweep.aim \subseteq Place
      BY <1>9 DEF StoreInv, SweepSound, Idle
<1>10. ASSUME NEW p \in Place, RekeyRead(p)
       PROVE  StoreInv'
  <2>0. UNCHANGED keyVars /\ UNCHANGED <<copy, written>> BY <1>1, <1>10
  <2>1. /\ sweep.pc = "next" /\ p \in sweep.todo /\ GateOpen /\ bucket[p] # Absent
        /\ Unwraps({<<p[1], n>> : n \in sweep.rings[p[1]].held}, bucket[p])
        /\ UNCHANGED <<bucket, stray, steady, cut>> /\ sweep.pc # "idle"
        BY <1>10 DEF RekeyRead
  <2>2. PICK n \in 1 .. MaxWrites, k \in ring[p[1]].held :
          bucket[p] = Sealed(p, n, k) \/ (n \in cut /\ Part(p, n, k, bucket[p]))
        BY <2>1 DEF StoreInv, BucketSound, IsSealed
  <2>11. PICK b : b = bucket[p] OBVIOUS
  <2>12. OfWrite(p, n, k, b) BY <2>2, <2>11 DEF OfWrite
  <2>3. bucket[p].kek = <<p[1], k>> BY <2>11, <2>12, SealedFields
  <2>4. k \in sweep.rings[p[1]].held
        BY <2>1, <2>3 DEF Unwraps
  <2>5. IsSealed(p, bucket[p], sweep.rings, cut')
        BY <2>1, <2>2, <2>4 DEF IsSealed
  <2>6. PICK s : s = sweep OBVIOUS
  <2>7. s = [pc |-> s.pc, rings |-> s.rings, todo |-> s.todo, aim |-> s.aim, asked |-> s.asked,
             reading |-> s.reading]
        BY <1>9, <2>1, <2>6
  <2>10. p[1] = "app" => s.asked = Replica
        BY <2>1, <2>6 DEF GateOpen, Touched
  <2>8. CASE bucket[p].kek = RekeyKey(p)
    <3>1. sweep' = [s EXCEPT !.todo = s.todo \ {p}]
          BY <1>10, <2>6, <2>8 DEF RekeyRead
    <3>2. PICK t : t = s.todo \ {p} OBVIOUS
    <3>3. sweep' = [pc |-> "next", rings |-> s.rings, todo |-> t, aim |-> s.aim, asked |-> s.asked,
                    reading |-> s.reading]
          BY <2>1, <2>6, <2>7, <3>1, <3>2
    <3>4. t \subseteq sweep.todo /\ (Touched(sweep.todo \ t) => s.asked = Replica)
          BY <2>6, <2>10, <3>2 DEF Touched
    <3>5. TypeOK' /\ SweepSound' /\ Gated'
      <4>1. cut' \subseteq 1 .. MaxWrites /\ stray' = stray /\ steady' = steady BY <1>5, <2>1
      <4> QED BY <1>8, <2>0, <2>1, <2>6, <3>3, <3>4, <4>1
    <3>6. Retired'
      <4>1. bucket[p].kek[2] = sweep.rings[p[1]].active
            BY <2>8 DEF RekeyKey
      <4>2. sweep.rings[p[1]].active \in Nat
            BY <1>9, <2>1 DEF Earlier, Ring, Place
      <4>3. sweep'.pc = "next" /\ sweep'.rings = sweep.rings /\ sweep'.todo = sweep.todo \ {p}
            /\ sweep'.aim = sweep.aim
            BY <2>6, <3>2, <3>3
      <4>4. SUFFICES ASSUME NEW q \in sweep.aim \ ((sweep.todo \ {p}) \union stray), bucket[q] # Absent
                     PROVE  bucket[q].kek[2] >= sweep.rings[q[1]].active
            BY <2>1, <4>3 DEF Retired
      <4>5. CASE q = p BY <4>1, <4>2, <4>5
      <4>6. CASE q # p BY <4>4, <4>6, <2>1 DEF StoreInv, Retired
      <4> QED BY <4>5, <4>6
    <3> QED BY <1>2, <2>0, <2>1, <3>5, <3>6 DEF StoreInv
  <2>9. CASE bucket[p].kek # RekeyKey(p)
    <3>1. sweep' = [s EXCEPT !.pc = "put", !.reading = [at |-> p, blob |-> bucket[p]]]
          BY <1>10, <2>6, <2>9 DEF RekeyRead
    <3>2. PICK x : x = [at |-> p, blob |-> bucket[p]] OBVIOUS
    <3>3. x.at = p /\ x.blob = bucket[p] BY <3>2
    <3>4. sweep' = [pc |-> "put", rings |-> s.rings, todo |-> s.todo, aim |-> s.aim, asked |-> s.asked,
                    reading |-> x]
          BY <2>7, <3>1, <3>2
    <3>5. TypeOK' /\ SweepSound' /\ Gated'
      <4>1. cut' \subseteq 1 .. MaxWrites /\ stray' = stray /\ steady' = steady BY <1>5, <2>1
      <4>2. ~Touched(sweep.todo \ s.todo) BY <2>6 DEF Touched
      <4>3. x.at \in s.todo /\ IsSealed(x.at, x.blob, s.rings, cut') /\ (x.at[1] = "app" => s.asked = Replica)
            BY <2>1, <2>5, <2>6, <2>10, <3>3
      <4> QED BY <1>8, <2>0, <2>1, <2>6, <3>4, <4>1, <4>2, <4>3
    <3>6. Retired'
          BY <2>1, <2>6, <3>4 DEF StoreInv, Retired
    <3> QED BY <1>2, <2>0, <2>1, <3>5, <3>6 DEF StoreInv
  <2> QED BY <2>8, <2>9
<1>11. ASSUME RekeyPut
       PROVE  StoreInv'
  <2>0. UNCHANGED keyVars /\ UNCHANGED <<copy, written>> BY <1>1, <1>11
  <2>1. PICK s : s = sweep OBVIOUS
  <2>2. /\ s = [pc |-> s.pc, rings |-> s.rings, todo |-> s.todo, aim |-> s.aim, asked |-> s.asked,
                reading |-> s.reading]
        /\ sweep.pc # "idle"
        BY <1>9, <1>11, <2>1 DEF RekeyPut
  <2>3. PICK p \in Place : /\ p = s.reading.at /\ p \in s.todo
                           /\ IsSealed(p, s.reading.blob, s.rings, cut)
                           /\ p[1] = "app" => s.asked = Replica
    <3>1. /\ sweep.reading.at \in sweep.todo /\ sweep.todo \subseteq Place
          /\ IsSealed(sweep.reading.at, sweep.reading.blob, sweep.rings, cut)
          /\ sweep.reading.at[1] = "app" => sweep.asked = Replica
          BY <1>11 DEF RekeyPut, StoreInv, SweepSound, Idle
    <3> QED BY <2>1, <3>1
  <2>4. PICK b : b = s.reading.blob OBVIOUS
  <2>5. PICK n \in 1 .. MaxWrites, k \in s.rings[p[1]].held :
          b = Sealed(p, n, k) \/ (n \in cut /\ Part(p, n, k, b))
        BY <2>3, <2>4 DEF IsSealed
  <2>6. PICK a : a = s.rings[p[1]].active OBVIOUS
  <2>7. /\ \/ /\ bucket' = [bucket EXCEPT ![p] = Rewrapped(b, <<p[1], a>>)]
              /\ cut' = cut
           \/ /\ \E part \in CutOff(b) : bucket' = [bucket EXCEPT ![p] = Rewrapped(part, <<p[1], a>>)]
              /\ cut' = cut \union {b.dek}
        /\ sweep' = [s EXCEPT !.pc = "next", !.todo = s.todo \ {p}, !.reading = Absent]
        /\ UNCHANGED <<stray, steady>>
        BY <1>11, <2>1, <2>3, <2>4, <2>6 DEF RekeyPut, RekeyKey
  <2>18. OfWrite(p, n, k, b) BY <2>5 DEF OfWrite
  <2>8. b.dek = n BY <2>18, SealedFields
  <2>9. PICK new : /\ bucket' = [bucket EXCEPT ![p] = new]
                   /\ new = Sealed(p, n, a) \/ (n \in cut' /\ Part(p, n, a, new))
    <3>1. CASE bucket' = [bucket EXCEPT ![p] = Rewrapped(b, <<p[1], a>>)] /\ cut' = cut
      <4>1. PICK y : y = Rewrapped(b, <<p[1], a>>) OBVIOUS
      <4>2. y = Sealed(p, n, a) \/ (n \in cut /\ Part(p, n, a, y)) BY <2>5, <4>1, RewrapKeeps
      <4> QED BY <3>1, <4>1, <4>2
    <3>2. ASSUME NEW part \in CutOff(b), bucket' = [bucket EXCEPT ![p] = Rewrapped(part, <<p[1], a>>)],
                 cut' = cut \union {b.dek}
          PROVE  \E y : /\ bucket' = [bucket EXCEPT ![p] = y]
                        /\ y = Sealed(p, n, a) \/ (n \in cut' /\ Part(p, n, a, y))
      <4>1. PICK y : y = Rewrapped(part, <<p[1], a>>) OBVIOUS
      <4>2. Part(p, n, k, part) BY <2>5, CutIsPart
      <4>3. Part(p, n, a, y) BY <4>1, <4>2, RewrapKeeps
      <4> QED BY <3>2, <4>1, <4>3, <2>8
    <3> QED BY <2>7, <3>1, <3>2
  <2>10. cut \subseteq cut' /\ cut' \subseteq 1 .. MaxWrites
         BY <1>5, <2>7, <2>8
  <2>11. a \in ring[p[1]].held /\ a \in Nat
    <3>1. p[1] \in Space BY DEF Place
    <3>2. Earlier(s.rings) BY <1>9, <2>1, <2>2
    <3>3. s.rings[p[1]] # NoRing BY <2>5 DEF NoRing
    <3> QED BY <2>6, <3>1, <3>2, <3>3 DEF Earlier, Uses, Ring
  <2>12. /\ DOMAIN bucket = Place /\ DOMAIN bucket' = Place /\ bucket'[p] = new
         /\ \A q \in Place : q # p => bucket'[q] = bucket[q]
         BY <2>9 DEF StoreInv, BucketSound
  <2>13. BucketSound'
    <3>1. IsSealed(p, new, ring, cut') BY <2>9, <2>11 DEF IsSealed
    <3>2. ASSUME NEW q \in Place, bucket[q] # Absent PROVE IsSealed(q, bucket[q], ring, cut')
      <4>1. IsSealed(q, bucket[q], ring, cut) BY <3>2 DEF StoreInv, BucketSound
      <4> QED BY <4>1, <2>10, SealedStays
    <3>3. ring' = ring BY <2>0 DEF keyVars
    <3> QED BY <3>1, <3>2, <3>3, <2>12 DEF BucketSound
  <2>14. PICK t : t = s.todo \ {p} OBVIOUS
  <2>15. sweep' = [pc |-> "next", rings |-> s.rings, todo |-> t, aim |-> s.aim, asked |-> s.asked,
                   reading |-> Absent]
         BY <2>2, <2>7, <2>14
  <2>16. TypeOK' /\ SweepSound' /\ Gated'
    <3>1. t \subseteq sweep.todo /\ (Touched(sweep.todo \ t) => s.asked = Replica)
          BY <2>1, <2>3, <2>14 DEF Touched
    <3>2. stray' = stray /\ steady' = steady BY <2>7
    <3> QED BY <1>8, <2>0, <2>1, <2>2, <2>10, <2>15, <3>1, <3>2
  <2>17. Retired'
    <3>1. sweep'.pc = "next" /\ sweep'.rings = s.rings /\ sweep'.todo = s.todo \ {p}
          /\ sweep'.aim = s.aim
          BY <2>14, <2>15
    <3>2. SUFFICES ASSUME NEW q \in s.aim \ ((s.todo \ {p}) \union stray), bucket'[q] # Absent
                   PROVE  bucket'[q].kek[2] >= s.rings[q[1]].active
          BY <2>7, <3>1 DEF Retired
    <3>3. CASE q = p
      <4>0. OfWrite(p, n, a, new) BY <2>9 DEF OfWrite
      <4>1. new.kek = <<p[1], a>> BY <4>0, SealedFields
      <4> QED BY <2>6, <2>11, <2>12, <3>3, <4>1
    <3>4. CASE q # p
      <4>1. q \in Place BY <1>9, <2>1, <2>2
      <4> QED BY <4>1, <2>1, <2>2, <2>12, <3>2, <3>4 DEF StoreInv, Retired
    <3> QED BY <3>3, <3>4
  <2> QED BY <1>2, <2>0, <2>13, <2>16, <2>17 DEF StoreInv
<1>13. ASSUME RekeyStop
       PROVE  StoreInv'
  <2>0. UNCHANGED keyVars /\ UNCHANGED <<copy, written>> BY <1>1, <1>13
  <2>1. sweep' = Idle /\ stray' = {} /\ steady' = {} /\ UNCHANGED <<bucket, cut>>
        BY <1>13 DEF RekeyStop
  <2>2. sweep'.pc = "idle" BY <2>1 DEF Idle
  <2>3. SweepSound' /\ Gated' /\ Retired'
        BY <2>1, <2>2 DEF SweepSound, Gated, Retired
  <2>4. TypeOK' /\ BucketSound' BY <1>2, <1>5, <2>0, <2>1
  <2> QED BY <1>2, <2>0, <2>3, <2>4 DEF StoreInv
<1> QED BY <1>10, <1>11, <1>13, RekeyGateSound DEF RekeyStep

-----------------------------------------------------------------------------
(* Theorems *)

\* The inductive invariant holds at the start.
LEMMA StoreInvInit == Init => StoreInv
<1> SUFFICES ASSUME Init PROVE StoreInv OBVIOUS
<1>1. NoRing \in Ring /\ [active |-> 1, held |-> {1}] \in Ring /\ NoRing.held = {} /\ Uses(NoRing)
      BY DEF Ring, NoRing, Uses
<1>2. /\ ring["master"] = [active |-> 1, held |-> {1}] /\ ring["app"] = NoRing
      /\ ring \in [Space -> Ring]
      BY <1>1 DEF Init, Space
<1>3. TypeOK BY <1>1, <1>2, StoreAssumption DEF Init, TypeOK
<1>4. RingsSound BY <1>1, <1>2 DEF RingsSound, HasScope, Uses, Space
<1>5. ServedSound BY <1>1 DEF Init, ServedSound
<1>6. BucketSound /\ CopySound BY DEF Init, BucketSound, CopySound
<1>7. sweep = Idle /\ sweep.pc = "idle" BY DEF Init, Idle
<1>8. SweepSound /\ Gated /\ Retired BY <1>7 DEF Init, SweepSound, Gated, Retired
<1> QED BY <1>3, <1>4, <1>5, <1>6, <1>8 DEF StoreInv

\* And is kept by every step.
LEMMA StoreInvStep == StoreInv /\ [Next]_vars => StoreInv'
<1> SUFFICES ASSUME StoreInv, [Next]_vars PROVE StoreInv' OBVIOUS
<1>1. CASE AppStep BY <1>1, AppStepSound
<1>2. CASE KeysStep
  <2>1. TypeOK' /\ RingsSound' /\ ServedSound' /\ KeysGrow BY <1>2, KeysSound DEF StoreInv
  <2>2. BucketSound' /\ CopySound' /\ SweepSound' /\ Retired' BY <1>2, <2>1, KeysStepRest
  <2>3. Gated' BY <1>2, <2>1, KeysStepGated
  <2> QED BY <2>1, <2>2, <2>3 DEF StoreInv
<1>3. CASE CopyStep BY <1>3, CopyStepSound
<1>4. CASE RekeyStep BY <1>4, RekeyStepSound
<1>5. CASE UNCHANGED vars
  <2>1. UNCHANGED <<bucket, ring, replica, bundle, sweep, copy, local, written, stray, steady, cut>>
        BY <1>5 DEF vars, keyVars
  <2>2. TypeOK' BY <2>1 DEF StoreInv, TypeOK
  <2>3. RingsSound' /\ ServedSound' BY <2>1, KeysStay DEF StoreInv, keyVars
  <2>4. CopySound' /\ SweepSound' /\ Gated' BY <2>1, CommandsStay DEF keyVars
  <2>5. BucketSound' /\ Retired' BY <2>1 DEF StoreInv, BucketSound, Retired
  <2> QED BY <2>2, <2>3, <2>4, <2>5 DEF StoreInv
<1> QED BY <1>1, <1>2, <1>3, <1>4, <1>5 DEF Next

\* Keys only grow from keys.yaml outwards; every object is a sealed write under
\* a key keys.yaml has, whole or, for those a sweep's source broke off for, a
\* first part of it; and a sweep knows what it has left to move.
THEOREM StoreInvariant == Spec => []StoreInv
BY StoreInvInit, StoreInvStep, PTL DEF Spec

\* "Every object stays readable throughout": keys.yaml has the key of every
\* object and opens it to its end, whatever uploads, applications, rotations and
\* interrupted rekeys interleave, but for those a sweep's source broke off for.
THEOREM AlwaysReadable == Spec => []OperatorReadsAll
<1>1. StoreInv => OperatorReadsAll
  <2> SUFFICES ASSUME StoreInv, NEW p \in Present
               PROVE  /\ bucket[p].name.space = p[1]
                      /\ Unwraps({<<p[1], n>> : n \in ring[p[1]].held}, bucket[p])
                      /\ bucket[p].dek \notin cut => Complete(bucket[p], p[2])
      BY DEF OperatorReadsAll
  <2>1. p \in Place /\ IsSealed(p, bucket[p], ring, cut)
        BY DEF StoreInv, BucketSound, Present
  <2>2. PICK b : b = bucket[p] OBVIOUS
  <2>3. PICK n \in 1 .. MaxWrites, k \in ring[p[1]].held :
          b = Sealed(p, n, k) \/ (n \in cut /\ Part(p, n, k, b))
        BY <2>1, <2>2 DEF IsSealed
  <2>4. b.kek = <<p[1], k>> /\ b.dek = n /\ b.name.space = p[1]
    <3>1. OfWrite(p, n, k, b) BY <2>3 DEF OfWrite
    <3> QED BY <3>1, SealedFields
  <2>5. Unwraps({<<p[1], m>> : m \in ring[p[1]].held}, b)
        BY <2>3, <2>4 DEF Unwraps
  <2>6. ASSUME n \notin cut PROVE Complete(b, p[2])
    <3>1. b = Seal(<<p[1], k>>, n, p[1], p[2], Content(n)) BY <2>3, <2>6 DEF Sealed
    <3>2. PICK T : Content(n) \in Seq(T) BY ContentSeq
    <3> QED BY <3>1, <3>2, SealOpens
  <2> QED BY <2>2, <2>4, <2>5, <2>6
<1> QED BY <1>1, StoreInvariant, PTL

\* Rekey moves an application's object only to a key that every replica that
\* has served since the sweep began, or since it was asked, holds.
THEOREM RekeyTakesNothing == Spec => RekeyKeepsReadable
<1> DEFINE A == \A p \in Place, r \in steady :
                   p[1] = "app" /\ sweep.pc = "put" /\ sweep'.pc = "next" /\ bucket'[p] # bucket[p] =>
                       bucket'[p].kek[2] \in replica[r].held
<1>1. ASSUME StoreInv, [Next]_vars PROVE [A]_vars
  <2>1. SUFFICES ASSUME Next, NEW p \in Place, NEW r \in steady, p[1] = "app", sweep.pc = "put",
                        sweep'.pc = "next", bucket'[p] # bucket[p]
                 PROVE  bucket'[p].kek[2] \in replica[r].held
        BY <1>1 DEF vars
  <2>2. sweep' # sweep BY <2>1
  <2>3. RekeyPut
    <3>1. RekeyStep
          BY <2>1, <2>2 DEF Next, AppStep, AppWrite, AppDelete, KeysStep, KeyStep, MintScope, RotateHold,
             RotatePush, RotateActivate, HandOver, Restart, Reseed, CopyStep, Download, Rm, RmPrefix,
             UploadBegin, UploadWrite
    <3> QED BY <2>1, <3>1 DEF RekeyStep, RekeyList, RekeyAsk, RekeyRead, RekeyStop, Idle
  <2>4. /\ sweep.reading.at \in sweep.todo /\ sweep.todo \subseteq Place
        /\ IsSealed(sweep.reading.at, sweep.reading.blob, sweep.rings, cut)
        /\ sweep.reading.at[1] = "app" => sweep.asked = Replica
        BY <1>1, <2>1 DEF StoreInv, SweepSound, Idle
  <2>5. PICK x : x = sweep.reading.blob OBVIOUS
  <2>6. /\ p = sweep.reading.at
        /\ \/ bucket'[p] = Rewrapped(x, RekeyKey(p))
           \/ \E part \in CutOff(x) : bucket'[p] = Rewrapped(part, RekeyKey(p))
        BY <1>1, <2>1, <2>3, <2>4, <2>5 DEF RekeyPut, StoreInv, BucketSound
  <2>7. bucket'[p].kek = <<"app", sweep.rings["app"].active>>
    <3>1. PICK n \in 1 .. MaxWrites, k \in sweep.rings[p[1]].held : x = Sealed(p, n, k) \/ Part(p, n, k, x)
          BY <2>4, <2>5, <2>6 DEF IsSealed
    <3>2. PICK a : a = sweep.rings[p[1]].active OBVIOUS
    <3>3. RekeyKey(p) = <<p[1], a>> BY <3>2 DEF RekeyKey
    <3>4. \A part \in CutOff(x) : Part(p, n, k, part) BY <3>1, CutIsPart
    <3>5. PICK y : /\ bucket'[p] = Rewrapped(y, <<p[1], a>>)
                   /\ y = Sealed(p, n, k) \/ Part(p, n, k, y)
          BY <2>6, <3>1, <3>3, <3>4
    <3>6. PICK z : z = bucket'[p] OBVIOUS
    <3>7. OfWrite(p, n, a, z)
          BY <3>5, <3>6, RewrapKeeps DEF OfWrite
    <3>8. z.kek = <<p[1], a>> BY <3>7, SealedFields
    <3> QED BY <2>1, <3>2, <3>6, <3>8
  <2>8. sweep.rings["app"].active \in replica[r].held
    <3>1. r \in sweep.asked BY <1>1, <2>1, <2>4, <2>6 DEF StoreInv, TypeOK
    <3> QED BY <1>1, <2>1, <3>1 DEF StoreInv, Gated
  <2> QED BY <2>7, <2>8
<1> QED BY <1>1, StoreInvariant, PTL DEF Spec, RekeyKeepsReadable

\* A sweep that reports "rekeyed" and missed nothing left nothing it was asked
\* for under an older key, whichever space had it and whatever replicas wrote
\* meanwhile.
THEOREM SweepsRetire == Spec => []SweepRetires
<1>1. StoreInv => SweepRetires
  <2> SUFFICES ASSUME StoreInv, Rekeyed PROVE SweepRetires
      BY DEF SweepRetires
  <2>1. sweep.todo = {} /\ sweep.pc # "idle" BY DEF Rekeyed
  <2> QED BY <2>1 DEF StoreInv, Retired, SweepRetires
<1> QED BY <1>1, StoreInvariant, PTL

\* The frames of an object are the same whatever key, place and data key it
\* was sealed with.
LEMMA SealedJoins ==
    ASSUME NEW p \in Place, NEW n \in 1 .. MaxWrites, NEW k
    PROVE  Plaintext(Sealed(p, n, k), FrameCount(Content(n))) = Joined(n)
<1> DEFINE c == FrameCount(Content(n))
           plain == [body |-> SealBody(NoKey, NoKey, Content(n))]
           mine == Sealed(p, n, k)
<1>1. \A i \in 1 .. c : mine.body[i] = Frame(n, p[2], Content(n), i)
      BY DEF Sealed, Seal, SealBody
<1>2. \A i \in 1 .. c : plain.body[i] = Frame(NoKey, NoKey, Content(n), i)
      BY DEF SealBody
<1>3. \A i \in 1 .. c : Frame(n, p[2], Content(n), i).data = Frame(NoKey, NoKey, Content(n), i).data
      BY DEF Frame
<1>4. [i \in 1 .. c |-> mine.body[i].data] = [i \in 1 .. c |-> plain.body[i].data]
  <2> HIDE DEF c, plain, mine
  <2> QED BY <1>1, <1>2, <1>3
<1> HIDE DEF c, plain, mine
<1>5. Plaintext(mine, c) = Plaintext(plain, c) BY <1>4 DEF Plaintext
<1> QED BY <1>5 DEF mine, c, plain, Joined

\* A download leaves at its destination what was there, or all the frames of
\* one object as it was written: never a body that was cut off.
THEOREM DownloadsAllOrNothing == Spec => []LocalSound
<1>1. Init => LocalSound
      BY DEF Init, LocalSound
<1>2. StoreInv /\ LocalSound /\ [Next]_vars => LocalSound'
  <2> SUFFICES ASSUME StoreInv, LocalSound, [Next]_vars PROVE LocalSound' OBVIOUS
  <2>1. CASE UNCHANGED local BY <2>1 DEF LocalSound
  <2>2. ASSUME NEW key \in Key, Download(key)
        PROVE  LocalSound'
    <3>1. PICK p \in Place : p = PlaceFor(ring, key) BY Places
    <3>2. p[2] = key BY <3>1 DEF PlaceFor
    <3>3. PICK n \in 1 .. MaxWrites, k \in ring[p[1]].held :
            bucket[p] = Sealed(p, n, k) \/ Part(p, n, k, bucket[p])
          BY <2>2, <3>1 DEF Download, StoreInv, BucketSound, IsSealed
    <3>4. PICK b : b = bucket[p] OBVIOUS
    <3>5. \A less \in CutOff(b) : DownloadTo(key, less) = local
      <4>1. TAKE less \in CutOff(b)
      <4>2. Part(p, n, k, less) BY <3>3, <3>4, CutIsPart
      <4>3. ~Complete(less, key) BY <3>2, <4>2, PartFails
      <4> QED BY <4>3 DEF DownloadTo
    <3>6. DownloadTo(key, b) = local \/ DownloadTo(key, b) = Joined(n)
      <4>1. CASE bucket[p] = Sealed(p, n, k)
        <5>1. b = Seal(<<p[1], k>>, n, p[1], key, Content(n))
              BY <3>2, <3>4, <4>1 DEF Sealed
        <5>2. PICK T : Content(n) \in Seq(T) BY ContentSeq
        <5>3. OpenedFrames(b, key) = FrameCount(Content(n)) /\ Complete(b, key)
              BY <5>1, <5>2, SealOpens
        <5>4. DownloadTo(key, b) = Plaintext(b, FrameCount(Content(n))) BY <5>3 DEF DownloadTo
        <5> QED BY <5>4, <3>4, <4>1, SealedJoins
      <4>2. CASE Part(p, n, k, bucket[p])
        <5>1. ~Complete(b, key) BY <3>2, <3>4, <4>2, PartFails
        <5> QED BY <5>1 DEF DownloadTo
      <4> QED BY <3>3, <4>1, <4>2
    <3>7. local' = DownloadTo(key, b) \/ \E less \in CutOff(b) : local' = DownloadTo(key, less)
          BY <2>2, <3>1, <3>4 DEF Download
    <3> QED BY <3>5, <3>6, <3>7 DEF LocalSound
  <2>3. \/ UNCHANGED local
        \/ \E key \in Key : Download(key)
        BY DEF vars, Next, AppStep, AppWrite, AppDelete, KeysStep, KeyStep, MintScope, RotateHold,
           RotatePush, RotateActivate, HandOver, Restart, Reseed, CopyStep, Rm, RmPrefix,
           UploadBegin, UploadWrite, RekeyStep, RekeyList, RekeyAsk, RekeyRead, RekeyPut, RekeyStop
  <2> QED BY <2>1, <2>2, <2>3
<1> QED BY <1>1, <1>2, StoreInvariant, PTL DEF Spec

\* So a download leaves one whole object or what was there, given that frames
\* joined again are what was cut into them.
THEOREM DownloadsComplete ==
    ASSUME \A n \in 1 .. MaxWrites : RoundTrip(Content(n))
    PROVE  Spec => []DownloadsWhole
<1>1. \A n \in 1 .. MaxWrites : Joined(n) = Content(n)
      BY DEF RoundTrip, Joined
<1>2. LocalSound => DownloadsWhole
      BY <1>1 DEF LocalSound, DownloadsWhole
<1> QED BY <1>2, DownloadsAllOrNothing, PTL

=============================================================================
