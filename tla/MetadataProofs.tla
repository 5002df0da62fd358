--------------------------- MODULE MetadataProofs ---------------------------
(***************************************************************************)
(* Proofs about Metadata: what saves of the shared record do to each       *)
(* other's fields, for every set of fields and commands.                   *)
(***************************************************************************)
EXTENDS Metadata, TLAPS

-----------------------------------------------------------------------------
(* The inductive invariant *)

\* What a command holds against what it read: sum is what a field it has not
\* changed still has, raw is too or is gone, and neither was made up.
Reads(m, read) ==
    /\ m.pc = "write" => m.data = m.mine
    /\ \A f \in Field \ m.touched :
         /\ m.loaded => m.mine.fields[f] = m.sum.fields[f]
         /\ m.raw.fields[f] \in {0, m.mine.fields[f]}
    /\ m.loaded => \A f \in Field : /\ m.sum.fields[f] \in read[f]
                                    /\ m.raw.fields[f] \in read[f] \union {0}
    /\ ~m.loaded => \A f \in Field : m.raw.fields[f] = 0

\* A field only moves on from what the command read, and can be put back only
\* to what it was since.
Edits(m) ==
    /\ \A f \in Field : m.raw.fields[f] <= m.mine.fields[f]
    /\ m.pc \in {"idle", "retry"} => ~m.saved
    /\ m.saved \/ m.pc = "write" =>
         /\ m.edit.field \in m.touched
         /\ m.raw.fields[m.edit.field] <= m.before /\ m.raw.fields[m.edit.field] <= m.edit.value
    /\ m.pc = "write" => m.data.fields[m.edit.field] = m.edit.value \/ MergedRollBack(m)

CopiesOK == \A c \in Command : Reads(meta[c], seen[c]) /\ Edits(meta[c])

OneWriter == \A c, d \in Command : meta[c].pc = "write" /\ meta[d].pc = "write" => c = d

\* What is about to be written, against the record it replaces.
Writable(m, read) ==
    \A f \in Field :
      /\ f \notin m.touched /\ disk.fields[f] # 0 => m.data.fields[f] = disk.fields[f]
      /\ m.data.fields[f] # disk.fields[f] => disk.fields[f] \in read[f] \union {0}

WritesFit ==
    \A c \in Command : instance = "recorded" /\ meta[c].pc = "write" => Writable(meta[c], seen[c])

MetadataInv == TypeOK /\ CopiesOK /\ (Overlap \/ (OneWriter /\ WritesFit))

-----------------------------------------------------------------------------
(* The merge *)

\* A copy with no record, as decoded from no bytes at all.
LEMMA ZeroType == Zero \in Metadata /\ \A f \in Field : Zero.fields[f] = 0
  BY MetadataAssumption DEF Zero, Metadata, Value

\* The fields of a record are numbers.
LEMMA FieldType ==
  ASSUME NEW m \in Metadata, NEW f \in Field
  PROVE  m.fields[f] \in Value /\ m.fields[f] \in Nat /\ m.stamp \in Nat
  BY MetadataAssumption DEF Metadata, Value

\* A command that holds no copy is well-typed.
LEMMA IdleType == Idle \in CopyState
<1>1. PICK f \in Field : TRUE
  BY MetadataAssumption
<1>2. (CHOOSE g \in Field : TRUE) \in Field
  BY <1>1
<1>3. 0 \in Value
  BY MetadataAssumption DEF Value
<1> QED
  BY <1>2, <1>3, ZeroType DEF Idle, CopyState, Kind

\* A command that has nothing yet.
LEMMA IdleFits ==
  ASSUME NEW read
  PROVE  /\ Reads(Idle, read) /\ Edits(Idle) /\ Idle.pc = "idle"
<1>1. /\ Idle.pc = "idle" /\ Idle.mine = Zero /\ Idle.raw = Zero /\ ~Idle.loaded /\ ~Idle.saved
  BY DEF Idle
<1> QED
  BY <1>1, ZeroType DEF Reads, Edits

\* A merge takes one side or the other, field by field.
LEMMA MergedFields ==
  ASSUME NEW base \in Metadata, NEW mine \in Metadata, NEW newer \in Metadata
  PROVE  /\ Merged(base, mine, newer) \in Metadata
         /\ \A f \in Field :
              Merged(base, mine, newer).fields[f] =
                IF mine.fields[f] = base.fields[f] THEN newer.fields[f] ELSE mine.fields[f]
<1> DEFINE fields == [f \in Field |-> IF mine.fields[f] = base.fields[f]
                                        THEN newer.fields[f] ELSE mine.fields[f]]
           stamp == IF mine.stamp > newer.stamp THEN mine.stamp ELSE newer.stamp
<1>1. fields \in [Field -> Value]
  BY FieldType
<1>2. stamp \in Nat
  BY DEF Metadata
<1>3. Merged(base, mine, newer) = [fields |-> fields, stamp |-> stamp]
  BY DEF Merged
<1> HIDE DEF stamp
<1> QED
  BY <1>1, <1>2, <1>3 DEF Metadata

\* A command's copy as it is about to be compared with the file.
Prepared(m, read) ==
    /\ m \in CopyState /\ m.pc = "loaded" /\ Reads(m, read) /\ ~m.saved
    /\ \A f \in Field : m.raw.fields[f] <= m.mine.fields[f]
    /\ m.edit.field \in m.touched
    /\ m.raw.fields[m.edit.field] <= m.before /\ m.raw.fields[m.edit.field] <= m.edit.value
    /\ m.mine.fields[m.edit.field] = m.edit.value /\ m.edit.value # m.before

Fits(m, read) ==
    /\ m \in CopyState /\ Reads(m, read) /\ Edits(m)
    /\ instance = "recorded" /\ m.pc = "write" => Writable(m, read)

\* The copy is written as it is.
LEMMA WrittenFits ==
  ASSUME NEW m, NEW read, Prepared(m, read), instance = "recorded" => m.loaded /\ disk = m.sum
  PROVE  Fits([m EXCEPT !.pc = "write", !.data = m.mine], read)
<1> DEFINE n == [m EXCEPT !.pc = "write", !.data = m.mine]
<1>1. m \in CopyState /\ m.mine \in Metadata
  BY DEF Prepared, CopyState
<1>2. n \in CopyState
  BY <1>1 DEF CopyState
<1>3. /\ n.pc = "write" /\ n.data = m.mine /\ n.mine = m.mine /\ n.touched = m.touched
      /\ n.loaded = m.loaded /\ n.raw = m.raw /\ n.sum = m.sum /\ n.edit = m.edit
      /\ n.before = m.before /\ n.saved = m.saved
  BY <1>1, <1>2 DEF CopyState
<1> HIDE DEF n
<1>4. Reads(n, read) /\ Edits(n)
  BY <1>3 DEF Prepared, Reads, Edits
<1>5. instance = "recorded" => Writable(n, read)
  BY <1>3 DEF Prepared, Reads, Writable
<1>6. Fits(n, read)
  BY <1>2, <1>4, <1>5 DEF Fits
<1> QED
  BY <1>6 DEF n

\* A copy that is merged with what others saved meanwhile.
LEMMA MergedFits ==
  ASSUME NEW m, NEW read, Prepared(m, read), disk \in Metadata, m.loaded, ~Conflicts(m.raw, m.mine, disk),
         NEW new, new = Merged(m.raw, m.mine, disk)
  PROVE  Fits([m EXCEPT !.pc = "write", !.data = new, !.mine = new,
                        !.loaded = FALSE, !.raw = Zero, !.sum = Zero], read)
<1> DEFINE n == [m EXCEPT !.pc = "write", !.data = new, !.mine = new,
                          !.loaded = FALSE, !.raw = Zero, !.sum = Zero]
<1>1. m \in CopyState /\ m.mine \in Metadata /\ m.raw \in Metadata
  BY DEF Prepared, CopyState
<1>2. /\ new \in Metadata
      /\ \A f \in Field : new.fields[f] = IF m.mine.fields[f] = m.raw.fields[f]
                                            THEN disk.fields[f] ELSE m.mine.fields[f]
  BY <1>1, MergedFields
<1>3. n \in CopyState
  BY <1>1, <1>2, ZeroType DEF CopyState
<1>4. /\ n.pc = "write" /\ n.data = new /\ n.mine = new /\ n.touched = m.touched
      /\ n.loaded = FALSE /\ n.raw = Zero /\ n.edit = m.edit
      /\ n.before = m.before /\ n.saved = m.saved
  BY <1>1, <1>3 DEF CopyState
<1> HIDE DEF n
<1>5. Reads(n, read)
  BY <1>4, ZeroType DEF Reads
<1>6. Edits(n)
  <2>1. m.edit.field \in Field /\ m.edit.value \in Nat /\ m.before \in Nat
    BY <1>1, MetadataAssumption DEF CopyState, Value
  <2>2. m.raw.fields[m.edit.field] \in Nat
    BY <1>1, <2>1, FieldType
  <2>3. m.edit.value > m.before => new.fields[m.edit.field] = m.edit.value
    BY <1>2, <2>1, <2>2 DEF Prepared
  <2>4. \A f \in Field : Zero.fields[f] = 0 /\ new.fields[f] \in Nat
    BY <1>2, ZeroType, FieldType
  <2> QED
    BY <1>4, <2>1, <2>3, <2>4 DEF Prepared, Edits, MergedRollBack
<1>7. Writable(n, read)
  <2> SUFFICES ASSUME NEW f \in Field
               PROVE  /\ f \notin m.touched /\ disk.fields[f] # 0 => new.fields[f] = disk.fields[f]
                      /\ new.fields[f] # disk.fields[f] => disk.fields[f] \in read[f] \union {0}
    BY <1>4 DEF Writable
  <2>1. m.mine.fields[f] # m.raw.fields[f] => disk.fields[f] \in {m.raw.fields[f], m.mine.fields[f]}
    BY DEF Conflicts
  <2>2. f \notin m.touched => m.raw.fields[f] \in {0, m.mine.fields[f]}
    BY DEF Prepared, Reads
  <2>3. m.raw.fields[f] \in read[f] \union {0}
    BY DEF Prepared, Reads
  <2> QED
    BY <1>2, <2>1, <2>2, <2>3
<1>8. Fits(n, read)
  BY <1>3, <1>5, <1>6, <1>7 DEF Fits
<1> QED
  BY <1>8 DEF n

\* A save that is refused leaves the copy as it was, or starts over.
LEMMA RefusedFits ==
  ASSUME NEW m, NEW read, Prepared(m, read)
  PROVE  Fits(RefusedSave(m), read) /\ RefusedSave(m).pc # "write"
<1>1. m \in CopyState /\ m.pc = "loaded" /\ Reads(m, read) /\ Edits(m)
  BY DEF Prepared, Edits
<1>2. CASE MayRetry(m)
  <2> DEFINE n == [m EXCEPT !.pc = "retry", !.attempt = m.attempt + 1]
  <2>0. RefusedSave(m) = n
    BY <1>2 DEF RefusedSave
  <2>1. m.attempt + 1 = 2
    BY <1>1, <1>2 DEF MayRetry, CopyState
  <2>2. n \in CopyState
    BY <1>1, <2>1 DEF CopyState
  <2>3. /\ n.pc = "retry" /\ n.mine = m.mine /\ n.touched = m.touched
        /\ n.loaded = m.loaded /\ n.raw = m.raw /\ n.sum = m.sum /\ n.saved = m.saved
    BY <1>1, <2>2 DEF CopyState
  <2> HIDE DEF n
  <2>4. Reads(n, read) /\ Edits(n)
    BY <1>1, <2>3 DEF Prepared, Reads, Edits
  <2> QED
    BY <2>0, <2>2, <2>3, <2>4 DEF Fits
<1>3. CASE ~MayRetry(m) /\ m.kind = "update"
  BY <1>3, IdleType, IdleFits DEF RefusedSave, Fits
<1>4. CASE ~MayRetry(m) /\ m.kind # "update"
  BY <1>1, <1>4 DEF RefusedSave, Fits
<1> QED
  BY <1>2, <1>3, <1>4

\* SaveInstanceMetadata up to its write, in every case.
LEMMA ComparedFits ==
  ASSUME NEW m, NEW read, Prepared(m, read), disk \in Metadata
  PROVE  Fits(Compared(m), read)
<1>1. CASE instance # "recorded"
  BY <1>1, WrittenFits DEF Compared
<1>2. CASE instance = "recorded" /\ ~m.loaded
  BY <1>2, RefusedFits DEF Compared
<1>3. CASE instance = "recorded" /\ m.loaded /\ disk = m.sum
  BY <1>3, WrittenFits DEF Compared
<1>4. CASE instance = "recorded" /\ m.loaded /\ disk # m.sum /\ Conflicts(m.raw, m.mine, disk)
  BY <1>4, RefusedFits DEF Compared
<1>5. CASE instance = "recorded" /\ m.loaded /\ disk # m.sum /\ ~Conflicts(m.raw, m.mine, disk)
  BY <1>5, MergedFits DEF Compared
<1>6. m.loaded \in BOOLEAN
  BY DEF Prepared, CopyState
<1> QED
  BY <1>1, <1>2, <1>3, <1>4, <1>5, <1>6

-----------------------------------------------------------------------------
(* The steps *)

\* The invariant holds of a record nobody has loaded.
LEMMA MetadataInvInit == Init => MetadataInv
<1> SUFFICES ASSUME Init PROVE MetadataInv
  OBVIOUS
<1>1. TypeOK
  BY ZeroType, IdleType, MetadataAssumption DEF Init, TypeOK, NothingSeen
<1>2. \A c \in Command : meta[c] = Idle
  BY DEF Init
<1> QED
  BY <1>1, <1>2, IdleFits DEF MetadataInv, CopiesOK, OneWriter, WritesFit

\* One command's copy changes and the record does not.
LEMMA CopyStep ==
  ASSUME MetadataInv, NEW c \in Command, NEW m \in CopyState, NEW read \in [Field -> SUBSET Value],
         meta' = [meta EXCEPT ![c] = m], seen' = [seen EXCEPT ![c] = read], UNCHANGED disk,
         instance' \in {"absent", "reserved", "recorded"}, instance' = "recorded" => instance = "recorded",
         saves' \in 0 .. MaxSaves, Reads(m, read), Edits(m),
         m.pc = "write" => MayRun(c) /\ (instance = "recorded" => Writable(m, read))
  PROVE  MetadataInv'
<1>1. TypeOK'
  BY DEF MetadataInv, TypeOK
<1>2. /\ meta'[c] = m /\ seen'[c] = read
      /\ \A d \in Command \ {c} : meta'[d] = meta[d] /\ seen'[d] = seen[d]
  BY DEF MetadataInv, TypeOK
<1>3. CopiesOK'
  BY <1>2 DEF MetadataInv, CopiesOK
<1>4. ASSUME ~Overlap PROVE OneWriter' /\ WritesFit'
  <2>1. OneWriter /\ WritesFit
    BY <1>4 DEF MetadataInv
  <2>2. OneWriter'
    BY <1>2, <1>4, <2>1 DEF OneWriter, MayRun
  <2>3. ASSUME NEW d \in Command, instance' = "recorded", meta'[d].pc = "write"
        PROVE  Writable(meta[d], seen[d])' 
    <3>1. CASE d = c
      BY <1>2, <2>3, <3>1 DEF Writable
    <3>2. CASE d # c
      BY <1>2, <2>1, <2>3, <3>2 DEF WritesFit, Writable
    <3> QED
      BY <3>1, <3>2
  <2> QED
    BY <2>2, <2>3 DEF WritesFit
<1> QED
  BY <1>1, <1>3, <1>4 DEF MetadataInv

\* What a command is at before it saves.
LEMMA SaveKeeps ==
  ASSUME MetadataInv, NEW c \in Command, NEW m, Prepared(m, seen[c]), MayRun(c),
         meta' = [meta EXCEPT ![c] = Compared(m)], saves < MaxSaves, saves' = saves + 1,
         UNCHANGED <<disk, instance, seen>>
  PROVE  MetadataInv'
<1>1. disk \in Metadata /\ seen \in [Command -> [Field -> SUBSET Value]] /\ saves' \in 0 .. MaxSaves
      /\ instance \in {"absent", "reserved", "recorded"}
  BY MetadataAssumption DEF MetadataInv, TypeOK
<1>2. Fits(Compared(m), seen[c])
  BY <1>1, ComparedFits
<1>3. seen' = [seen EXCEPT ![c] = seen[c]]
  BY <1>1
<1>4. PICK n : n = Compared(m)
  OBVIOUS
<1>5. n \in CopyState /\ Reads(n, seen[c]) /\ Edits(n)
      /\ (n.pc = "write" /\ instance = "recorded" => Writable(n, seen[c]))
  BY <1>2, <1>4 DEF Fits
<1>6. seen[c] \in [Field -> SUBSET Value]
  BY <1>1
<1> QED
  BY <1>1, <1>3, <1>4, <1>5, <1>6, CopyStep

\* Setting a field of one's own copy and comparing it with the file keeps the invariant.
LEMMA SaveStep ==
  ASSUME MetadataInv, NEW c \in Command, NEW f \in Field, NEW v \in Value, Save(c, f, v)
  PROVE  MetadataInv'
<1> DEFINE m == meta[c]
           mine == [m.mine EXCEPT !.fields = [m.mine.fields EXCEPT ![f] = v], !.stamp = saves + 1]
           n == [m EXCEPT !.mine = mine, !.edit = [field |-> f, value |-> v], !.saved = FALSE,
                          !.before = m.mine.fields[f], !.touched = @ \union {f}]
<1>1. m \in CopyState /\ m.pc = "loaded" /\ Reads(m, seen[c]) /\ Edits(m) /\ v > m.mine.fields[f]
  BY DEF Save, MetadataInv, TypeOK, CopiesOK
<1>2. m.mine \in Metadata /\ m.raw \in Metadata /\ m.sum \in Metadata /\ m.touched \in SUBSET Field
  BY <1>1 DEF CopyState
<1>3. saves + 1 \in Nat
  BY MetadataAssumption DEF MetadataInv, TypeOK
<1>4. /\ mine \in Metadata /\ mine.fields[f] = v
      /\ \A g \in Field \ {f} : mine.fields[g] = m.mine.fields[g]
  BY <1>2, <1>3 DEF Metadata
<1>6. n = [m EXCEPT !.mine.fields[f] = v, !.mine.stamp = saves + 1,
                    !.edit = [field |-> f, value |-> v], !.saved = FALSE,
                    !.before = m.mine.fields[f], !.touched = @ \union {f}]
  BY <1>1, <1>2 DEF CopyState, Metadata
<1>7. meta' = [meta EXCEPT ![c] = Compared(n)]
  BY <1>6 DEF Save
<1> HIDE DEF mine
<1>8. m.mine.fields[f] \in Value
  BY <1>2, FieldType
<1>9. n \in CopyState
  BY <1>1, <1>2, <1>4, <1>8 DEF CopyState
<1>10. /\ n.pc = "loaded" /\ n.mine = mine /\ n.raw = m.raw /\ n.sum = m.sum /\ n.loaded = m.loaded
       /\ n.edit.field = f /\ n.edit.value = v /\ n.before = m.mine.fields[f]
       /\ n.touched = m.touched \union {f} /\ ~n.saved
  BY <1>1, <1>9 DEF CopyState
<1> HIDE DEF n
<1>11. Reads(n, seen[c])
  BY <1>1, <1>4, <1>10 DEF Reads
<1>12. \A g \in Field : n.raw.fields[g] <= n.mine.fields[g] /\ m.raw.fields[g] <= m.mine.fields[g]
  <2> SUFFICES ASSUME NEW g \in Field PROVE n.raw.fields[g] <= n.mine.fields[g]
    BY <1>1 DEF Edits
  <2>1. m.raw.fields[g] \in Nat /\ m.mine.fields[g] \in Nat /\ m.raw.fields[g] <= m.mine.fields[g] /\ v \in Nat
    BY <1>1, <1>2, FieldType, MetadataAssumption DEF Edits, Value
  <2> QED
    BY <1>1, <1>4, <1>10, <2>1
<1>13. n.raw.fields[f] <= n.before /\ n.raw.fields[f] <= n.edit.value
  BY <1>4, <1>10, <1>12
<1>14. n.mine.fields[f] = n.edit.value /\ n.edit.value # n.before
  BY <1>1, <1>4, <1>8, <1>10, MetadataAssumption DEF Value
<1>15. Prepared(n, seen[c])
  BY <1>4, <1>9, <1>10, <1>11, <1>12, <1>13, <1>14 DEF Prepared
<1> QED
  BY <1>7, <1>15, SaveKeeps DEF Save

\* A roll-back returns a field to what it was since the command read it.
LEMMA RollBackStep ==
  ASSUME MetadataInv, NEW c \in Command, RollBack(c)
  PROVE  MetadataInv'
<1> DEFINE m == meta[c]
           f == m.edit.field
           v == m.before
           mine == [m.mine EXCEPT !.fields = [m.mine.fields EXCEPT ![f] = v]]
           n == [m EXCEPT !.mine = mine, !.saved = FALSE,
                          !.edit = [field |-> f, value |-> v], !.before = m.edit.value]
<1>1. /\ m \in CopyState /\ m.pc = "loaded" /\ m.saved /\ Reads(m, seen[c]) /\ Edits(m)
      /\ m.edit.value > v
  BY DEF RollBack, MetadataInv, TypeOK, CopiesOK
<1>2. /\ m.mine \in Metadata /\ m.raw \in Metadata /\ f \in Field /\ v \in Value /\ m.edit.value \in Value
      /\ f \in m.touched
  BY <1>1 DEF CopyState, Edits
<1>3. /\ mine \in Metadata /\ mine.fields[f] = v
      /\ \A g \in Field \ {f} : mine.fields[g] = m.mine.fields[g]
  BY <1>2 DEF Metadata
<1>4. n = [m EXCEPT !.mine.fields[m.edit.field] = m.before, !.saved = FALSE,
                    !.edit = [field |-> m.edit.field, value |-> m.before],
                    !.before = m.edit.value]
  BY <1>1, <1>2 DEF CopyState, Metadata
<1>5. meta' = [meta EXCEPT ![c] = Compared(n)]
  BY <1>4 DEF RollBack
<1> HIDE DEF mine
<1>6. n \in CopyState
  BY <1>1, <1>2, <1>3 DEF CopyState
<1>7. /\ n.pc = "loaded" /\ n.mine = mine /\ n.raw = m.raw /\ n.sum = m.sum /\ n.loaded = m.loaded
      /\ n.edit.field = f /\ n.edit.value = v /\ n.before = m.edit.value
      /\ n.touched = m.touched /\ ~n.saved
  BY <1>1, <1>6 DEF CopyState
<1> HIDE DEF n
<1>8. Reads(n, seen[c])
  BY SMTT(30), <1>1, <1>2, <1>3, <1>7 DEF Reads
<1>9. n.raw.fields[f] <= n.before /\ n.raw.fields[f] <= n.edit.value
  BY <1>1, <1>7 DEF Edits
<1>10. \A g \in Field : n.raw.fields[g] <= n.mine.fields[g]
  BY <1>1, <1>3, <1>7, <1>9 DEF Edits
<1>11. n.mine.fields[f] = n.edit.value /\ n.edit.value # n.before
  BY <1>1, <1>2, <1>3, <1>7, MetadataAssumption DEF Value
<1>12. Prepared(n, seen[c])
  BY <1>2, <1>6, <1>7, <1>8, <1>9, <1>10, <1>11 DEF Prepared
<1> QED
  BY <1>5, <1>12, SaveKeeps DEF RollBack

\* The rename: the record is the one that was compared, and what the command
\* has read now.
LEMMA WriteStep ==
  ASSUME MetadataInv, NEW c \in Command, Write(c)
  PROVE  MetadataInv'
<1> DEFINE m == meta[c]
           n == IF m.kind = "update" THEN Idle
                ELSE [m EXCEPT !.pc = "loaded", !.loaded = TRUE, !.sum = m.data, !.saved = TRUE, !.data = Zero]
           read == [f \in Field |-> seen[c][f] \union {m.data.fields[f]}]
<1>1. /\ m \in CopyState /\ m.pc = "write" /\ m.data \in Metadata /\ Reads(m, seen[c]) /\ Edits(m)
      /\ seen[c] \in [Field -> SUBSET Value]
  BY DEF Write, MetadataInv, TypeOK, CopiesOK, CopyState
<1>2. read \in [Field -> SUBSET Value]
  BY <1>1, FieldType
<1>3. /\ n \in CopyState /\ n.pc # "write" /\ Reads(n, read) /\ Edits(n)
  <2>1. CASE m.kind = "update"
    BY <2>1, IdleType, IdleFits
  <2>2. CASE m.kind # "update"
    <3> DEFINE k == [m EXCEPT !.pc = "loaded", !.loaded = TRUE, !.sum = m.data, !.saved = TRUE, !.data = Zero]
    <3>1. k \in CopyState
      BY <1>1, ZeroType DEF CopyState
    <3>2. /\ k.pc = "loaded" /\ k.loaded = TRUE /\ k.sum = m.data /\ k.saved = TRUE /\ k.mine = m.mine
          /\ k.raw = m.raw /\ k.edit = m.edit /\ k.before = m.before /\ k.touched = m.touched
      BY <1>1, <3>1 DEF CopyState
    <3> HIDE DEF k
    <3>3. \A f \in Field : m.raw.fields[f] \in seen[c][f] \union {0}
      <4> SUFFICES ASSUME NEW f \in Field PROVE m.raw.fields[f] \in seen[c][f] \union {0}
        OBVIOUS
      <4>1. CASE m.loaded
        BY <1>1, <4>1 DEF Reads
      <4>2. CASE ~m.loaded
        BY <1>1, <4>2 DEF Reads
      <4> QED
        BY <4>1, <4>2
    <3>4. Reads(k, read)
      BY <1>1, <3>2, <3>3 DEF Reads
    <3>5. Edits(k)
      BY <1>1, <3>2 DEF Edits
    <3> QED
      BY <2>2, <3>1, <3>2, <3>4, <3>5 DEF k
  <2> QED
    BY <2>1, <2>2
<1>4. meta' = [meta EXCEPT ![c] = n] /\ seen' = [seen EXCEPT ![c] = read] /\ disk' = m.data
  BY DEF Write
<1> HIDE DEF n, read
<1>5. TypeOK'
  BY <1>1, <1>2, <1>3, <1>4 DEF Write, MetadataInv, TypeOK
<1>6. /\ meta'[c] = n /\ seen'[c] = read
      /\ \A d \in Command \ {c} : meta'[d] = meta[d] /\ seen'[d] = seen[d]
  BY <1>4 DEF MetadataInv, TypeOK
<1>7. CopiesOK'
  BY <1>3, <1>6 DEF MetadataInv, CopiesOK
<1>8. ASSUME ~Overlap PROVE OneWriter' /\ WritesFit'
  <2>1. \A d \in Command : meta'[d].pc # "write"
    BY <1>1, <1>3, <1>6, <1>8 DEF MetadataInv, OneWriter
  <2> QED
    BY <2>1 DEF OneWriter, WritesFit
<1> QED
  BY <1>5, <1>7, <1>8 DEF MetadataInv

\* Whatever a command does, the copies of all of them stay what they are.
LEMMA MetadataInvStep == MetadataInv /\ [Next]_vars => MetadataInv'
<1> SUFFICES ASSUME MetadataInv, [Next]_vars PROVE MetadataInv'
  OBVIOUS
<1>1. /\ disk \in Metadata /\ instance \in {"absent", "reserved", "recorded"} /\ saves \in 0 .. MaxSaves
      /\ \A c \in Command : meta[c] \in CopyState /\ seen[c] \in [Field -> SUBSET Value]
      /\ seen \in [Command -> [Field -> SUBSET Value]]
  BY DEF MetadataInv, TypeOK
<1>2. ASSUME NEW c \in Command, Install(c) PROVE MetadataInv'
  <2> DEFINE n == [Idle EXCEPT !.pc = "loaded", !.kind = "install"]
  <2>1. n \in CopyState
    BY IdleType DEF CopyState, Kind
  <2>2. /\ n.pc = "loaded" /\ n.mine = Zero /\ n.raw = Zero /\ n.loaded = FALSE /\ n.saved = FALSE
    BY DEF Idle
  <2>3. Reads(n, seen[c]) /\ Edits(n)
    BY <2>2, ZeroType DEF Reads, Edits
  <2>4. meta' = [meta EXCEPT ![c] = n] /\ seen' = [seen EXCEPT ![c] = seen[c]] /\ UNCHANGED <<disk, saves>>
        /\ instance' = "reserved"
    BY <1>1, <1>2 DEF Install
  <2> HIDE DEF n
  <2> QED
    BY <1>1, <2>1, <2>2, <2>3, <2>4, CopyStep
<1>3. ASSUME NEW c \in Command, NEW kind \in {"command", "update"}, Load(c, kind) PROVE MetadataInv'
  <2> DEFINE m == meta[c]
             n == [m EXCEPT !.pc = "loaded", !.kind = kind, !.mine = disk, !.loaded = TRUE,
                            !.raw = disk, !.sum = disk, !.touched = {}]
             read == [f \in Field |-> {disk.fields[f]}]
  <2>1. m \in CopyState /\ ~m.saved
    BY <1>1, <1>3 DEF Load, MetadataInv, CopiesOK, Edits
  <2>2. n \in CopyState
    BY <1>1, <2>1 DEF CopyState, Kind
  <2>3. /\ n.pc = "loaded" /\ n.mine = disk /\ n.raw = disk /\ n.sum = disk /\ n.loaded = TRUE
        /\ n.saved = m.saved
    BY <2>1, <2>2 DEF CopyState
  <2>4. read \in [Field -> SUBSET Value]
    BY <1>1, FieldType
  <2>5. meta' = [meta EXCEPT ![c] = n] /\ seen' = [seen EXCEPT ![c] = read] /\ UNCHANGED <<disk, instance, saves>>
    BY <1>3 DEF Load
  <2> HIDE DEF n
  <2>6. Reads(n, read)
    BY <2>3 DEF Reads
  <2>7. Edits(n)
    BY <1>1, <2>1, <2>3, FieldType DEF Edits
  <2> HIDE DEF read
  <2> QED
    BY <1>1, <2>2, <2>3, <2>4, <2>5, <2>6, <2>7, CopyStep
<1>4. ASSUME NEW c \in Command, WriteFails(c) PROVE MetadataInv'
  <2> DEFINE m == meta[c]
             n == IF m.kind = "update" THEN Idle ELSE [m EXCEPT !.pc = "loaded", !.data = Zero]
  <2>1. m \in CopyState /\ m.pc = "write" /\ Reads(m, seen[c]) /\ Edits(m)
    BY <1>1, <1>4 DEF WriteFails, MetadataInv, CopiesOK
  <2>2. n \in CopyState /\ n.pc # "write" /\ Reads(n, seen[c]) /\ Edits(n)
    <3>1. CASE m.kind = "update"
      BY <3>1, IdleType, IdleFits
    <3>2. CASE m.kind # "update"
      <4> DEFINE k == [m EXCEPT !.pc = "loaded", !.data = Zero]
      <4>1. k \in CopyState
        BY <2>1, ZeroType DEF CopyState
      <4>2. /\ k.pc = "loaded" /\ k.loaded = m.loaded /\ k.sum = m.sum /\ k.saved = m.saved /\ k.mine = m.mine
            /\ k.raw = m.raw /\ k.edit = m.edit /\ k.before = m.before /\ k.touched = m.touched
        BY <2>1, <4>1 DEF CopyState
      <4> HIDE DEF k
      <4>3. Reads(k, seen[c])
        BY SMTT(30), <2>1, <4>2 DEF Reads
      <4>4. Edits(k)
        BY SMTT(30), <2>1, <4>2 DEF Edits
      <4> QED
        BY <3>2, <4>1, <4>2, <4>3, <4>4 DEF k
    <3> QED
      BY <3>1, <3>2
  <2>3. meta' = [meta EXCEPT ![c] = n] /\ seen' = [seen EXCEPT ![c] = seen[c]]
        /\ UNCHANGED <<disk, instance, saves>>
    BY <1>1, <1>4 DEF WriteFails
  <2> HIDE DEF n
  <2> QED
    BY <1>1, <2>2, <2>3, CopyStep
<1>5. ASSUME NEW c \in Command, End(c) PROVE MetadataInv'
  <2>1. NothingSeen \in [Field -> SUBSET Value]
    BY DEF NothingSeen
  <2>2. meta' = [meta EXCEPT ![c] = Idle] /\ seen' = [seen EXCEPT ![c] = NothingSeen]
        /\ UNCHANGED <<disk, instance, saves>>
    BY <1>5 DEF End
  <2> QED
    BY <1>1, <2>1, <2>2, IdleType, IdleFits, CopyStep
<1>6. CASE UNCHANGED vars
  BY <1>6 DEF vars, MetadataInv, TypeOK, CopiesOK, OneWriter, WritesFit, Writable
<1> QED
  BY <1>2, <1>3, <1>4, <1>5, <1>6, SaveStep, RollBackStep, WriteStep DEF Next, CommandStep

-----------------------------------------------------------------------------
(* The theorems *)

\* The inductive invariant, type correctness included.
THEOREM MetadataInvariant == Spec => []MetadataInv
  BY MetadataInvInit, MetadataInvStep, PTL DEF Spec

\* A save changes nothing but what its command set out to change, whatever
\* any number of commands saved, merged, rolled back or failed to write
\* before it, as long as saves do not overlap (SaveInstanceMetadata has no
\* lock between its read and its rename).
THEOREM OthersFieldsStay == ASSUME ~Overlap PROVE Spec => OnlyOwnEdits
<1>1. ASSUME MetadataInv, [Next]_vars
      PROVE  [\A c \in Command : instance = "recorded" /\ Write(c) =>
                \A f \in Field \ meta[c].touched :
                    disk.fields[f] # 0 => disk'.fields[f] = disk.fields[f]]_vars
  <2>1. \A c \in Command : instance = "recorded" /\ meta[c].pc = "write" => Writable(meta[c], seen[c])
    BY <1>1 DEF MetadataInv, WritesFit
  <2>2. \A c \in Command : Write(c) => meta[c].pc = "write" /\ disk' = meta[c].data
    BY DEF Write
  <2> QED
    BY <2>1, <2>2 DEF Writable
<1> QED
  BY <1>1, MetadataInvariant, PTL DEF Spec, OnlyOwnEdits

\* No save erases what its command never read, under the same condition.
THEOREM NothingGuessedAt == ASSUME ~Overlap PROVE Spec => NothingErasedUnseen
<1>1. ASSUME MetadataInv, [Next]_vars
      PROVE  [\A c \in Command : instance = "recorded" /\ Write(c) =>
                \A f \in Field : disk'.fields[f] # disk.fields[f] =>
                    disk.fields[f] \in seen[c][f] \union {0}]_vars
  <2>1. \A c \in Command : instance = "recorded" /\ meta[c].pc = "write" => Writable(meta[c], seen[c])
    BY <1>1 DEF MetadataInv, WritesFit
  <2>2. \A c \in Command : Write(c) => meta[c].pc = "write" /\ disk' = meta[c].data
    BY DEF Write
  <2> QED
    BY <2>1, <2>2 DEF Writable
<1> QED
  BY <1>1, MetadataInvariant, PTL DEF Spec, NothingErasedUnseen

\* A save that reports success has recorded what it was made to record, a change
\* or a roll-back, even if saves overlap; all but a roll-back that was merged.
THEOREM SavesTakeEffect == Spec => SaveTakesEffect
<1>1. ASSUME MetadataInv, [Next]_vars
      PROVE  [\A c \in Command : Write(c) =>
                \/ disk'.fields[meta[c].edit.field] = meta[c].edit.value
                \/ MergedRollBack(meta[c])]_vars
  BY <1>1 DEF MetadataInv, CopiesOK, Edits, Write
<1> QED
  BY <1>1, MetadataInvariant, PTL DEF Spec, SaveTakesEffect

=============================================================================
