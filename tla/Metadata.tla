------------------------------ MODULE Metadata ------------------------------
(***************************************************************************)
(* metadata.yaml, the only local record of an instance, shared by every    *)
(* farcast command running on the machine                                  *)
(* (farsight/cli/internal/config/instance.go).  A command reads the file,  *)
(* works for minutes, and saves; a save replaces the file it read or, when *)
(* another command has saved meanwhile, merges field by field.             *)
(*                                                                         *)
(* A field is one top-level field of InstanceMetadata other than UpdatedAt *)
(* (the stamp); its values are numbers, 0 the field's zero value.  Hashes  *)
(* stand for the contents they are taken of.                               *)
(***************************************************************************)
EXTENDS Naturals

CONSTANTS Field,      \* the fields of the record
          MaxValue,   \* bound: the largest value a field takes
          Command,    \* command processes
          Overlap,    \* whether a save may fall between another's read and write
          MaxSaves    \* bound: saves attempted

ASSUME MetadataAssumption ==
    /\ Field # {} /\ MaxValue \in Nat /\ MaxSaves \in Nat
    /\ Overlap \in BOOLEAN

Value == 0 .. MaxValue

Metadata == [fields : [Field -> Value], stamp : Nat]

\* What decoding no bytes at all yields.
Zero == [fields |-> [f \in Field |-> 0], stamp |-> 0]

VARIABLES disk,       \* metadata.yaml
          instance,   \* whether the instance's directory, and the file, exist
          meta,       \* each command's copy of the record
          seen,       \* history: the values a command has read or written
          saves       \* saves attempted so far; the time they are stamped with

vars == <<disk, instance, meta, seen, saves>>

Kind == {"install", "command", "update"}

\* mine: the command's copy; raw and sum: loadedRaw and loadedSum; edit: the
\* change the save under way is for; before: the edited field's earlier value;
\* touched: fields changed since the load; data: the bytes about to be written.
CopyState ==
    [pc : {"idle", "loaded", "write", "retry"}, kind : Kind, attempt : {1, 2},
     mine : Metadata, loaded : BOOLEAN, raw : Metadata, sum : Metadata,
     edit : [field : Field, value : Value], before : Value,
     touched : SUBSET Field, saved : BOOLEAN, data : Metadata]

Idle ==
    [pc |-> "idle", kind |-> "command", attempt |-> 1,
     mine |-> Zero, loaded |-> FALSE, raw |-> Zero, sum |-> Zero,
     edit |-> [field |-> CHOOSE f \in Field : TRUE, value |-> 0], before |-> 0,
     touched |-> {}, saved |-> FALSE, data |-> Zero]

TypeOK ==
    /\ disk \in Metadata
    /\ instance \in {"absent", "reserved", "recorded"}
    /\ meta \in [Command -> CopyState]
    /\ seen \in [Command -> [Field -> SUBSET Value]]
    /\ saves \in 0 .. MaxSaves

NothingSeen == [f \in Field |-> {}]

Init ==
    /\ disk = Zero
    /\ instance = "absent"
    /\ meta = [c \in Command |-> Idle]
    /\ seen = [c \in Command |-> NothingSeen]
    /\ saves = 0

\* The few system calls between a save's read and its rename belong to one
\* command, unless saves may overlap.
MayRun(c) == Overlap \/ \A d \in Command \ {c} : meta[d].pc # "write"

-----------------------------------------------------------------------------
\* CreateInstance: of two installs the second finds the directory.
Install(c) ==
    /\ meta[c].pc = "idle"
    /\ MayRun(c)
    /\ instance = "absent"
    /\ instance' = "reserved"
    /\ meta' = [meta EXCEPT ![c] = [Idle EXCEPT !.pc = "loaded", !.kind = "install"]]
    /\ UNCHANGED <<disk, seen, saves>>

\* LoadInstanceMetadata, for a command or for UpdateInstanceMetadata, which
\* keeps the change it is to make across its second attempt.
Load(c, kind) ==
    /\ MayRun(c)
    /\ instance = "recorded"
    /\ \/ meta[c].pc = "idle"
       \/ meta[c].pc = "retry" /\ kind = "update"
    /\ meta' = [meta EXCEPT ![c] =
         [@ EXCEPT !.pc = "loaded", !.kind = kind, !.mine = disk, !.loaded = TRUE,
                   !.raw = disk, !.sum = disk, !.touched = {}]]
    /\ seen' = [seen EXCEPT ![c] = [f \in Field |-> {disk.fields[f]}]]
    /\ UNCHANGED <<disk, instance, saves>>

-----------------------------------------------------------------------------
(* mergeOntoNewer *)

\* Mutant: a field both sides moved is overwritten.
Conflicts_Never(base, mine, newer) == FALSE

\* Some field was moved by both sides, and to different places.
Conflicts(base, mine, newer) ==
    \E f \in Field : /\ mine.fields[f] # base.fields[f]
                     /\ newer.fields[f] \notin {base.fields[f], mine.fields[f]}

\* Mutant: the command's copy replaces the newer record.
Merged_Mine(base, mine, newer) == mine

\* Mutant: whatever changed on disk stands.
Merged_Newer(base, mine, newer) == newer

\* A field the command moved is the command's, every other one the file's; of
\* the two stamps the later.
Merged(base, mine, newer) ==
    [fields |-> [f \in Field |-> IF mine.fields[f] = base.fields[f]
                                   THEN newer.fields[f] ELSE mine.fields[f]],
     stamp  |-> IF mine.stamp > newer.stamp THEN mine.stamp ELSE newer.stamp]

\* UpdateInstanceMetadata tries twice.
MayRetry(m) == m.kind = "update" /\ m.attempt < 2

\* A save refused with ErrMetadataConflict leaves the command's copy as it is:
\* an update starts over, other commands stop or carry on.
RefusedSave(m) ==
    IF MayRetry(m) THEN [m EXCEPT !.pc = "retry", !.attempt = @ + 1]
    ELSE IF m.kind = "update" THEN Idle
    ELSE m

\* SaveInstanceMetadata up to its write: what the command holds against what
\* the file holds by now.  A merge replaces the command's copy, and with it
\* the record of what was read.
Compared(m) ==
    IF instance # "recorded" THEN [m EXCEPT !.pc = "write", !.data = m.mine]
    ELSE IF ~m.loaded THEN RefusedSave(m)
    ELSE IF disk = m.sum THEN [m EXCEPT !.pc = "write", !.data = m.mine]
    ELSE IF Conflicts(m.raw, m.mine, disk) THEN RefusedSave(m)
    ELSE LET new == Merged(m.raw, m.mine, disk) IN
           [m EXCEPT !.pc = "write", !.data = new, !.mine = new,
                     !.loaded = FALSE, !.raw = Zero, !.sum = Zero]

\* A command records something and saves.  A field only ever moves on: what a
\* command records about a resource is not what was there before.
Save(c, f, v) ==
    LET m == meta[c] IN
    /\ m.pc = "loaded"
    /\ MayRun(c)
    /\ v > m.mine.fields[f]
    /\ m.attempt = 2 => f = m.edit.field
    /\ saves < MaxSaves
    /\ saves' = saves + 1
    /\ meta' = [meta EXCEPT ![c] =
         Compared([m EXCEPT !.mine.fields[f] = v, !.mine.stamp = saves + 1,
                            !.edit = [field |-> f, value |-> v], !.saved = FALSE,
                            !.before = m.mine.fields[f], !.touched = @ \union {f}])]
    /\ UNCHANGED <<disk, instance, seen>>

\* kernel confirm, kernel meter and run: the change was saved and applying it
\* to the cluster failed, so the field is put back, once and with no new stamp.
RollBack(c) ==
    LET m == meta[c] IN
    /\ m.pc = "loaded" /\ m.saved /\ m.kind = "command"
    /\ m.edit.value > m.before
    /\ MayRun(c)
    /\ saves < MaxSaves
    /\ saves' = saves + 1
    /\ meta' = [meta EXCEPT ![c] =
         Compared([m EXCEPT !.mine.fields[m.edit.field] = m.before, !.saved = FALSE,
                            !.edit = [field |-> m.edit.field, value |-> m.before],
                            !.before = m.edit.value])]
    /\ UNCHANGED <<disk, instance, seen>>

\* The rename.  From here on the command has read what it wrote.
Write(c) ==
    LET m == meta[c] IN
    /\ m.pc = "write"
    /\ disk' = m.data
    /\ instance' = "recorded"
    /\ meta' = [meta EXCEPT ![c] =
         IF m.kind = "update" THEN Idle
         ELSE [m EXCEPT !.pc = "loaded", !.loaded = TRUE, !.sum = m.data,
                        !.saved = TRUE, !.data = Zero]]
    /\ seen' = [seen EXCEPT ![c] = [f \in Field |-> @[f] \union {m.data.fields[f]}]]
    /\ UNCHANGED saves

\* The temporary file could not be written: the record is as it was.
WriteFails(c) ==
    /\ meta[c].pc = "write"
    /\ meta' = [meta EXCEPT ![c] = IF @.kind = "update" THEN Idle
                                   ELSE [@ EXCEPT !.pc = "loaded", !.data = Zero]]
    /\ UNCHANGED <<disk, instance, seen, saves>>

\* A command ends, or is killed.
End(c) ==
    /\ meta[c].pc # "idle"
    /\ meta' = [meta EXCEPT ![c] = Idle]
    /\ seen' = [seen EXCEPT ![c] = NothingSeen]
    /\ UNCHANGED <<disk, instance, saves>>

CommandStep(c) ==
    \/ Install(c) \/ RollBack(c) \/ Write(c) \/ WriteFails(c) \/ End(c)
    \/ \E kind \in {"command", "update"} : Load(c, kind)
    \/ \E f \in Field, v \in Value : Save(c, f, v)

Next == \E c \in Command : CommandStep(c)

Spec == Init /\ [][Next]_vars

-----------------------------------------------------------------------------
(* Correctness *)

\* A save changes nothing but what its command set out to change: no field
\* another command recorded reverts because a slower command wrote its copy.
\* (One that was put back to its zero value may: a merge leaves the command
\* no record of what it read, and the next merge takes zero for its base.)
OnlyOwnEdits ==
    [][ \A c \in Command : instance = "recorded" /\ Write(c) =>
          \A f \in Field \ meta[c].touched :
              disk.fields[f] # 0 => disk'.fields[f] = disk.fields[f] ]_vars

\* No save erases what its command never read: a field moved by somebody
\* else since is refused, not guessed at.
NothingErasedUnseen ==
    [][ \A c \in Command : instance = "recorded" /\ Write(c) =>
          \A f \in Field : disk'.fields[f] # disk.fields[f] =>
              disk.fields[f] \in seen[c][f] \union {0} ]_vars

\* A roll-back that met what another command saved since the change it takes
\* back, and was merged with it.
MergedRollBack(m) == m.edit.value < m.before /\ ~m.loaded

\* A save that reports success has recorded what it was made to record, a
\* roll-back that nobody else's save came before included.  A merged one is left
\* out: its base is still what the command first loaded, to which it returns the
\* field, so that the merge sees no change of its own and keeps what was to be
\* taken back, although kernel confirm relies on it to "put local state back".
SaveTakesEffect ==
    [][ \A c \in Command : Write(c) =>
          \/ disk'.fields[meta[c].edit.field] = meta[c].edit.value
          \/ MergedRollBack(meta[c]) ]_vars
=============================================================================
