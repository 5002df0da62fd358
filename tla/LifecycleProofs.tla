-------------------------- MODULE LifecycleProofs --------------------------
(***************************************************************************)
(* Proofs about Lifecycle and Delivery: what a command that is cut short   *)
(* leaves behind, for every set of bucket names, every choice of commands  *)
(* and options in every scene, and every number of faults.                 *)
(***************************************************************************)
EXTENDS Delivery, TLAPS, SequenceTheorems

-----------------------------------------------------------------------------
(* The inductive invariant *)

CmdKind == {"install", "connect", "reconnect", "redeploy", "deploy", "kernel", "write", "toolchain",
            "build", "run", "release"}

Image == {"fatline", "shrike", "keyholder", "technocore", "builder", "fetcher"}

RecordState ==
    [status : {"none", "provisioning", "error", "running", "unreachable", "deleting"},
     bucket : Name \union {NoName}, held : BOOLEAN, registry : BOOLEAN, fatline : BOOLEAN,
     carrier : BOOLEAN, keyholder : BOOLEAN, kernel : BOOLEAN, tools : SUBSET Image]

LocalState ==
    [stage : {"none", "reserved", "credentials", "recorded"}, record : RecordState,
     kubeconfig : BOOLEAN, keyring : BOOLEAN, root : Nat]

RepositoryState ==
    [owner : {"none", "ours", "other"}, pull : BOOLEAN, blobs : SUBSET Image, manifests : SUBSET Image]

CmdState ==
    [kind : CmdKind, step : Nat, meta : RecordState, flag : {"none", "image", "source", "wipe"},
     tries : Nat, registry : BOOLEAN, todo : Seq(Image), pinned : SUBSET Image,
     assembled : BOOLEAN, commit : Nat, shown : Nat, built : Nat]

JobState == [state : {"none", "running", "succeeded", "failed"}, of : Nat, out : Nat]

\* A command that runs is at one of its calls.
CmdType == cmd = Idle \/ (cmd \in CmdState /\ cmd.step \in 1 .. Len(Steps[cmd.kind]))

JobType ==
    /\ branch \in Nat \ {0}
    /\ job \in [{"fetch", "build"} -> JobState]

\* What the state is made of.
TypeOK ==
    /\ scene \in Scene
    /\ local \in LocalState
    /\ cluster \in {"none", "creating", "running", "error", "stopping"}
    /\ trusts \in [Workload -> Nat]
    /\ pulls \in SUBSET Image
    /\ repository \in RepositoryState
    /\ bucket \in [Name -> {"none", "ours", "other"}]
    /\ roots \in Nat
    /\ CmdType

\* The call at which a command settles its images.
ImageStep == [connect |-> 4, redeploy |-> 4, deploy |-> 7, kernel |-> 3, toolchain |-> 3]

HasTodo ==
    cmd.kind \in DOMAIN ImageStep /\ cmd.step <= ImageStep[cmd.kind] => cmd.todo # << >>

Early == cmd.kind = "install" /\ cmd.step <= 2

\* Install has not recorded an instance yet, and it does so before it creates
\* anything; any other command works on the record it has.
OnRecord ==
    /\ Early => local.stage # "recorded"
    /\ cmd.kind # "none" /\ ~Early => /\ local.stage = "recorded"
                                      /\ cmd.meta.bucket = local.record.bucket
                                      /\ cmd.meta.tools = local.record.tools
    /\ cmd.kind = "install" => /\ cmd.meta.bucket = NoName /\ cmd.meta.tools = {}
                               /\ local.record.tools = {}
    /\ cmd.kind \in {"deploy", "write"} /\ cmd.step = 2 => cmd.meta.bucket # NoName

\* What release has taken down stays down while it goes on.
TakenDown ==
    cmd.kind = "release" =>
        /\ cmd.pinned = {}
        /\ cmd.step >= 4 => cluster \in {"none", "stopping"}
        /\ cmd.step >= 5 => repository.owner # "ours"
        /\ cmd.step >= 7 => \A n \in Name : bucket[n] # "ours"

\* A cluster that is new has no workload on it.
NothingDeployed ==
    cluster \in {"none", "creating", "error"} => pulls = {} /\ \A w \in Workload : trusts[w] = 0

\* A manifest is only there with its blobs, and only such are told to be pulled.
BlobsFirst == repository.manifests \subseteq repository.blobs
PinnedThere == cmd.kind # "none" => cmd.pinned \subseteq repository.manifests
PullsThere ==
    cluster \in {"creating", "running", "error"} =>
        pulls \union local.record.tools \subseteq repository.manifests

\* A Job that succeeded did what it was created for, and a run that waits for
\* one waits for the commit it was shown.
JobsKeepTheirRef ==
    \A k \in {"fetch", "build"} : job[k].state = "succeeded" =>
        job[k].out # 0 /\ (job[k].of # Branch => job[k].out = job[k].of)

ShownIsBuilt ==
    cmd.kind = "run" =>
        /\ cmd.step >= 3 => cmd.commit = cmd.shown /\ cmd.commit # 0
        /\ cmd.step = 5 /\ job["build"].state # "none" => job["build"].of = cmd.commit
        /\ cmd.step >= 6 => cmd.built = cmd.shown

-----------------------------------------------------------------------------
(* Where a command is *)

\* The position of a call in the sequence of a command's calls.
Place ==
    [credentials |-> {<<"install", 1>>},
     record |-> {<<"install", 2>>},
     create |-> {<<"install", 3>>},
     wait |-> {<<"install", 4>>},
     kubeconfig |-> {<<"install", 5>>},
     registry |-> {<<"install", 6>>, <<"connect", 2>>, <<"reconnect", 2>>, <<"redeploy", 2>>, <<"deploy", 5>>, <<"kernel", 1>>, <<"toolchain", 1>>},
     grant |-> {<<"install", 7>>, <<"connect", 3>>, <<"reconnect", 3>>, <<"redeploy", 3>>, <<"deploy", 6>>, <<"kernel", 2>>, <<"toolchain", 2>>},
     finish |-> {<<"install", 8>>},
     identity |-> {<<"connect", 1>>, <<"reconnect", 1>>, <<"redeploy", 1>>},
     image |-> {<<"connect", 4>>, <<"redeploy", 4>>, <<"deploy", 7>>, <<"kernel", 3>>, <<"toolchain", 3>>},
     apply |-> {<<"connect", 5>>, <<"redeploy", 5>>},
     applied |-> {<<"connect", 6>>, <<"redeploy", 6>>},
     bind |-> {<<"connect", 7>>},
     mint |-> {<<"deploy", 1>>, <<"write", 1>>},
     ensure |-> {<<"deploy", 2>>, <<"write", 2>>},
     validate |-> {<<"deploy", 3>>, <<"write", 3>>},
     keyring |-> {<<"deploy", 4>>, <<"write", 4>>},
     issue |-> {<<"deploy", 8>>},
     serve |-> {<<"deploy", 9>>},
     kernel |-> {<<"kernel", 4>>},
     enforce |-> {<<"kernel", 5>>},
     store |-> {<<"write", 5>>},
     tools |-> {<<"toolchain", 4>>, <<"run", 7>>},
     fetch |-> {<<"run", 1>>},
     read |-> {<<"run", 2>>},
     approve |-> {<<"run", 3>>},
     start |-> {<<"build", 1>>, <<"run", 4>>},
     await |-> {<<"build", 2>>, <<"run", 5>>},
     launch |-> {<<"run", 6>>},
     gate |-> {<<"release", 1>>},
     mark |-> {<<"release", 2>>},
     cluster |-> {<<"release", 3>>},
     unregister |-> {<<"release", 4>>},
     drain |-> {<<"release", 5>>},
     unbucket |-> {<<"release", 6>>},
     remove |-> {<<"release", 7>>}]

\* A command at a call is at one of the places that call has in its program.
LEMMA Placed ==
  ASSUME TypeOK, NEW s \in DOMAIN Place, At(s)
  PROVE  cmd \in CmdState /\ cmd.step \in 1 .. Len(Steps[cmd.kind]) /\ <<cmd.kind, cmd.step>> \in Place[s]
<1>1. cmd \in CmdState /\ cmd.step \in 1 .. Len(Steps[cmd.kind]) /\ Steps[cmd.kind][cmd.step] = s
  BY DEF At, TypeOK, CmdType, Idle
<1>2. CASE cmd.kind = "install"
  BY <1>1, <1>2 DEF Steps, Place
<1>3. CASE cmd.kind = "connect"
  BY <1>1, <1>3 DEF Steps, Place
<1>4. CASE cmd.kind = "reconnect"
  BY <1>1, <1>4 DEF Steps, Place
<1>5. CASE cmd.kind = "redeploy"
  BY <1>1, <1>5 DEF Steps, Place
<1>6. CASE cmd.kind = "deploy"
  BY <1>1, <1>6 DEF Steps, Place
<1>7. CASE cmd.kind = "kernel"
  BY <1>1, <1>7 DEF Steps, Place
<1>8. CASE cmd.kind = "write"
  BY <1>1, <1>8 DEF Steps, Place
<1>9. CASE cmd.kind = "toolchain"
  BY <1>1, <1>9 DEF Steps, Place
<1>10. CASE cmd.kind = "build"
  BY <1>1, <1>10 DEF Steps, Place
<1>11. CASE cmd.kind = "run"
  BY <1>1, <1>11 DEF Steps, Place
<1>12. CASE cmd.kind = "release"
  BY <1>1, <1>12 DEF Steps, Place
<1> QED
  BY <1>1, <1>2, <1>3, <1>4, <1>5, <1>6, <1>7, <1>8, <1>9, <1>10, <1>11, <1>12 DEF CmdState, CmdKind

\* A command goes on to its next call, or was at its last.
Moves(meta) ==
    \/ cmd' = Idle
    \/ /\ cmd' \in CmdState /\ cmd'.step \in 1 .. Len(Steps[cmd'.kind])
       /\ cmd'.kind = cmd.kind /\ cmd'.step = cmd.step + 1 /\ cmd'.meta = meta
       /\ cmd'.todo = cmd.todo /\ cmd'.pinned = cmd.pinned
       /\ cmd'.commit = cmd.commit /\ cmd'.shown = cmd.shown /\ cmd'.built = cmd.built

\* Proceed changes nothing of a command but its place and its record.
LEMMA ProceedMoves ==
  ASSUME cmd \in CmdState, cmd.step \in 1 .. Len(Steps[cmd.kind]),
         NEW meta \in RecordState, Proceed(meta)
  PROVE  Moves(meta)
<1>0. Len(Steps[cmd.kind]) \in Nat
  BY DEF Steps, CmdState, CmdKind
<1>1. CASE cmd.step = Len(Steps[cmd.kind])
  BY <1>1 DEF Proceed, Moves
<1>2. CASE cmd.step # Len(Steps[cmd.kind])
  <2>1. cmd' = [cmd EXCEPT !.step = cmd.step + 1, !.meta = meta]
    BY <1>2 DEF Proceed
  <2>2. /\ cmd' \in CmdState /\ cmd'.kind = cmd.kind /\ cmd'.step = cmd.step + 1 /\ cmd'.meta = meta
        /\ cmd'.todo = cmd.todo /\ cmd'.pinned = cmd.pinned
        /\ cmd'.commit = cmd.commit /\ cmd'.shown = cmd.shown /\ cmd'.built = cmd.built
    <3>1. cmd.step + 1 \in Nat
      BY DEF CmdState
    <3>2. cmd' \in CmdState
      BY <2>1, <3>1 DEF CmdState
    <3> QED
      BY <2>1, <3>2 DEF CmdState
  <2>3. cmd.step + 1 \in 1 .. Len(Steps[cmd.kind])
    BY <1>0, <1>2
  <2> QED
    BY <2>2, <2>3 DEF Moves
<1> QED
  BY <1>1, <1>2

\* Settling an image takes it off the list, and the last one ends the call.
LEMMA SettledMoves ==
  ASSUME cmd \in CmdState, <<cmd.kind, cmd.step>> \in Place["image"], cmd.todo # << >>,
         NEW pin \in SUBSET Image, Settled(pin)
  PROVE  /\ cmd' \in CmdState /\ cmd'.step \in 1 .. Len(Steps[cmd'.kind])
         /\ cmd'.kind = cmd.kind /\ cmd'.meta = cmd.meta
         /\ cmd'.pinned = cmd.pinned \union pin
         /\ \/ cmd'.step = cmd.step + 1
            \/ cmd'.step = cmd.step /\ cmd'.todo # << >>
<1> DEFINE next == IF Len(cmd.todo) = 1 THEN cmd.step + 1 ELSE cmd.step
<1>1. cmd' = [cmd EXCEPT !.todo = Tail(cmd.todo), !.pinned = cmd.pinned \union pin,
                         !.assembled = FALSE, !.step = next]
  BY DEF Settled
<1>2. cmd.todo \in Seq(Image) /\ Tail(cmd.todo) \in Seq(Image)
      /\ (Len(cmd.todo) # 1 => Tail(cmd.todo) # << >>)
  <2>1. cmd.todo \in Seq(Image)
    BY DEF CmdState
  <2>2. Tail(cmd.todo) \in Seq(Image) /\ Len(Tail(cmd.todo)) = Len(cmd.todo) - 1
    BY <2>1, HeadTailProperties
  <2>3. Len(cmd.todo) \in Nat /\ Len(cmd.todo) # 0
    BY <2>1
  <2>4. Len(cmd.todo) # 1 => Len(Tail(cmd.todo)) # 0
    BY <2>2, <2>3
  <2> QED
    BY <2>1, <2>2, <2>4, EmptySeq
<1>3. next \in 1 .. Len(Steps[cmd.kind])
  <2>1. CASE cmd.kind = "connect" /\ cmd.step = 4
    BY <2>1 DEF Steps
  <2>2. CASE cmd.kind = "redeploy" /\ cmd.step = 4
    BY <2>2 DEF Steps
  <2>3. CASE cmd.kind = "deploy" /\ cmd.step = 7
    BY <2>3 DEF Steps
  <2>4. CASE cmd.kind = "kernel" /\ cmd.step = 3
    BY <2>4 DEF Steps
  <2>5. CASE cmd.kind = "toolchain" /\ cmd.step = 3
    BY <2>5 DEF Steps
  <2> QED
    BY <2>1, <2>2, <2>3, <2>4, <2>5 DEF Place
<1>4. next \in Nat
  BY DEF CmdState
<1> HIDE DEF next
<1>5. /\ cmd' \in CmdState /\ cmd'.kind = cmd.kind /\ cmd'.meta = cmd.meta
      /\ cmd'.pinned = cmd.pinned \union pin /\ cmd'.step = next /\ cmd'.todo = Tail(cmd.todo)
  BY <1>1, <1>2, <1>4 DEF CmdState
<1> QED
  BY <1>2, <1>3, <1>5 DEF next

\* A command that goes on without a registry.
LEMMA SkipMoves ==
  ASSUME cmd \in CmdState, NEW i \in Nat, cmd' = [cmd EXCEPT !.step = i, !.registry = FALSE]
  PROVE  /\ cmd' \in CmdState /\ cmd'.kind = cmd.kind /\ cmd'.step = i /\ cmd'.meta = cmd.meta
         /\ cmd'.todo = cmd.todo /\ cmd'.pinned = cmd.pinned
<1>1. cmd' \in CmdState
  BY DEF CmdState
<1> QED
  BY <1>1 DEF CmdState

\* A command as it starts.
LEMMA StartedType ==
  ASSUME NEW kind \in CmdKind, NEW step \in 1 .. Len(Steps[kind]), NEW meta \in RecordState,
         NEW flag \in {"none", "image", "source", "wipe"}
  PROVE  /\ Started(kind, step, meta, flag) \in CmdState
         /\ Started(kind, step, meta, flag).kind = kind
         /\ Started(kind, step, meta, flag).step = step
         /\ Started(kind, step, meta, flag).meta = meta
         /\ Started(kind, step, meta, flag).pinned = {}
         /\ kind \in DOMAIN ImageStep => Started(kind, step, meta, flag).todo # << >>
<1> DEFINE todo == IF kind \in DOMAIN Images THEN Images[kind] ELSE << >>
<1>1. todo \in Seq(Image) /\ (kind \in DOMAIN ImageStep => todo # << >>)
  <2>1. CASE kind = "connect"
    BY <2>1 DEF Images, Image, ImageStep
  <2>6. CASE kind = "redeploy"
    BY <2>6 DEF Images, Image, ImageStep
  <2>2. CASE kind = "deploy"
    BY <2>2 DEF Images, Image, ImageStep
  <2>3. CASE kind = "kernel"
    BY <2>3 DEF Images, Image, ImageStep
  <2>4. CASE kind = "toolchain"
    BY <2>4 DEF Images, Image, ImageStep
  <2>5. CASE kind \notin DOMAIN Images
    BY <2>5 DEF Images, ImageStep
  <2> QED
    BY <2>1, <2>2, <2>3, <2>4, <2>5, <2>6 DEF Images
<1>2. step \in Nat
  BY DEF Steps, CmdKind
<1> HIDE DEF todo
<1>3. Started(kind, step, meta, flag) =
        [kind |-> kind, step |-> step, meta |-> meta, flag |-> flag, tries |-> 1,
         registry |-> TRUE, todo |-> todo,
         pinned |-> {}, assembled |-> FALSE, commit |-> 0, shown |-> 0, built |-> 0]
  BY DEF Started, todo
<1> QED
  BY <1>1, <1>2, <1>3 DEF CmdState

-----------------------------------------------------------------------------
(* Type correctness *)

\* The named records, files and repositories are of their types.
LEMMA RecordTypes ==
  /\ NoRecord \in RecordState /\ Running \in RecordState
  /\ NoInstance \in LocalState /\ NoRepository \in RepositoryState
  /\ Idle.kind = "none"
<1>1. NoRecord \in RecordState
  BY DEF NoRecord, RecordState
<1>2. Running \in RecordState
  BY <1>1 DEF Running, RecordState
<1>3. NoInstance \in LocalState
  BY <1>1 DEF NoInstance, LocalState
<1>4. NoRepository \in RepositoryState
  BY DEF NoRepository, RepositoryState
<1> QED
  BY <1>1, <1>2, <1>3, <1>4 DEF Idle

\* A command that ends leaves a well-typed command slot.
LEMMA IdleType ==
  ASSUME cmd' = Idle
  PROVE  CmdType' /\ HasTodo'
  BY DEF CmdType, HasTodo, Idle, ImageStep

\* Going on to the next call keeps the command well-typed.
LEMMA ProceedType ==
  ASSUME TypeOK, HasTodo, NEW s \in DOMAIN Place, At(s), NEW meta \in RecordState, Proceed(meta)
  PROVE  CmdType' /\ HasTodo'
<1>1. cmd \in CmdState /\ Moves(meta)
  BY Placed, ProceedMoves
<1>2. CASE cmd' = Idle
  BY <1>2, IdleType
<1>3. CASE cmd' # Idle
  <2>1. /\ cmd' \in CmdState /\ cmd'.step \in 1 .. Len(Steps[cmd'.kind])
        /\ cmd'.kind = cmd.kind /\ cmd'.step = cmd.step + 1 /\ cmd'.todo = cmd.todo
    BY <1>1, <1>3 DEF Moves
  <2>2. cmd.step \in Nat /\ \A k \in DOMAIN ImageStep : ImageStep[k] \in Nat
    BY <1>1 DEF CmdState, ImageStep
  <2>3. HasTodo'
    BY <2>1, <2>2 DEF HasTodo
  <2> QED
    BY <2>1, <2>3 DEF CmdType
<1> QED
  BY <1>2, <1>3

\* Settling an image keeps the command well-typed.
LEMMA SettledType ==
  ASSUME TypeOK, HasTodo, At("image"), NEW pin \in SUBSET Image, Settled(pin)
  PROVE  CmdType' /\ HasTodo'
<1>1. cmd \in CmdState /\ <<cmd.kind, cmd.step>> \in Place["image"]
  BY Placed DEF Place
<1>2. cmd.kind \in DOMAIN ImageStep /\ cmd.step = ImageStep[cmd.kind] /\ cmd.step \in Nat
  BY <1>1 DEF Place, ImageStep
<1>3. cmd.todo # << >>
  BY <1>2 DEF HasTodo
<1>4. /\ cmd' \in CmdState /\ cmd'.step \in 1 .. Len(Steps[cmd'.kind]) /\ cmd'.kind = cmd.kind
      /\ (cmd'.step = cmd.step + 1 \/ cmd'.todo # << >>)
  BY <1>1, <1>3, SettledMoves
<1> QED
  BY <1>2, <1>4 DEF CmdType, HasTodo

\* A command that settles images has one to settle.
LEMMA HeadType ==
  ASSUME TypeOK, HasTodo, At("image")
  PROVE  cmd \in CmdState /\ cmd.todo # << >> /\ Head(cmd.todo) \in Image
<1>1. cmd \in CmdState /\ <<cmd.kind, cmd.step>> \in Place["image"]
  BY Placed DEF Place
<1>2. cmd.kind \in DOMAIN ImageStep /\ cmd.step = ImageStep[cmd.kind] /\ cmd.step \in Nat
  BY <1>1 DEF Place, ImageStep
<1>3. cmd.todo # << >> /\ cmd.todo \in Seq(Image)
  BY <1>1, <1>2 DEF HasTodo, CmdState
<1> QED
  BY <1>1, <1>3, HeadTailProperties

\* A command that begins is well-typed.
LEMMA BeginType ==
  ASSUME TypeOK, NEW kind \in CmdKind, NEW step \in 1 .. Len(Steps[kind]),
         NEW flag \in {"none", "image", "source", "wipe"}, Begin(kind, step, flag)
  PROVE  TypeOK' /\ HasTodo'
<1>1. local.record \in RecordState
  BY DEF TypeOK, LocalState
<1>2. /\ cmd' \in CmdState /\ cmd'.kind = kind /\ cmd'.step = step
      /\ (kind \in DOMAIN ImageStep => cmd'.todo # << >>)
  BY <1>1, StartedType DEF Begin
<1> QED
  BY <1>2 DEF Begin, TypeOK, CmdType, HasTodo, cloud

\* The three initial scenes are well-typed.
LEMMA TypeInit == Init => TypeOK /\ HasTodo /\ JobType
<1> SUFFICES ASSUME Init PROVE TypeOK /\ HasTodo /\ JobType
  OBVIOUS
<1>1. scene \in Scene /\ cmd = Idle /\ JobType
  BY DEF Init, LifecycleInit, JobType, NoJob, JobState, Branch
<1>2. CmdType /\ HasTodo
  BY <1>1 DEF CmdType, HasTodo, Idle, ImageStep
<1>3. CASE InitNone
  <2>1. repository \in RepositoryState
    BY <1>3, RecordTypes DEF InitNone, RepositoryState
  <2> QED
    BY <1>1, <1>2, <1>3, <2>1, RecordTypes DEF InitNone, TypeOK
<1>4. CASE InitConnected
  <2>1. local \in LocalState
    BY <1>4, RecordTypes DEF InitConnected, LocalState
  <2>2. repository \in RepositoryState /\ pulls \in SUBSET Image
    BY <1>4 DEF InitConnected, RepositoryState, Image
  <2>3. trusts \in [Workload -> Nat]
    BY <1>4 DEF InitConnected
  <2> QED
    BY <1>1, <1>2, <1>4, <2>1, <2>2, <2>3 DEF InitConnected, TypeOK
<1> QED
  BY <1>1, <1>3, <1>4 DEF Init, LifecycleInit

\* The parts of the state that a command keeps on this machine.
LEMMA SaveType ==
  ASSUME TypeOK, NEW meta \in RecordState, Save(meta)
  PROVE  /\ local' \in LocalState /\ local'.record = meta /\ local'.stage = local.stage
         /\ local'.root = local.root
  BY DEF Save, TypeOK, LocalState

\* Starting a command keeps the types.
LEMMA CommandType == TypeOK /\ HasTodo /\ Command => TypeOK' /\ HasTodo'
<1> SUFFICES ASSUME TypeOK, HasTodo, Command PROVE TypeOK' /\ HasTodo'
  OBVIOUS
<1> DEFINE Flag == {"none", "image", "source", "wipe"}
<1>1. ASSUME NEW kind \in CmdKind PROVE 1 \in 1 .. Len(Steps[kind])
  <2>1. CASE kind = "install"
    BY <2>1 DEF Steps
  <2>2. CASE kind = "connect"
    BY <2>2 DEF Steps
  <2>3. CASE kind = "reconnect"
    BY <2>3 DEF Steps
  <2>4. CASE kind = "redeploy"
    BY <2>4 DEF Steps
  <2>5. CASE kind = "deploy"
    BY <2>5 DEF Steps
  <2>6. CASE kind = "kernel"
    BY <2>6 DEF Steps
  <2>7. CASE kind = "write"
    BY <2>7 DEF Steps
  <2>8. CASE kind = "toolchain"
    BY <2>8 DEF Steps
  <2>9. CASE kind = "build"
    BY <2>9 DEF Steps
  <2>10. CASE kind = "run"
    BY <2>10 DEF Steps
  <2>11. CASE kind = "release"
    BY <2>11 DEF Steps
  <2> QED
    BY <2>1, <2>2, <2>3, <2>4, <2>5, <2>6, <2>7, <2>8, <2>9, <2>10, <2>11 DEF CmdKind
<1>2. 1 \in 1 .. Len(Steps["deploy"]) /\ 5 \in 1 .. Len(Steps["deploy"])
  BY DEF Steps
<1>3. Option[scene] \subseteq Flag
  BY LifecycleAssumption DEF TypeOK
<1>4. ASSUME NEW kind \in CmdKind, NEW flag \in Flag, Begin(kind, 1, flag) PROVE TypeOK' /\ HasTodo'
  BY <1>1, <1>4, BeginType
<1>5. CASE Install
  <2> DEFINE meta == [NoRecord EXCEPT !.status = "provisioning"]
  <2>1. meta \in RecordState
    BY DEF NoRecord, RecordState
  <2>2. "install" \in CmdKind /\ "install" \notin DOMAIN ImageStep
    BY DEF CmdKind, ImageStep
  <2> HIDE DEF meta
  <2>3. cmd' \in CmdState /\ cmd'.kind = "install" /\ cmd'.step = 1
    BY <1>1, <1>5, <2>1, <2>2, StartedType DEF Install, meta
  <2>4. local' \in LocalState
    BY <1>5, RecordTypes DEF Install, LocalState
  <2> QED
    BY <1>1, <1>5, <2>2, <2>3, <2>4 DEF Install, TypeOK, CmdType, HasTodo, cloud
<1>6. CASE StorageWrite \/ Toolchain
  BY <1>4, <1>6 DEF StorageWrite, Toolchain, CmdKind
<1>7. ASSUME NEW flag \in Option[scene],
             Connect(flag) \/ Redeploy(flag) \/ StorageDeploy(flag) \/ KernelDeploy(flag)
      PROVE  TypeOK' /\ HasTodo'
  <2>1. CASE Connect(flag)
    BY <1>3, <1>4, <2>1 DEF Connect, CmdKind
  <2>2. CASE Redeploy(flag) \/ KernelDeploy(flag)
    BY <1>3, <1>4, <2>2 DEF Redeploy, KernelDeploy, CmdKind
  <2>3. CASE StorageDeploy(flag)
    BY <1>2, <1>3, <2>3, BeginType DEF StorageDeploy, CmdKind
  <2> QED
    BY <1>7, <2>1, <2>2, <2>3
<1>8. ASSUME NEW flag \in {"none", "wipe"}, Release(flag) PROVE TypeOK' /\ HasTodo'
  BY <1>4, <1>8 DEF Release, CmdKind
<1> QED
  BY <1>5, <1>6, <1>7, <1>8 DEF Command

\* The calls of install keep the types.
LEMMA InstallType == TypeOK /\ HasTodo /\ InstallStep => TypeOK' /\ HasTodo'
<1> SUFFICES ASSUME TypeOK, HasTodo, InstallStep PROVE TypeOK' /\ HasTodo'
  OBVIOUS
<1>1. ASSUME NEW s \in {"credentials", "record", "create", "wait", "kubeconfig", "finish"}, At(s)
      PROVE  s \in DOMAIN Place /\ cmd \in CmdState /\ cmd.meta \in RecordState
  BY <1>1, Placed DEF Place, CmdState
<1>2. CASE SaveCredentials
  <2>1. local' \in LocalState
    BY <1>2 DEF SaveCredentials, TypeOK, LocalState
  <2>2. CmdType' /\ HasTodo'
    BY <1>1, <1>2, ProceedType DEF SaveCredentials
  <2> QED
    BY <1>2, <2>1, <2>2 DEF SaveCredentials, TypeOK, cloud
<1>3. CASE RecordIntent
  <2>1. local' \in LocalState
    BY <1>1, <1>3 DEF RecordIntent, TypeOK, LocalState
  <2>2. CmdType' /\ HasTodo'
    BY <1>1, <1>3, ProceedType DEF RecordIntent
  <2> QED
    BY <1>3, <2>1, <2>2 DEF RecordIntent, TypeOK, cloud
<1>4. CASE CreateCluster
  <2>1. CmdType' /\ HasTodo'
    BY <1>1, <1>4, ProceedType DEF CreateCluster
  <2> QED
    BY <1>4, <2>1 DEF CreateCluster, TypeOK
<1>5. CASE WaitReady
  <2>1. CmdType' /\ HasTodo'
    BY <1>1, <1>5, ProceedType DEF WaitReady
  <2> QED
    BY <1>5, <2>1 DEF WaitReady, TypeOK, cloud
<1>6. CASE ProvisioningFails
  <2>1. cmd.meta \in RecordState
    BY <1>1, <1>6 DEF ProvisioningFails
  <2>2. [cmd.meta EXCEPT !.status = "error"] \in RecordState
    BY <2>1 DEF RecordState
  <2>3. local' \in LocalState
    BY <1>6, <2>2 DEF ProvisioningFails, TypeOK, LocalState
  <2>4. CmdType' /\ HasTodo'
    BY <1>6, IdleType DEF ProvisioningFails
  <2> QED
    BY <1>6, <2>3, <2>4 DEF ProvisioningFails, TypeOK, cloud
<1>7. CASE SaveKubeconfig
  <2>1. local' \in LocalState
    BY <1>7 DEF SaveKubeconfig, TypeOK, LocalState
  <2>2. CmdType' /\ HasTodo'
    BY <1>1, <1>7, ProceedType DEF SaveKubeconfig
  <2> QED
    BY <1>7, <2>1, <2>2 DEF SaveKubeconfig, TypeOK, cloud
<1>8. CASE Finish
  <2>1. PICK status \in {"running", "unreachable"} :
          local' = [local EXCEPT !.stage = "recorded", !.record = [cmd.meta EXCEPT !.status = status]]
    BY <1>8 DEF Finish
  <2>2. [cmd.meta EXCEPT !.status = status] \in RecordState
    BY <1>1, <1>8 DEF Finish, RecordState
  <2>3. local' \in LocalState
    BY <2>1, <2>2 DEF TypeOK, LocalState
  <2>4. CmdType' /\ HasTodo'
    BY <1>1, <1>8, ProceedType DEF Finish
  <2> QED
    BY <1>8, <2>3, <2>4 DEF Finish, TypeOK, cloud
<1> QED
  BY <1>2, <1>3, <1>4, <1>5, <1>6, <1>7, <1>8 DEF InstallStep

\* The calls that create the repository and push images keep the types.
LEMMA RegistryType == TypeOK /\ HasTodo /\ RegistryStep => TypeOK' /\ HasTodo'
<1> SUFFICES ASSUME TypeOK, HasTodo, RegistryStep PROVE TypeOK' /\ HasTodo'
  OBVIOUS
<1>1. ASSUME NEW s \in {"registry", "grant", "image", "tools"}, At(s)
      PROVE  s \in DOMAIN Place /\ cmd \in CmdState /\ cmd.meta \in RecordState /\ cmd.pinned \in SUBSET Image
  BY <1>1, Placed DEF Place, CmdState
<1>2. CASE CreateRepository
  <2>1. repository' \in RepositoryState
    BY <1>2 DEF CreateRepository, TypeOK, RepositoryState
  <2>2. CmdType' /\ HasTodo'
    BY <1>1, <1>2, ProceedType DEF CreateRepository
  <2> QED
    BY <1>2, <2>1, <2>2 DEF CreateRepository, TypeOK
<1>3. CASE GrantPull
  <2> DEFINE meta == [cmd.meta EXCEPT !.registry = TRUE]
  <2>1. meta \in RecordState
    BY <1>1, <1>3 DEF GrantPull, RecordState
  <2> HIDE DEF meta
  <2>2. Proceed(meta) /\ (UNCHANGED local \/ Save(meta))
    BY <1>3 DEF GrantPull, meta
  <2>3. repository' \in RepositoryState /\ local' \in LocalState
    BY <1>3, <2>1, <2>2, SaveType DEF GrantPull, TypeOK, RepositoryState
  <2>4. CmdType' /\ HasTodo'
    BY <1>1, <1>3, <2>1, <2>2, ProceedType DEF GrantPull
  <2> QED
    BY <1>3, <2>3, <2>4 DEF GrantPull, TypeOK
<1>4. CASE NoRegistry
  <2>1. PICK s \in {"registry", "grant"} : At(s)
    BY <1>4 DEF NoRegistry
  <2>2. cmd \in CmdState /\ <<cmd.kind, cmd.step>> \in Place["registry"] \union Place["grant"]
    BY <2>1, Placed DEF Place
  <2>3. CASE cmd' = Idle
    BY <1>4, <2>3, IdleType DEF NoRegistry, TypeOK, cloud
  <2>4. CASE cmd' # Idle
    <3>1. cmd.kind \in {"install", "connect", "redeploy"}
          /\ cmd' = [cmd EXCEPT !.step = AfterGrant + 1, !.registry = FALSE]
      <4>1. cmd.kind = "reconnect" => AfterGrant = 3 /\ Len(Steps[cmd.kind]) = 3
        BY DEF AfterGrant, Steps
      <4> QED
        BY <1>4, <2>4, <4>1 DEF NoRegistry, Tolerates
    <3>2. CASE cmd.kind = "install"
      <4>1. AfterGrant = 7
        BY <3>2 DEF AfterGrant, Steps
      <4>2. cmd' \in CmdState /\ cmd'.kind = cmd.kind /\ cmd'.step = 8
        <5>1. PICK i \in Nat : i = AfterGrant + 1
          BY <4>1
        <5>2. cmd' = [cmd EXCEPT !.step = i, !.registry = FALSE]
          BY <3>1, <5>1
        <5>3. cmd' \in CmdState /\ cmd'.kind = cmd.kind /\ cmd'.step = i /\ cmd'.todo = cmd.todo
          BY <2>2, <5>2, SkipMoves
        <5> QED
          BY <4>1, <5>1, <5>3
      <4>3. CmdType' /\ HasTodo'
        <5>1. 8 \in 1 .. Len(Steps["install"]) /\ "install" \notin DOMAIN ImageStep
          BY DEF Steps, ImageStep
        <5> QED
          BY <3>2, <4>2, <5>1 DEF CmdType, HasTodo
      <4> QED
        BY <1>4, <4>3 DEF NoRegistry, TypeOK, cloud
    <3>3. CASE cmd.kind = "connect"
      <4>1. AfterGrant = 3
        BY <3>3 DEF AfterGrant, Steps
      <4>2. cmd' \in CmdState /\ cmd'.kind = cmd.kind /\ cmd'.step = 4 /\ cmd'.todo = cmd.todo
        <5>1. PICK i \in Nat : i = AfterGrant + 1
          BY <4>1
        <5>2. cmd' = [cmd EXCEPT !.step = i, !.registry = FALSE]
          BY <3>1, <5>1
        <5>3. cmd' \in CmdState /\ cmd'.kind = cmd.kind /\ cmd'.step = i /\ cmd'.todo = cmd.todo
          BY <2>2, <5>2, SkipMoves
        <5> QED
          BY <4>1, <5>1, <5>3
      <4>3. cmd.todo # << >>
        BY <2>2, <3>3 DEF Place, HasTodo, ImageStep
      <4>4. CmdType' /\ HasTodo'
        <5>1. 4 \in 1 .. Len(Steps["connect"])
          BY DEF Steps
        <5> QED
          BY <3>3, <4>2, <4>3, <5>1 DEF CmdType, HasTodo
      <4> QED
        BY <1>4, <4>4 DEF NoRegistry, TypeOK, cloud
    <3>4. CASE cmd.kind = "redeploy"
      <4>1. AfterGrant = 3
        BY <3>4 DEF AfterGrant, Steps
      <4>2. cmd' \in CmdState /\ cmd'.kind = cmd.kind /\ cmd'.step = 4 /\ cmd'.todo = cmd.todo
        <5>1. PICK i \in Nat : i = AfterGrant + 1
          BY <4>1
        <5>2. cmd' = [cmd EXCEPT !.step = i, !.registry = FALSE]
          BY <3>1, <5>1
        <5>3. cmd' \in CmdState /\ cmd'.kind = cmd.kind /\ cmd'.step = i /\ cmd'.todo = cmd.todo
          BY <2>2, <5>2, SkipMoves
        <5> QED
          BY <4>1, <5>1, <5>3
      <4>3. cmd.todo # << >>
        BY <2>2, <3>4 DEF Place, HasTodo, ImageStep
      <4>4. CmdType' /\ HasTodo'
        <5>1. 4 \in 1 .. Len(Steps["redeploy"])
          BY DEF Steps
        <5> QED
          BY <3>4, <4>2, <4>3, <5>1 DEF CmdType, HasTodo
      <4> QED
        BY <1>4, <4>4 DEF NoRegistry, TypeOK, cloud
    <3> QED
      BY <3>1, <3>2, <3>3, <3>4
  <2> QED
    BY <2>3, <2>4
<1>5. CASE ResolveImage
  <2>1. At("image") /\ Head(cmd.todo) \in Image
    BY <1>5, HeadType DEF ResolveImage
  <2>2. Settled({}) \/ Settled({Head(cmd.todo)})
    BY <1>5 DEF ResolveImage, Resolve
  <2>3. CmdType' /\ HasTodo'
    BY <2>1, <2>2, SettledType
  <2> QED
    BY <1>5, <2>3 DEF ResolveImage, TypeOK, cloud
<1>6. CASE Assemble \/ Mirror
  <2>1. At("image") /\ cmd' = [cmd EXCEPT !.assembled = TRUE]
    BY <1>6 DEF Assemble, Mirror
  <2>2. cmd \in CmdState /\ cmd.step \in 1 .. Len(Steps[cmd.kind])
    BY <2>1, Placed DEF Place
  <2>3. /\ cmd' \in CmdState /\ cmd'.kind = cmd.kind /\ cmd'.step = cmd.step
        /\ cmd'.todo = cmd.todo
    BY <2>1, <2>2 DEF CmdState
  <2>4. CmdType' /\ HasTodo'
    BY <2>2, <2>3 DEF CmdType, HasTodo
  <2> QED
    BY <1>6, <2>4 DEF Assemble, Mirror, TypeOK, cloud
<1>7. CASE PushBlobs
  <2>1. Head(cmd.todo) \in Image
    BY <1>7, HeadType DEF PushBlobs
  <2>2. repository' \in RepositoryState
    BY <1>7, <2>1 DEF PushBlobs, TypeOK, RepositoryState
  <2> QED
    BY <1>7, <2>2 DEF PushBlobs, TypeOK, CmdType, HasTodo
<1>8. CASE PushManifest
  <2>1. Head(cmd.todo) \in Image
    BY <1>8, HeadType DEF PushManifest
  <2>2. repository' \in RepositoryState
    BY <1>8, <2>1 DEF PushManifest, TypeOK, RepositoryState
  <2>3. CmdType' /\ HasTodo'
    BY <1>8, <2>1, SettledType DEF PushManifest
  <2> QED
    BY <1>8, <2>2, <2>3 DEF PushManifest, TypeOK
<1>9. CASE RecordTools
  <2> DEFINE meta == [cmd.meta EXCEPT !.tools = IF cmd.kind = "toolchain" THEN cmd.pinned
                                                ELSE IF cmd.flag = "image" THEN {} ELSE @]
  <2>1. meta \in RecordState
    BY <1>1, <1>9 DEF RecordTools, RecordState
  <2> HIDE DEF meta
  <2>2. Proceed(meta) /\ Save(meta)
    BY <1>9 DEF RecordTools, meta
  <2>3. CmdType' /\ HasTodo' /\ local' \in LocalState
    BY <1>1, <1>9, <2>1, <2>2, ProceedType, SaveType DEF RecordTools
  <2> QED
    BY <1>9, <2>3 DEF RecordTools, TypeOK, cloud
<1> QED
  BY <1>2, <1>3, <1>4, <1>5, <1>6, <1>7, <1>8, <1>9 DEF RegistryStep

\* The calls of connect, redeploy and kernel deploy keep the types.
LEMMA ConnectType == TypeOK /\ HasTodo /\ ConnectStep => TypeOK' /\ HasTodo'
<1> SUFFICES ASSUME TypeOK, HasTodo, ConnectStep PROVE TypeOK' /\ HasTodo'
  OBVIOUS
<1>1. ASSUME NEW s \in {"identity", "apply", "applied", "bind", "kernel", "enforce"}, At(s)
      PROVE  /\ s \in DOMAIN Place /\ cmd \in CmdState /\ cmd.meta \in RecordState
             /\ cmd.pinned \in SUBSET Image
  BY <1>1, Placed DEF Place, CmdState
<1>2. local.root \in Nat /\ roots + 1 \in Nat /\ pulls \in SUBSET Image
  BY DEF TypeOK, LocalState
<1>3. CASE EnsureIdentity
  <2>1. local' \in LocalState /\ roots' \in Nat
    BY <1>2, <1>3 DEF EnsureIdentity, TypeOK, LocalState
  <2>2. CmdType' /\ HasTodo'
    BY <1>1, <1>3, ProceedType DEF EnsureIdentity
  <2> QED
    BY <1>3, <2>1, <2>2 DEF EnsureIdentity, TypeOK, cloud
<1>4. CASE ApplyFatLine
  <2>1. trusts' \in [Workload -> Nat] /\ pulls' \in SUBSET Image
    BY <1>1, <1>2, <1>4 DEF ApplyFatLine, TypeOK, Pulled
  <2>2. CmdType' /\ HasTodo'
    BY <1>1, <1>4, ProceedType DEF ApplyFatLine
  <2> QED
    BY <1>4, <2>1, <2>2 DEF ApplyFatLine, TypeOK
<1>5. CASE RecordApplied
  <2> DEFINE meta == [cmd.meta EXCEPT !.fatline = TRUE]
  <2>1. meta \in RecordState
    BY <1>1, <1>5 DEF RecordApplied, RecordState
  <2> HIDE DEF meta
  <2>2. Proceed(meta) /\ (UNCHANGED local \/ Save(meta))
    BY <1>5 DEF RecordApplied, meta
  <2>3. CmdType' /\ HasTodo' /\ local' \in LocalState
    BY <1>1, <1>5, <2>1, <2>2, ProceedType, SaveType DEF RecordApplied, TypeOK
  <2> QED
    BY <1>5, <2>3 DEF RecordApplied, TypeOK, cloud
<1>6. CASE BindCarrier
  <2> DEFINE meta == [cmd.meta EXCEPT !.carrier = TRUE]
  <2>1. meta \in RecordState
    BY <1>1, <1>6 DEF BindCarrier, RecordState
  <2> HIDE DEF meta
  <2>2. Proceed(cmd.meta) /\ Save(meta)
    BY <1>6 DEF BindCarrier, meta
  <2>3. CmdType' /\ HasTodo' /\ local' \in LocalState
    BY <1>1, <1>6, <2>1, <2>2, ProceedType, SaveType DEF BindCarrier
  <2> QED
    BY <1>6, <2>3 DEF BindCarrier, TypeOK, cloud
<1>7. CASE RecordKernel
  <2> DEFINE meta == [cmd.meta EXCEPT !.kernel = TRUE]
  <2>1. meta \in RecordState
    BY <1>1, <1>7 DEF RecordKernel, RecordState
  <2> HIDE DEF meta
  <2>2. Proceed(meta) /\ Save(meta)
    BY <1>7 DEF RecordKernel, meta
  <2>3. CmdType' /\ HasTodo' /\ local' \in LocalState
    BY <1>1, <1>7, <2>1, <2>2, ProceedType, SaveType DEF RecordKernel
  <2> QED
    BY <1>7, <2>3 DEF RecordKernel, TypeOK, cloud
<1>8. CASE ApplyKernel
  <2>1. pulls' \in SUBSET Image
    BY <1>1, <1>2, <1>8 DEF ApplyKernel, Pulled
  <2>2. CmdType' /\ HasTodo'
    BY <1>1, <1>8, ProceedType DEF ApplyKernel
  <2> QED
    BY <1>8, <2>1, <2>2 DEF ApplyKernel, TypeOK
<1> QED
  BY <1>3, <1>4, <1>5, <1>6, <1>7, <1>8 DEF ConnectStep

\* The calls of storage deploy and of a storage write keep the types.
LEMMA StorageType == TypeOK /\ HasTodo /\ StorageStep => TypeOK' /\ HasTodo'
<1> SUFFICES ASSUME TypeOK, HasTodo, StorageStep PROVE TypeOK' /\ HasTodo'
  OBVIOUS
<1>1. ASSUME NEW s \in {"mint", "ensure", "validate", "keyring", "store", "issue", "serve"}, At(s)
      PROVE  /\ s \in DOMAIN Place /\ cmd \in CmdState /\ cmd.meta \in RecordState
             /\ cmd.pinned \in SUBSET Image
  BY <1>1, Placed DEF Place, CmdState
<1>2. ASSUME NEW meta \in RecordState, NEW n \in Name
      PROVE  [meta EXCEPT !.bucket = n, !.held = FALSE] \in RecordState
  BY DEF RecordState
<1>3. CASE Mint
  <2>1. PICK meta \in RecordState : Proceed(meta) /\ (UNCHANGED local \/ Save(meta))
    BY <1>1, <1>2, <1>3 DEF Mint
  <2>2. CmdType' /\ HasTodo' /\ local' \in LocalState
    BY <1>1, <1>3, <2>1, ProceedType, SaveType DEF Mint, TypeOK
  <2> QED
    BY <1>3, <2>2 DEF Mint, TypeOK, cloud
<1>4. CASE Ensured
  <2> DEFINE meta == [cmd.meta EXCEPT !.held = TRUE]
  <2>1. meta \in RecordState
    BY <1>1, <1>4 DEF Ensured, RecordState
  <2> HIDE DEF meta
  <2>2. Proceed(meta) /\ (UNCHANGED local \/ Save(meta))
    BY <1>4 DEF Ensured, meta
  <2>3. CmdType' /\ HasTodo' /\ local' \in LocalState
    BY <1>1, <1>4, <2>1, <2>2, ProceedType, SaveType DEF Ensured, TypeOK
  <2>4. bucket' \in [Name -> {"none", "ours", "other"}]
    BY <1>4 DEF Ensured, TypeOK
  <2> QED
    BY <1>4, <2>3, <2>4 DEF Ensured, TypeOK
<1>5. CASE EnsureUnrecorded
  <2>1. bucket' \in [Name -> {"none", "ours", "other"}]
    BY <1>5 DEF EnsureUnrecorded, TypeOK
  <2> QED
    BY <1>5, <2>1, IdleType DEF EnsureUnrecorded, TypeOK
<1>6. CASE NotOwned
  <2>1. CASE cmd' = Idle /\ UNCHANGED local
    BY <1>6, <2>1, IdleType DEF NotOwned, TypeOK, cloud
  <2>2. CASE ~(cmd' = Idle /\ UNCHANGED local)
    <3>1. PICK n \in Name :
            /\ Save([cmd.meta EXCEPT !.bucket = n, !.held = FALSE])
            /\ cmd' = [cmd EXCEPT !.meta = [cmd.meta EXCEPT !.bucket = n, !.held = FALSE],
                                  !.tries = @ + 1]
      BY <1>6, <2>2 DEF NotOwned
    <3> DEFINE meta == [cmd.meta EXCEPT !.bucket = n, !.held = FALSE]
    <3>2. meta \in RecordState
      BY <1>1, <1>2, <1>6 DEF NotOwned
    <3> HIDE DEF meta
    <3>3. cmd \in CmdState /\ cmd.step \in 1 .. Len(Steps[cmd.kind])
      BY <1>1, <1>6, Placed DEF NotOwned, Place
    <3>4. Save(meta) /\ cmd' = [cmd EXCEPT !.meta = meta, !.tries = cmd.tries + 1]
      BY <3>1 DEF meta
    <3>5. cmd.tries + 1 \in Nat
      BY <3>3 DEF CmdState
    <3>6. /\ cmd' \in CmdState /\ cmd'.kind = cmd.kind /\ cmd'.step = cmd.step
          /\ cmd'.todo = cmd.todo
      BY <3>2, <3>3, <3>4, <3>5 DEF CmdState
    <3>7. CmdType' /\ HasTodo' /\ local' \in LocalState
      BY <3>2, <3>3, <3>4, <3>6, SaveType DEF CmdType, HasTodo
    <3> QED
      BY <1>6, <3>7 DEF NotOwned, TypeOK, cloud
  <2> QED
    BY <2>1, <2>2
<1>7. CASE Validate
  <2>1. CmdType' /\ HasTodo'
    BY <1>1, <1>7, ProceedType, IdleType DEF Validate
  <2> QED
    BY <1>7, <2>1 DEF Validate, TypeOK, cloud
<1>8. CASE OpenKeyring
  <2>1. local' \in LocalState
    BY <1>8 DEF OpenKeyring, TypeOK, LocalState
  <2>2. CmdType' /\ HasTodo'
    BY <1>1, <1>8, ProceedType DEF OpenKeyring
  <2> QED
    BY <1>8, <2>1, <2>2 DEF OpenKeyring, TypeOK, cloud
<1>9. CASE StoreObject
  <2>1. CmdType' /\ HasTodo'
    BY <1>1, <1>9, ProceedType DEF StoreObject
  <2> QED
    BY <1>9, <2>1 DEF StoreObject, TypeOK
<1>10. CASE RecordKeyholder
  <2> DEFINE meta == [cmd.meta EXCEPT !.keyholder = TRUE]
  <2>1. meta \in RecordState
    BY <1>1, <1>10 DEF RecordKeyholder, RecordState
  <2> HIDE DEF meta
  <2>2. Proceed(meta) /\ Save(meta)
    BY <1>10 DEF RecordKeyholder, meta
  <2>3. CmdType' /\ HasTodo' /\ local' \in LocalState
    BY <1>1, <1>10, <2>1, <2>2, ProceedType, SaveType DEF RecordKeyholder
  <2> QED
    BY <1>10, <2>3 DEF RecordKeyholder, TypeOK, cloud
<1>11. CASE ApplyKeyholder
  <2>1. local.root \in Nat
    BY DEF TypeOK, LocalState
  <2>2. trusts' \in [Workload -> Nat] /\ pulls' \in SUBSET Image
    BY <1>1, <1>11, <2>1 DEF ApplyKeyholder, TypeOK, Pulled
  <2>3. CmdType' /\ HasTodo'
    BY <1>1, <1>11, ProceedType DEF ApplyKeyholder
  <2> QED
    BY <1>11, <2>2, <2>3 DEF ApplyKeyholder, TypeOK
<1> QED
  BY <1>3, <1>4, <1>5, <1>6, <1>7, <1>8, <1>9, <1>10, <1>11 DEF StorageStep

\* The calls of release keep the types.
LEMMA ReleaseType == TypeOK /\ HasTodo /\ ReleaseStep => TypeOK' /\ HasTodo'
<1> SUFFICES ASSUME TypeOK, HasTodo, ReleaseStep PROVE TypeOK' /\ HasTodo'
  OBVIOUS
<1>1. ASSUME NEW s \in {"gate", "mark", "cluster", "unregister", "drain", "unbucket", "remove"}, At(s)
      PROVE  s \in DOMAIN Place /\ cmd \in CmdState /\ cmd.meta \in RecordState
  BY <1>1, Placed DEF Place, CmdState
<1>2. CASE Gate
  <2>1. CmdType' /\ HasTodo'
    BY <1>1, <1>2, ProceedType, IdleType DEF Gate
  <2> QED
    BY <1>2, <2>1 DEF Gate, TypeOK, cloud
<1>3. CASE MarkDeleting
  <2> DEFINE meta == [cmd.meta EXCEPT !.status = "deleting"]
  <2>1. meta \in RecordState
    BY <1>1, <1>3 DEF MarkDeleting, RecordState
  <2> HIDE DEF meta
  <2>2. Proceed(meta) /\ (UNCHANGED local \/ Save(meta))
    BY <1>3 DEF MarkDeleting, meta
  <2>3. CmdType' /\ HasTodo' /\ local' \in LocalState
    BY <1>1, <1>3, <2>1, <2>2, ProceedType, SaveType DEF MarkDeleting, TypeOK
  <2> QED
    BY <1>3, <2>3 DEF MarkDeleting, TypeOK, cloud
<1>4. CASE DeleteCluster
  <2>1. CmdType' /\ HasTodo'
    BY <1>1, <1>4, ProceedType DEF DeleteCluster
  <2> QED
    BY <1>4, <2>1 DEF DeleteCluster, TypeOK
<1>5. CASE DeleteRegistry
  <2>1. CmdType' /\ HasTodo'
    BY <1>1, <1>5, ProceedType, IdleType DEF DeleteRegistry
  <2>2. repository' \in RepositoryState
    BY <1>5, RecordTypes DEF DeleteRegistry, TypeOK
  <2> QED
    BY <1>5, <2>1, <2>2 DEF DeleteRegistry, TypeOK
<1>6. CASE DrainObjects
  <2>1. CmdType' /\ HasTodo'
    BY <1>1, <1>6, ProceedType, IdleType DEF DrainObjects
  <2> QED
    BY <1>6, <2>1 DEF DrainObjects, TypeOK
<1>7. CASE DeleteBucket
  <2>1. CmdType' /\ HasTodo'
    BY <1>1, <1>7, ProceedType, IdleType DEF DeleteBucket
  <2>2. bucket' \in [Name -> {"none", "ours", "other"}]
    BY <1>7 DEF DeleteBucket, TypeOK
  <2> QED
    BY <1>7, <2>1, <2>2 DEF DeleteBucket, TypeOK
<1>8. CASE RemoveInstance
  <2>1. CmdType' /\ HasTodo'
    BY <1>1, <1>8, ProceedType DEF RemoveInstance
  <2> QED
    BY <1>8, <2>1, RecordTypes DEF RemoveInstance, TypeOK, cloud
<1> QED
  BY <1>2, <1>3, <1>4, <1>5, <1>6, <1>7, <1>8 DEF ReleaseStep

\* What a command that delivers an application does to its own state.
Delivers ==
    /\ cmd \in CmdState /\ cmd.kind \in {"run", "build"}
    /\ \/ cmd' = Idle
       \/ /\ cmd' \in CmdState /\ cmd'.step \in 1 .. Len(Steps[cmd'.kind])
          /\ cmd'.kind = cmd.kind /\ cmd'.step = cmd.step + 1 /\ cmd'.meta = cmd.meta
          /\ cmd'.pinned = cmd.pinned

\* The calls of run and build touch no cloud resource and no file of the instance.
LEMMA DeliveryMoves ==
  ASSUME TypeOK, JobType, Fetch \/ Read \/ Confirm \/ StartBuild \/ AwaitBuild \/ ReportBuild \/ Launch
  PROVE  Delivers /\ UNCHANGED <<scene, local, cloud, roots>>
<1>1. ASSUME NEW s \in {"fetch", "read", "approve", "start", "await", "launch"}, At(s)
      PROVE  /\ s \in DOMAIN Place /\ cmd \in CmdState /\ cmd.kind \in {"run", "build"}
             /\ cmd.step \in 1 .. Len(Steps[cmd.kind]) /\ cmd.meta \in RecordState /\ cmd.step + 1 \in Nat
  BY <1>1, Placed DEF Place, CmdState
<1>2. ASSUME NEW s \in {"fetch", "read", "approve", "start", "await", "launch"}, At(s),
             Proceed(cmd.meta) \/ Stop
      PROVE  Delivers
  BY <1>1, <1>2, ProceedMoves DEF Delivers, Moves, Stop
<1>3. job["fetch"].out \in Nat /\ job["build"].out \in Nat
  BY DEF JobType, JobState
<1>4. CASE Fetch \/ StartBuild \/ Confirm \/ ReportBuild \/ Launch
  BY <1>2, <1>4 DEF Fetch, StartBuild, ApplyJob, Confirm, ReportBuild, Launch
<1>5. CASE Read
  <2>1. CASE Stop
    BY <1>2, <1>5, <2>1 DEF Read
  <2>2. CASE ~Stop
    <3>1. PICK log \in {job["fetch"].out, Truncated} :
            cmd' = [cmd EXCEPT !.commit = job["fetch"].out, !.shown = log, !.step = @ + 1]
      BY <1>5, <2>2 DEF Read
    <3>2. /\ cmd \in CmdState /\ log \in Nat /\ cmd.step + 1 \in Nat
          /\ cmd.kind = "run" /\ cmd.step = 2
      BY <1>1, <1>3, <1>5, Placed DEF Read, Truncated, Place
    <3>3. cmd' \in CmdState
      BY <1>3, <3>1, <3>2 DEF CmdState
    <3>4. /\ cmd'.kind = cmd.kind /\ cmd'.step = cmd.step + 1 /\ cmd'.meta = cmd.meta
          /\ cmd'.pinned = cmd.pinned
      BY <3>1, <3>2, <3>3 DEF CmdState
    <3>5. 3 \in 1 .. Len(Steps["run"])
      BY DEF Steps
    <3> QED
      BY <1>5, <3>2, <3>3, <3>4, <3>5 DEF Read, Delivers
  <2> QED
    BY <1>5, <2>1, <2>2 DEF Read
<1>6. CASE AwaitBuild
  <2>1. CASE Stop
    BY <1>2, <1>6, <2>1 DEF AwaitBuild
  <2>2. CASE ~Stop
    <3>1. cmd' = [cmd EXCEPT !.built = job["build"].out, !.step = @ + 1]
      BY <1>6, <2>2 DEF AwaitBuild
    <3>2. /\ cmd \in CmdState /\ cmd.step + 1 \in Nat
          /\ cmd.kind = "run" /\ cmd.step = 5
      BY <1>1, <1>6, Placed DEF AwaitBuild, Place
    <3>3. cmd' \in CmdState
      BY <1>3, <3>1, <3>2 DEF CmdState
    <3>4. /\ cmd'.kind = cmd.kind /\ cmd'.step = cmd.step + 1 /\ cmd'.meta = cmd.meta
          /\ cmd'.pinned = cmd.pinned
      BY <3>1, <3>2, <3>3 DEF CmdState
    <3>5. 6 \in 1 .. Len(Steps["run"])
      BY DEF Steps
    <3> QED
      BY <1>6, <3>2, <3>3, <3>4, <3>5 DEF AwaitBuild, Delivers
  <2> QED
    BY <1>6, <2>1, <2>2 DEF AwaitBuild
<1>7. UNCHANGED <<scene, local, cloud, roots>>
  BY DEF Fetch, Read, Confirm, StartBuild, AwaitBuild, ReportBuild, Launch, ApplyJob
<1> QED
  BY <1>4, <1>5, <1>6, <1>7

\* The calls of run and build, and the Jobs' own steps, keep the types.
LEMMA DeliveryType == TypeOK /\ HasTodo /\ JobType /\ DeliveryNext => TypeOK' /\ HasTodo'
<1> SUFFICES ASSUME TypeOK, HasTodo, JobType, DeliveryNext PROVE TypeOK' /\ HasTodo'
  OBVIOUS
<1>1. ASSUME NEW flag \in {"none", "image"}, Run(flag) \/ Build(flag) PROVE TypeOK' /\ HasTodo'
  <2>1. 1 \in 1 .. Len(Steps["run"]) /\ 1 \in 1 .. Len(Steps["build"])
    BY DEF Steps
  <2> QED
    BY <1>1, <2>1, BeginType DEF Run, Build, CmdKind
<1>2. CASE Fetch \/ Read \/ Confirm \/ StartBuild \/ AwaitBuild \/ ReportBuild \/ Launch
  <2>1. Delivers /\ UNCHANGED <<scene, local, cloud, roots>>
    BY <1>2, DeliveryMoves
  <2>2. CASE cmd' = Idle
    BY <2>1, <2>2, IdleType DEF TypeOK, cloud
  <2>3. CASE cmd' # Idle
    <3>1. CmdType' /\ HasTodo'
      BY <2>1, <2>3 DEF Delivers, CmdType, HasTodo, ImageStep
    <3> QED
      BY <2>1, <3>1 DEF TypeOK, cloud
  <2> QED
    BY <2>2, <2>3
<1>3. ASSUME UNCHANGED lifecycleVars PROVE TypeOK' /\ HasTodo'
  BY <1>3 DEF lifecycleVars, cloud, TypeOK, CmdType, HasTodo
<1> QED
  BY <1>1, <1>2, <1>3 DEF DeliveryNext, JobEnds, JobExpires, Commit

\* Every step keeps the types.
LEMMA TypeStep == TypeOK /\ HasTodo /\ JobType /\ [Next]_vars => TypeOK' /\ HasTodo'
<1> SUFFICES ASSUME TypeOK, HasTodo, JobType, [Next]_vars PROVE TypeOK' /\ HasTodo'
  OBVIOUS
<1>1. CASE Interrupt
  BY <1>1, IdleType DEF Interrupt, TypeOK, cloud
<1>2. CASE ClusterMoves
  <2>1. trusts' \in [Workload -> Nat] /\ pulls' \in SUBSET Image
    BY <1>2 DEF ClusterMoves, TypeOK
  <2> QED
    BY <1>2, <2>1 DEF ClusterMoves, TypeOK, CmdType, HasTodo
<1>3. CASE AppWrites \/ Leave
  BY <1>3 DEF AppWrites, Leave, TypeOK, CmdType, HasTodo, cloud
<1>4. ASSUME NEW n \in Name, BucketChanges(n) PROVE TypeOK' /\ HasTodo'
  BY <1>4 DEF BucketChanges, TypeOK, CmdType, HasTodo
<1>5. CASE LifecycleNext
  BY <1>1, <1>2, <1>3, <1>4, <1>5, CommandType, InstallType, RegistryType, ConnectType, StorageType,
     ReleaseType DEF LifecycleNext
<1>6. CASE UNCHANGED vars
  BY <1>6 DEF vars, lifecycleVars, cloud, TypeOK, CmdType, HasTodo
<1> QED
  BY <1>5, <1>6, DeliveryType DEF Next

\* Every step keeps the Jobs and the branch well-typed.
LEMMA JobTypeStep == TypeOK /\ JobType /\ [Next]_vars => JobType'
<1> SUFFICES ASSUME TypeOK, JobType, [Next]_vars PROVE JobType'
  OBVIOUS
<1> USE DEF JobType
<1>1. NoJob \in JobState
  BY DEF NoJob, JobState, Branch
<1>2. CASE Hosted
  BY <1>1, <1>2 DEF Hosted
<1>3. ASSUME NEW s \in {"fetch", "start"}, NEW k \in {"fetch", "build"}, NEW of \in Nat, At(s), ApplyJob(k, of)
      PROVE  JobType'
  BY <1>3 DEF ApplyJob, JobState
<1>4. CASE Fetch
  BY <1>3, <1>4 DEF Fetch, Branch
<1>5. CASE StartBuild
  <2>1. BuildRef \in Nat
    BY <1>5, Placed DEF StartBuild, BuildRef, Branch, Place, CmdState
  <2> QED
    BY <1>3, <1>5, <2>1 DEF StartBuild
<1>6. ASSUME NEW k \in {"fetch", "build"}, JobEnds(k) \/ JobExpires(k) PROVE JobType'
  BY <1>1, <1>6 DEF JobEnds, JobExpires, JobState
<1>7. CASE Commit
  BY <1>7 DEF Commit
<1>8. CASE UNCHANGED <<branch, job>>
  BY <1>8
<1> QED
  BY <1>2, <1>4, <1>5, <1>6, <1>7, <1>8
  DEF Next, DeliveryNext, Run, Build, Read, Confirm, AwaitBuild, ReportBuild, Launch, deliveryVars, vars

\* Type correctness: a command that runs is at one of its calls, with a
\* record, images and commits that are well formed.
THEOREM LifecycleTypeCorrect == Spec => [](TypeOK /\ HasTodo /\ JobType)
  BY TypeInit, TypeStep, JobTypeStep, PTL DEF Spec

-----------------------------------------------------------------------------
(* Nothing is left that the record does not have *)

Recorded == OnRecord /\ NoOrphan /\ TakenDown

\* A command ends, and leaves what there was.
LEMMA EndsRecorded ==
  ASSUME Recorded, cmd' = Idle, UNCHANGED <<cluster, bucket>>, repository'.owner = repository.owner,
         local'.stage = local.stage, local'.record.bucket = local.record.bucket
  PROVE  Recorded'
  BY DEF Recorded, OnRecord, NoOrphan, TakenDown, Early, Idle

\* A command that has a record goes on with it.
LEMMA GoesRecorded ==
  ASSUME TypeOK, Recorded, cmd.kind \notin {"none", "release"}, ~Early,
         UNCHANGED <<cluster, bucket>>,
         repository'.owner \in {"ours", repository.owner},
         local'.stage = local.stage, local'.record.bucket = local.record.bucket,
         cmd' \in CmdState, cmd'.kind = cmd.kind, cmd'.step >= cmd.step,
         cmd'.kind \in {"deploy", "write"} /\ cmd'.step = 2 => cmd'.meta.bucket # NoName,
         cmd'.meta.bucket = local'.record.bucket, cmd'.meta.tools = local'.record.tools,
         cmd.kind = "install" => local'.record.tools = {}
  PROVE  Recorded'
<1>1. cmd \in CmdState
  BY DEF TypeOK, CmdType, Idle
<1>2. cmd.step \in Nat /\ cmd'.step \in Nat
  BY <1>1 DEF CmdState
<1>3. ~Early' /\ local.stage = "recorded" /\ cmd.meta.bucket = local.record.bucket
  BY <1>2 DEF Early, Recorded, OnRecord
<1>4. OnRecord'
  BY <1>3 DEF Recorded, OnRecord
<1>5. NoOrphan'
  BY <1>3 DEF Recorded, NoOrphan
<1> QED
  BY <1>4, <1>5 DEF Recorded, TakenDown

\* The call a command is at, with its record.
LEMMA HasRecord ==
  ASSUME TypeOK, Recorded, NEW s \in DOMAIN Place, At(s),
         s \notin {"credentials", "record", "gate", "mark", "cluster", "unregister", "drain", "unbucket",
                   "remove"}
  PROVE  /\ cmd \in CmdState /\ cmd.meta \in RecordState /\ ~Early
         /\ cmd.kind \notin {"none", "release"}
         /\ local.stage = "recorded" /\ cmd.meta.bucket = local.record.bucket
         /\ cmd.meta.tools = local.record.tools
         /\ cmd.kind = "install" => local.record.tools = {}
<1>1. cmd \in CmdState /\ <<cmd.kind, cmd.step>> \in Place[s]
  BY Placed
<1>2. ~Early /\ cmd.kind \notin {"none", "release"}
  BY <1>1 DEF Place, Early
<1> QED
  BY <1>1, <1>2 DEF Recorded, OnRecord, CmdState

\* Going on to the next call with a record that agrees with the one on disk.
LEMMA ProceedRecorded ==
  ASSUME TypeOK, Recorded, NEW s \in DOMAIN Place, At(s),
         s \notin {"credentials", "record", "gate", "mark", "cluster", "unregister", "drain", "unbucket",
                   "remove", "mint"},
         NEW meta \in RecordState, Proceed(meta), UNCHANGED <<cluster, bucket>>,
         repository'.owner \in {"ours", repository.owner},
         local'.stage = local.stage, local'.record.bucket = local.record.bucket,
         meta.bucket = local.record.bucket, meta.tools = local'.record.tools,
         cmd.kind = "install" => local'.record.tools = {}
  PROVE  Recorded'
<1>1. /\ cmd \in CmdState /\ cmd.meta \in RecordState /\ ~Early
      /\ cmd.kind \notin {"none", "release"} /\ local.stage = "recorded"
  BY HasRecord
<1>2. Moves(meta) /\ <<cmd.kind, cmd.step>> \in Place[s] /\ cmd.step \in Nat
  BY Placed, ProceedMoves DEF CmdState
<1>3. ~(cmd.kind \in {"deploy", "write"} /\ cmd.step + 1 = 2)
  BY <1>2 DEF Place
<1>4. CASE cmd' = Idle
  BY <1>1, <1>4 DEF Recorded, OnRecord, NoOrphan, TakenDown, Early, Idle
<1>5. CASE cmd' # Idle
  <2>1. /\ cmd' \in CmdState /\ cmd'.kind = cmd.kind /\ cmd'.step = cmd.step + 1 /\ cmd'.meta = meta
    BY <1>2, <1>5 DEF Moves
  <2> QED
    BY <1>1, <1>2, <1>3, <2>1, GoesRecorded
<1> QED
  BY <1>4, <1>5

\* A command that begins works from the saved record and creates nothing yet.
LEMMA BeginRecorded ==
  ASSUME TypeOK, Recorded, NEW kind \in CmdKind \ {"install"}, NEW step \in 1 .. Len(Steps[kind]),
         NEW flag \in {"none", "image", "source", "wipe"}, Begin(kind, step, flag),
         step = 1 \/ (kind = "deploy" /\ step = 5)
  PROVE  Recorded'
<1>1. local.record \in RecordState /\ local.stage = "recorded"
  BY DEF TypeOK, LocalState, Begin
<1>2. cmd'.kind = kind /\ cmd'.step = step /\ cmd'.meta = local.record /\ cmd'.pinned = {}
  BY <1>1, StartedType DEF Begin
<1> QED
  BY <1>1, <1>2 DEF Begin, Recorded, OnRecord, NoOrphan, TakenDown, Early, cloud

\* No command's start leaves something unrecorded.
LEMMA CommandRecorded == TypeOK /\ Recorded /\ Command => Recorded'
<1> SUFFICES ASSUME TypeOK, Recorded, Command PROVE Recorded'
  OBVIOUS
<1> DEFINE Flag == {"none", "image", "source", "wipe"}
<1>1. ASSUME NEW kind \in {"connect", "reconnect", "redeploy", "deploy", "kernel", "write", "toolchain",
                           "release"}
      PROVE  kind \in CmdKind \ {"install"} /\ 1 \in 1 .. Len(Steps[kind])
  <2>1. CASE kind \in {"connect", "reconnect"}
    BY <2>1 DEF CmdKind, Steps
  <2>2. CASE kind \in {"redeploy", "deploy"}
    BY <2>2 DEF CmdKind, Steps
  <2>3. CASE kind \in {"kernel", "write"}
    BY <2>3 DEF CmdKind, Steps
  <2>4. CASE kind \in {"toolchain", "release"}
    BY <2>4 DEF CmdKind, Steps
  <2> QED
    BY <2>1, <2>2, <2>3, <2>4
<1>2. 5 \in 1 .. Len(Steps["deploy"])
  BY DEF Steps
<1>3. Option[scene] \subseteq Flag
  BY LifecycleAssumption DEF TypeOK
<1>4. ASSUME NEW kind \in {"connect", "reconnect", "redeploy", "deploy", "kernel", "write", "toolchain",
                           "release"}, NEW flag \in Flag, Begin(kind, 1, flag)
      PROVE  Recorded'
  BY <1>1, <1>4, BeginRecorded
<1>5. CASE Install
  <2> DEFINE meta == [NoRecord EXCEPT !.status = "provisioning"]
  <2>1. meta \in RecordState /\ meta.bucket = NoName /\ meta.tools = {}
    BY DEF NoRecord, RecordState
  <2>2. 1 \in 1 .. Len(Steps["install"]) /\ "install" \in CmdKind
    BY DEF Steps, CmdKind
  <2> HIDE DEF meta
  <2>3. cmd' \in CmdState /\ cmd'.kind = "install" /\ cmd'.step = 1 /\ cmd'.meta = meta
    BY <1>5, <2>1, <2>2, StartedType DEF Install, meta
  <2>4. local'.stage = "reserved" /\ local'.record.tools = {}
    BY <1>5 DEF Install, NoInstance, NoRecord
  <2>5. local.stage = "none"
    BY <1>5 DEF Install
  <2> QED
    BY <1>5, <2>1, <2>3, <2>4, <2>5 DEF Install, Recorded, OnRecord, NoOrphan, TakenDown, Early, cloud
<1>6. CASE StorageWrite \/ Toolchain
  BY <1>4, <1>6 DEF StorageWrite, Toolchain
<1>7. ASSUME NEW flag \in Option[scene],
             Connect(flag) \/ Redeploy(flag) \/ StorageDeploy(flag) \/ KernelDeploy(flag)
      PROVE  Recorded'
  <2>1. CASE Connect(flag)
    BY <1>3, <1>4, <2>1 DEF Connect
  <2>2. CASE Redeploy(flag) \/ KernelDeploy(flag)
    BY <1>3, <1>4, <2>2 DEF Redeploy, KernelDeploy
  <2>3. CASE StorageDeploy(flag)
    BY <1>1, <1>2, <1>3, <2>3, BeginRecorded DEF StorageDeploy
  <2> QED
    BY <1>7, <2>1, <2>2, <2>3
<1>8. ASSUME NEW flag \in {"none", "wipe"}, Release(flag) PROVE Recorded'
  BY <1>4, <1>8 DEF Release
<1> QED
  BY <1>5, <1>6, <1>7, <1>8 DEF Command

\* install records the cluster before it creates it.
LEMMA InstallRecorded == TypeOK /\ Recorded /\ InstallStep => Recorded'
<1> SUFFICES ASSUME TypeOK, Recorded, InstallStep PROVE Recorded'
  OBVIOUS
<1>1. ASSUME NEW s \in {"create", "wait", "kubeconfig", "finish"}, At(s)
      PROVE  /\ s \in DOMAIN Place /\ cmd \in CmdState /\ cmd.meta \in RecordState
             /\ cmd.kind = "install" /\ cmd.step \in {3, 4, 5, 8}
             /\ cmd.step \in 1 .. Len(Steps[cmd.kind])
             /\ local.stage = "recorded" /\ local.record.tools = {} /\ cmd.meta.tools = {}
             /\ cmd.meta.bucket = NoName /\ local.record.bucket = NoName
  <2>1. s \in DOMAIN Place /\ <<cmd.kind, cmd.step>> \in Place[s]
    BY <1>1, Placed DEF Place
  <2>2. cmd.kind = "install" /\ cmd.step \in {3, 4, 5, 8}
    BY <1>1, <2>1 DEF Place
  <2> QED
    BY <1>1, <2>1, <2>2, HasRecord, Placed DEF Recorded, OnRecord
<1>2. CASE SaveCredentials
  <2>1. cmd \in CmdState /\ cmd.kind = "install" /\ cmd.step = 1 /\ Moves(cmd.meta)
    BY <1>2, Placed, ProceedMoves DEF SaveCredentials, Place, CmdState
  <2>2. local'.stage = "credentials" /\ local'.record = local.record /\ local.stage # "recorded"
    BY <1>2, <2>1 DEF SaveCredentials, TypeOK, LocalState, Recorded, OnRecord, Early
  <2>3. cmd' # Idle => cmd'.kind = "install" /\ cmd'.step = 2 /\ cmd'.meta = cmd.meta
    BY <2>1 DEF Moves
  <2>4. OnRecord' /\ TakenDown'
    BY <2>1, <2>2, <2>3 DEF Recorded, OnRecord, TakenDown, Early, Idle
  <2> QED
    BY <1>2, <2>2, <2>4 DEF SaveCredentials, Recorded, NoOrphan, cloud
<1>3. CASE RecordIntent
  <2>1. cmd \in CmdState /\ cmd.kind = "install" /\ cmd.step = 2 /\ Moves(cmd.meta)
    BY <1>3, Placed, ProceedMoves DEF RecordIntent, Place, CmdState
  <2>2. local'.stage = "recorded" /\ local'.record = cmd.meta
    BY <1>3, <2>1 DEF RecordIntent, TypeOK, LocalState
  <2>3. local.stage # "recorded"
    BY <2>1 DEF Recorded, OnRecord, Early
  <2>4. cmd' # Idle => cmd'.kind = "install" /\ cmd'.step = 3 /\ cmd'.meta = cmd.meta
    BY <2>1 DEF Moves
  <2>5. OnRecord' /\ TakenDown'
    BY <2>1, <2>2, <2>4 DEF Recorded, OnRecord, TakenDown, Early, Idle
  <2> QED
    BY <1>3, <2>2, <2>3, <2>5 DEF RecordIntent, Recorded, NoOrphan, cloud
<1>4. CASE CreateCluster
  <2>1. Moves(cmd.meta) /\ cmd \in CmdState /\ cmd.kind = "install" /\ cmd.step = 3
    BY <1>1, <1>4, Placed, ProceedMoves DEF CreateCluster, Place
  <2>2. cmd' # Idle => cmd'.kind = "install" /\ cmd'.step = 4 /\ cmd'.meta = cmd.meta
    BY <2>1 DEF Moves
  <2>3. local.stage = "recorded"
    BY <1>1, <1>4 DEF CreateCluster
  <2>4. OnRecord' /\ TakenDown'
    BY <1>4, <2>1, <2>2, <2>3 DEF CreateCluster, Recorded, OnRecord, TakenDown, Early, Idle
  <2> QED
    BY <1>4, <2>3, <2>4 DEF CreateCluster, Recorded, NoOrphan
<1>5. CASE WaitReady
  BY <1>1, <1>5, ProceedRecorded DEF WaitReady, cloud
<1>6. CASE ProvisioningFails
  <2>1. /\ cmd.meta \in RecordState /\ cmd.meta.bucket = local.record.bucket
        /\ local.stage = "recorded" /\ local \in LocalState
    BY <1>1, <1>6 DEF ProvisioningFails, TypeOK
  <2>2. local'.record = [cmd.meta EXCEPT !.status = "error"] /\ local'.stage = "recorded"
    BY <1>6, <2>1 DEF ProvisioningFails, LocalState
  <2>3. local'.record.bucket = local.record.bucket
    BY <2>1, <2>2 DEF RecordState
  <2> QED
    BY <1>6, <2>1, <2>2, <2>3, EndsRecorded DEF ProvisioningFails, cloud
<1>7. CASE SaveKubeconfig
  <2>1. local'.record = local.record /\ local'.stage = local.stage
    BY <1>7 DEF SaveKubeconfig, TypeOK, LocalState
  <2> QED
    BY <1>1, <1>7, <2>1, ProceedRecorded DEF SaveKubeconfig, cloud
<1>8. CASE Finish
  <2>1. PICK status \in {"running", "unreachable"} :
          local' = [local EXCEPT !.stage = "recorded", !.record = [cmd.meta EXCEPT !.status = status]]
    BY <1>8 DEF Finish
  <2>2. /\ cmd.meta \in RecordState /\ cmd.meta.bucket = local.record.bucket /\ cmd.meta.tools = {}
        /\ local.stage = "recorded" /\ local \in LocalState
    BY <1>1, <1>8 DEF Finish, TypeOK
  <2>3. local'.record = [cmd.meta EXCEPT !.status = status] /\ local'.stage = "recorded"
    BY <2>1, <2>2 DEF LocalState
  <2>4. local'.record.bucket = local.record.bucket /\ local'.record.tools = {}
    BY <2>2, <2>3 DEF RecordState
  <2> QED
    BY <1>1, <1>8, <2>2, <2>3, <2>4, ProceedRecorded DEF Finish, cloud
<1> QED
  BY <1>2, <1>3, <1>4, <1>5, <1>6, <1>7, <1>8 DEF InstallStep

\* A save of the record with nothing changed that decides what release finds.
LEMMA SaveRecorded ==
  ASSUME TypeOK, Recorded, NEW s \in DOMAIN Place, At(s),
         s \notin {"credentials", "record", "gate", "mark", "cluster", "unregister", "drain", "unbucket",
                   "remove", "mint"},
         NEW meta \in RecordState, Proceed(meta), Save(meta) \/ UNCHANGED local,
         meta.bucket = cmd.meta.bucket, meta.tools = cmd.meta.tools,
         UNCHANGED <<cluster, bucket>>, repository'.owner = repository.owner
  PROVE  Recorded'
<1>1. /\ cmd.meta.bucket = local.record.bucket /\ cmd.meta.tools = local.record.tools
      /\ cmd.kind = "install" => local.record.tools = {}
  BY HasRecord
<1>2. /\ local'.stage = local.stage /\ local'.record.bucket = local.record.bucket
      /\ local'.record.tools = local.record.tools
  BY <1>1, SaveType
<1> QED
  BY <1>1, <1>2, ProceedRecorded

\* The repository is recorded before it is created.
LEMMA RegistryRecorded == TypeOK /\ HasTodo /\ Recorded /\ RegistryStep => Recorded'
<1> SUFFICES ASSUME TypeOK, HasTodo, Recorded, RegistryStep PROVE Recorded'
  OBVIOUS
<1>1. ASSUME NEW s \in {"registry", "grant", "image", "tools"}, At(s)
      PROVE  /\ s \in DOMAIN Place /\ cmd \in CmdState /\ cmd.meta \in RecordState /\ ~Early
             /\ cmd.kind \notin {"none", "release"} /\ <<cmd.kind, cmd.step>> \in Place[s]
             /\ local.stage = "recorded" /\ cmd.meta.bucket = local.record.bucket
             /\ cmd.meta.tools = local.record.tools
             /\ (cmd.kind = "install" => local.record.tools = {})
  <2>1. s \in DOMAIN Place
    BY <1>1 DEF Place
  <2> QED
    BY <1>1, <2>1, HasRecord, Placed
<1>2. CASE CreateRepository
  <2>1. repository'.owner = "ours"
    BY <1>2 DEF CreateRepository, TypeOK, RepositoryState
  <2> QED
    BY <1>1, <1>2, <2>1, ProceedRecorded DEF CreateRepository
<1>3. CASE GrantPull
  <2> DEFINE meta == [cmd.meta EXCEPT !.registry = TRUE]
  <2>1. meta \in RecordState /\ meta.bucket = cmd.meta.bucket /\ meta.tools = cmd.meta.tools
    BY <1>1, <1>3 DEF GrantPull, RecordState
  <2> HIDE DEF meta
  <2>2. Proceed(meta) /\ (Save(meta) \/ UNCHANGED local)
    BY <1>3 DEF GrantPull, meta
  <2>3. repository'.owner = repository.owner
    BY <1>3 DEF GrantPull, TypeOK, RepositoryState
  <2> QED
    BY <1>1, <1>3, <2>1, <2>2, <2>3, SaveRecorded DEF GrantPull
<1>4. CASE NoRegistry
  <2>1. CASE cmd' = Idle
    BY <1>4, <2>1, EndsRecorded DEF NoRegistry, cloud
  <2>2. CASE cmd' # Idle
    <3>1. PICK s \in {"registry", "grant"} : At(s)
      BY <1>4 DEF NoRegistry
    <3>2. cmd.kind \in {"install", "connect", "redeploy"} /\ cmd.step \in 1 .. 7
          /\ cmd' = [cmd EXCEPT !.step = AfterGrant + 1, !.registry = FALSE]
      <4>1. cmd.kind = "reconnect" => AfterGrant = 3 /\ Len(Steps[cmd.kind]) = 3
        BY DEF AfterGrant, Steps
      <4>2. <<cmd.kind, cmd.step>> \in Place[s]
        BY <1>1, <3>1
      <4>3. cmd.step \in 1 .. 7
        BY <3>1, <4>2 DEF Place
      <4>4. Tolerates /\ AfterGrant # Len(Steps[cmd.kind])
            /\ cmd' = [cmd EXCEPT !.step = AfterGrant + 1, !.registry = FALSE]
        BY <1>4, <2>2 DEF NoRegistry
      <4>5. cmd.kind \in {"install", "connect", "redeploy"}
        BY <4>1, <4>4 DEF Tolerates
      <4> QED
        BY <4>3, <4>4, <4>5
    <3>3. PICK i \in Nat : i = AfterGrant + 1 /\ i >= cmd.step
      <4>1. CASE cmd.kind = "install"
        <5>1. AfterGrant = 7
          BY <4>1 DEF AfterGrant, Steps
        <5> QED
          BY <3>2, <5>1
      <4>2. CASE cmd.kind = "connect"
        <5>1. AfterGrant = 3 /\ cmd.step \in {2, 3}
          BY <1>1, <3>1, <4>2 DEF AfterGrant, Steps, Place
        <5> QED
          BY <5>1
      <4>3. CASE cmd.kind = "redeploy"
        <5>1. AfterGrant = 3 /\ cmd.step \in {2, 3}
          BY <1>1, <3>1, <4>3 DEF AfterGrant, Steps, Place
        <5> QED
          BY <5>1
      <4> QED
        BY <3>2, <4>1, <4>2, <4>3
    <3>4. cmd' = [cmd EXCEPT !.step = i, !.registry = FALSE]
      BY <3>2, <3>3
    <3>5. cmd' \in CmdState /\ cmd'.kind = cmd.kind /\ cmd'.step = i /\ cmd'.meta = cmd.meta
      BY <1>1, <3>1, <3>4, SkipMoves
    <3> QED
      BY <1>1, <1>4, <3>1, <3>2, <3>3, <3>5, GoesRecorded DEF NoRegistry, cloud
  <2> QED
    BY <2>1, <2>2
<1>5. ASSUME NEW pin \in SUBSET Image, At("image"), Settled(pin),
             UNCHANGED <<local, cluster, bucket>>, repository'.owner = repository.owner
      PROVE  Recorded'
  <2>1. cmd.todo # << >>
    BY <1>5, HeadType
  <2>2. /\ cmd' \in CmdState /\ cmd'.kind = cmd.kind /\ cmd'.meta = cmd.meta
        /\ (cmd'.step = cmd.step + 1 \/ cmd'.step = cmd.step)
    BY <1>1, <1>5, <2>1, SettledMoves
  <2>3. cmd'.step >= cmd.step /\ ~(cmd.kind \in {"deploy", "write"} /\ cmd'.step = 2)
    BY SMTT(40), <1>1, <1>5, <2>2 DEF Place, CmdState
  <2> QED
    BY <1>1, <1>5, <2>2, <2>3, GoesRecorded
<1>6. CASE ResolveImage
  <2>1. At("image") /\ Head(cmd.todo) \in Image
    BY <1>6, HeadType DEF ResolveImage
  <2>2. Settled({}) \/ Settled({Head(cmd.todo)})
    BY <1>6 DEF ResolveImage, Resolve
  <2> QED
    BY <1>5, <1>6, <2>1, <2>2 DEF ResolveImage, cloud
<1>7. CASE Assemble \/ Mirror
  <2>1. At("image") /\ cmd' = [cmd EXCEPT !.assembled = TRUE]
    BY <1>7 DEF Assemble, Mirror
  <2>2. cmd \in CmdState
    BY <1>1, <2>1
  <2>3. cmd' \in CmdState /\ cmd'.kind = cmd.kind /\ cmd'.step = cmd.step /\ cmd'.meta = cmd.meta
    BY <2>1, <2>2 DEF CmdState
  <2>4. cmd'.step >= cmd.step /\ ~(cmd.kind \in {"deploy", "write"} /\ cmd'.step = 2)
    BY SMTT(30), <1>1, <2>1, <2>3 DEF Place, CmdState
  <2> QED
    BY <1>1, <1>7, <2>1, <2>3, <2>4, GoesRecorded DEF Assemble, Mirror, cloud
<1>8. CASE PushBlobs
  <2>1. repository'.owner = repository.owner
    BY <1>8 DEF PushBlobs, TypeOK, RepositoryState
  <2> QED
    BY <1>8, <2>1 DEF PushBlobs, Recorded, OnRecord, NoOrphan, TakenDown, Early
<1>9. CASE PushManifest
  <2>1. repository'.owner = repository.owner
    BY <1>9 DEF PushManifest, TypeOK, RepositoryState
  <2>2. Head(cmd.todo) \in Image
    BY <1>9, HeadType DEF PushManifest
  <2> QED
    BY <1>5, <1>9, <2>1, <2>2 DEF PushManifest
<1>10. CASE RecordTools
  <2> DEFINE meta == [cmd.meta EXCEPT !.tools = IF cmd.kind = "toolchain" THEN cmd.pinned
                                                ELSE IF cmd.flag = "image" THEN {} ELSE @]
  <2>1. meta \in RecordState /\ meta.bucket = cmd.meta.bucket
    BY <1>1, <1>10 DEF RecordTools, RecordState, CmdState
  <2> HIDE DEF meta
  <2>2. Proceed(meta) /\ Save(meta)
    BY <1>10 DEF RecordTools, meta
  <2>3. local'.stage = local.stage /\ local'.record = meta
    BY <2>1, <2>2, SaveType
  <2>4. cmd.kind # "install"
    BY <1>1, <1>10 DEF RecordTools, Place
  <2> QED
    BY <1>1, <1>10, <2>1, <2>2, <2>3, <2>4, ProceedRecorded DEF RecordTools, cloud
<1> QED
  BY <1>2, <1>3, <1>4, <1>6, <1>7, <1>8, <1>9, <1>10 DEF RegistryStep

\* connect, redeploy and kernel deploy create nothing billable.
LEMMA ConnectRecorded == TypeOK /\ Recorded /\ ConnectStep => Recorded'
<1> SUFFICES ASSUME TypeOK, Recorded, ConnectStep PROVE Recorded'
  OBVIOUS
<1>1. ASSUME NEW s \in {"identity", "apply", "applied", "bind", "kernel", "enforce"}, At(s)
      PROVE  /\ s \in DOMAIN Place /\ cmd \in CmdState /\ cmd.meta \in RecordState
             /\ cmd.meta.bucket = local.record.bucket /\ cmd.meta.tools = local.record.tools
             /\ (cmd.kind = "install" => local.record.tools = {})
  <2>1. s \in DOMAIN Place
    BY <1>1 DEF Place
  <2> QED
    BY <1>1, <2>1, HasRecord
<1>2. CASE EnsureIdentity
  <2>1. local'.record = local.record /\ local'.stage = local.stage
    BY <1>2 DEF EnsureIdentity, TypeOK, LocalState
  <2> QED
    BY <1>1, <1>2, <2>1, ProceedRecorded DEF EnsureIdentity, cloud
<1>3. CASE ApplyFatLine \/ ApplyKernel
  BY <1>1, <1>3, ProceedRecorded DEF ApplyFatLine, ApplyKernel
<1>4. CASE RecordApplied
  <2> DEFINE meta == [cmd.meta EXCEPT !.fatline = TRUE]
  <2>1. meta \in RecordState /\ meta.bucket = cmd.meta.bucket /\ meta.tools = cmd.meta.tools
    BY <1>1, <1>4 DEF RecordApplied, RecordState
  <2> HIDE DEF meta
  <2>2. Proceed(meta) /\ (Save(meta) \/ UNCHANGED local)
    BY <1>4 DEF RecordApplied, meta
  <2> QED
    BY <1>1, <1>4, <2>1, <2>2, SaveRecorded DEF RecordApplied, cloud
<1>5. CASE BindCarrier
  <2> DEFINE meta == [cmd.meta EXCEPT !.carrier = TRUE]
  <2>1. meta \in RecordState /\ meta.bucket = cmd.meta.bucket /\ meta.tools = cmd.meta.tools
    BY <1>1, <1>5 DEF BindCarrier, RecordState
  <2> HIDE DEF meta
  <2>2. Proceed(cmd.meta) /\ Save(meta)
    BY <1>5 DEF BindCarrier, meta
  <2>3. local'.stage = local.stage /\ local'.record = meta
    BY <2>1, <2>2, SaveType
  <2> QED
    BY <1>1, <1>5, <2>1, <2>2, <2>3, ProceedRecorded DEF BindCarrier, cloud
<1>6. CASE RecordKernel
  <2> DEFINE meta == [cmd.meta EXCEPT !.kernel = TRUE]
  <2>1. meta \in RecordState /\ meta.bucket = cmd.meta.bucket /\ meta.tools = cmd.meta.tools
    BY <1>1, <1>6 DEF RecordKernel, RecordState
  <2> HIDE DEF meta
  <2>2. Proceed(meta) /\ Save(meta)
    BY <1>6 DEF RecordKernel, meta
  <2> QED
    BY <1>1, <1>6, <2>1, <2>2, SaveRecorded DEF RecordKernel, cloud
<1> QED
  BY <1>2, <1>3, <1>4, <1>5, <1>6 DEF ConnectStep

\* A command that keeps storage goes on with the bucket it has on record.
LEMMA KeepsStorage ==
  ASSUME TypeOK, Recorded, cmd \in CmdState, cmd.kind \in {"deploy", "write"},
         cmd' = Idle \/ (cmd'.kind = cmd.kind /\ cmd'.meta.bucket = local'.record.bucket
                         /\ cmd'.meta.tools = local'.record.tools
                         /\ (cmd'.step = 2 => cmd'.meta.bucket # NoName)),
         local'.stage = "recorded", UNCHANGED <<cluster, repository>>,
         \A n \in Name : bucket'[n] = "ours" => local'.record.bucket = n
  PROVE  Recorded'
<1>1. local.stage = "recorded"
  BY DEF Recorded, OnRecord, Early
<1>2. NoOrphan'
  BY <1>1 DEF Recorded, NoOrphan
<1>3. OnRecord' /\ TakenDown'
  BY <1>1 DEF Recorded, OnRecord, TakenDown, Early, Idle
<1> QED
  BY <1>2, <1>3 DEF Recorded

\* A bucket is created under a name that is on record by then, and a name is
\* given up only when it is certain that no bucket of the instance has it.
LEMMA StorageRecorded == TypeOK /\ Recorded /\ StorageStep => Recorded'
<1> SUFFICES ASSUME TypeOK, Recorded, StorageStep PROVE Recorded'
  OBVIOUS
<1>1. ASSUME NEW s \in {"mint", "ensure", "validate", "keyring", "store", "issue", "serve"}, At(s)
      PROVE  /\ s \in DOMAIN Place /\ cmd \in CmdState /\ cmd.meta \in RecordState
             /\ <<cmd.kind, cmd.step>> \in Place[s] /\ cmd.kind \in {"deploy", "write"}
             /\ local.stage = "recorded"
             /\ cmd.meta.bucket = local.record.bucket /\ cmd.meta.tools = local.record.tools
             /\ (cmd.kind = "install" => local.record.tools = {})
  <2>1. s \in DOMAIN Place
    BY <1>1 DEF Place
  <2>2. cmd.kind \in {"deploy", "write"}
    BY <1>1, <2>1, Placed DEF Place
  <2> QED
    BY <1>1, <2>1, <2>2, HasRecord, Placed
<1>2. ASSUME NEW meta \in RecordState, NEW n \in Name
      PROVE  LET m == [meta EXCEPT !.bucket = n, !.held = FALSE] IN
               m \in RecordState /\ m.bucket = n /\ m.tools = meta.tools
  BY DEF RecordState
<1>3. \A n \in Name : bucket[n] = "ours" => local.record.bucket = n
  BY DEF Recorded, NoOrphan
<1>4. ASSUME At("ensure") PROVE cmd.meta.bucket \in Name /\ cmd.meta.bucket = local.record.bucket
  <2>1. cmd.kind \in {"deploy", "write"} /\ cmd.step = 2 /\ cmd.meta \in RecordState
    BY <1>1, <1>4 DEF Place
  <2> QED
    BY <1>1, <1>4, <2>1 DEF Recorded, OnRecord, RecordState
<1>5. CASE Mint
  <2>0. /\ cmd \in CmdState /\ cmd.step = 1 /\ cmd.kind \in {"deploy", "write"} /\ cmd.meta \in RecordState
        /\ cmd.step \in 1 .. Len(Steps[cmd.kind])
    BY ZenonT(40), <1>1, <1>5, Placed DEF Mint, Place
  <2>1. PICK meta \in RecordState :
          /\ Proceed(meta) /\ meta.bucket # NoName /\ meta.tools = cmd.meta.tools
          /\ \/ UNCHANGED local /\ meta = cmd.meta
             \/ Save(meta) /\ cmd.meta.bucket = NoName
    <3>1. CASE cmd.meta.bucket # NoName
      BY <1>5, <2>0, <3>1 DEF Mint
    <3>2. CASE cmd.meta.bucket = NoName
      <4>1. PICK n \in Name : /\ Save([cmd.meta EXCEPT !.bucket = n, !.held = FALSE])
                              /\ Proceed([cmd.meta EXCEPT !.bucket = n, !.held = FALSE])
        BY <1>5, <3>2 DEF Mint
      <4> QED
        BY <1>2, <2>0, <3>2, <4>1, LifecycleAssumption
    <3> QED
      BY <3>1, <3>2
  <2>2. Moves(meta)
    BY <2>0, <2>1, ProceedMoves
  <2>3. cmd' = Idle \/ (cmd'.kind = cmd.kind /\ cmd'.meta = meta)
    BY <2>2 DEF Moves
  <2>4. CASE UNCHANGED local /\ meta = cmd.meta
    BY <1>1, <1>3, <1>5, <2>0, <2>1, <2>3, <2>4, KeepsStorage DEF Mint, cloud
  <2>5. CASE Save(meta) /\ cmd.meta.bucket = NoName
    <3>1. local'.record = meta /\ local'.stage = "recorded"
      BY <1>1, <1>5, <2>5, SaveType DEF Mint
    <3>2. \A n \in Name : bucket[n] # "ours"
      BY <1>1, <1>3, <1>5, <2>5, LifecycleAssumption DEF Mint
    <3> QED
      BY <1>5, <2>0, <2>1, <2>3, <3>1, <3>2, KeepsStorage DEF Mint, cloud
  <2> QED
    BY <2>1, <2>4, <2>5
<1>6. CASE Ensured
  <2> DEFINE meta == [cmd.meta EXCEPT !.held = TRUE]
  <2>0. /\ cmd \in CmdState /\ cmd.step = 2 /\ cmd.kind \in {"deploy", "write"} /\ cmd.meta \in RecordState
        /\ cmd.step \in 1 .. Len(Steps[cmd.kind])
    BY <1>1, <1>6, Placed DEF Ensured, Place
  <2>1. meta \in RecordState /\ meta.bucket = cmd.meta.bucket /\ meta.tools = cmd.meta.tools
    BY <2>0 DEF RecordState
  <2> HIDE DEF meta
  <2>2. Proceed(meta) /\ (Save(meta) \/ UNCHANGED local)
    BY <1>6 DEF Ensured, meta
  <2>3. cmd' = Idle \/ (cmd'.kind = cmd.kind /\ cmd'.meta = meta)
    BY <2>0, <2>1, <2>2, ProceedMoves DEF Moves
  <2>4. local'.stage = "recorded" /\ local'.record.bucket = meta.bucket /\ local'.record.tools = meta.tools
    BY <1>1, <1>6, <2>1, <2>2, SaveType DEF Ensured
  <2>5. meta.bucket \in Name /\ meta.bucket # NoName /\ meta.bucket = local.record.bucket
    BY <1>4, <1>6, <2>1, LifecycleAssumption DEF Ensured
  <2>6. bucket' = [bucket EXCEPT ![meta.bucket] = "ours"] /\ UNCHANGED <<cluster, repository>>
    BY <1>6, <2>1 DEF Ensured
  <2>7. \A n \in Name : bucket'[n] = "ours" => local'.record.bucket = n
    BY <1>3, <2>4, <2>5, <2>6 DEF TypeOK
  <2> QED
    BY <2>0, <2>3, <2>4, <2>5, <2>6, <2>7, KeepsStorage
<1>7. CASE EnsureUnrecorded
  <2>1. PICK m : m = cmd.meta.bucket /\ m \in Name /\ m = local.record.bucket
    BY <1>4, <1>7 DEF EnsureUnrecorded
  <2>2. \A n \in Name : bucket'[n] = "ours" => local.record.bucket = n
    BY <1>3, <1>7, <2>1 DEF EnsureUnrecorded, TypeOK
  <2> QED
    BY <1>1, <1>7, <2>2, KeepsStorage DEF EnsureUnrecorded
<1>8. CASE NotOwned
  <2>0. /\ cmd \in CmdState /\ cmd.kind \in {"deploy", "write"} /\ cmd.meta \in RecordState
    BY <1>1, <1>8 DEF NotOwned
  <2>1. CASE cmd' = Idle /\ UNCHANGED local
    BY <1>1, <1>3, <1>8, <2>1, KeepsStorage DEF NotOwned, cloud
  <2>2. CASE ~(cmd' = Idle /\ UNCHANGED local)
    <3>1. PICK n \in Name : /\ Save([cmd.meta EXCEPT !.bucket = n, !.held = FALSE])
                            /\ cmd' = [cmd EXCEPT !.meta = [cmd.meta EXCEPT !.bucket = n, !.held = FALSE],
                                                  !.tries = @ + 1]
      BY <1>8, <2>2 DEF NotOwned
    <3>2. PICK meta \in RecordState : /\ meta.bucket = n /\ meta.tools = cmd.meta.tools /\ Save(meta)
                                      /\ cmd' = [cmd EXCEPT !.meta = meta, !.tries = @ + 1]
      BY <1>2, <2>0, <3>1
    <3>3. cmd'.kind = cmd.kind /\ cmd'.meta = meta
      BY <2>0, <3>2 DEF CmdState
    <3>4. local'.record = meta /\ local'.stage = "recorded"
      BY <1>1, <1>8, <3>2, SaveType DEF NotOwned
    <3>5. \A k \in Name : bucket[k] # "ours"
      BY <1>3, <1>4, <1>8 DEF NotOwned, ProvenForeign
    <3>6. meta.bucket # NoName
      BY <3>2, LifecycleAssumption
    <3> QED
      BY <1>8, <2>0, <3>2, <3>3, <3>4, <3>5, <3>6, KeepsStorage DEF NotOwned, cloud
  <2> QED
    BY <2>1, <2>2
<1>9. CASE Validate
  <2>1. Proceed(cmd.meta) \/ cmd' = Idle
    BY <1>9 DEF Validate
  <2> QED
    BY <1>1, <1>9, <2>1, ProceedRecorded, EndsRecorded DEF Validate, cloud
<1>10. CASE OpenKeyring
  <2>1. local'.record = local.record /\ local'.stage = local.stage
    BY <1>10 DEF OpenKeyring, TypeOK, LocalState
  <2> QED
    BY <1>1, <1>10, <2>1, ProceedRecorded DEF OpenKeyring, cloud
<1>11. CASE StoreObject \/ ApplyKeyholder
  BY <1>1, <1>11, ProceedRecorded DEF StoreObject, ApplyKeyholder
<1>12. CASE RecordKeyholder
  <2> DEFINE meta == [cmd.meta EXCEPT !.keyholder = TRUE]
  <2>1. meta \in RecordState /\ meta.bucket = cmd.meta.bucket /\ meta.tools = cmd.meta.tools
    BY <1>1, <1>12 DEF RecordKeyholder, RecordState
  <2> HIDE DEF meta
  <2>2. Proceed(meta) /\ Save(meta)
    BY <1>12 DEF RecordKeyholder, meta
  <2> QED
    BY <1>1, <1>12, <2>1, <2>2, SaveRecorded DEF RecordKeyholder, cloud
<1> QED
  BY <1>5, <1>6, <1>7, <1>8, <1>9, <1>10, <1>11, <1>12 DEF StorageStep

\* Release takes things down in an order in which the record outlives them all.
LEMMA ReleaseRecorded == TypeOK /\ Recorded /\ ReleaseStep => Recorded'
<1> SUFFICES ASSUME TypeOK, Recorded, ReleaseStep PROVE Recorded'
  OBVIOUS
<1>1. ASSUME NEW s \in {"gate", "mark", "cluster", "unregister", "drain", "unbucket", "remove"}, At(s)
      PROVE  /\ cmd \in CmdState /\ cmd.meta \in RecordState /\ cmd.kind = "release"
             /\ cmd.step \in 1 .. Len(Steps[cmd.kind]) /\ <<cmd.kind, cmd.step>> \in Place[s]
             /\ cmd.step \in 1 .. 7
             /\ cmd.pinned = {} /\ local.stage = "recorded"
             /\ cmd.meta.bucket = local.record.bucket /\ cmd.meta.tools = local.record.tools
  <2>1. s \in DOMAIN Place
    BY <1>1 DEF Place
  <2>2. cmd.kind = "release" /\ cmd.step \in 1 .. 7
    BY <1>1, <2>1, Placed DEF Place
  <2> QED
    BY <1>1, <2>1, <2>2, Placed DEF Recorded, OnRecord, TakenDown, Early, CmdState
<1>2. ASSUME NEW s \in {"gate", "mark", "cluster", "unregister", "drain", "unbucket", "remove"}, At(s),
             NEW meta \in RecordState, meta.bucket = cmd.meta.bucket, meta.tools = cmd.meta.tools, Proceed(meta)
      PROVE  \/ cmd' = Idle
             \/ /\ cmd'.kind = "release" /\ cmd'.step = cmd.step + 1 /\ cmd'.meta = meta /\ cmd'.pinned = {}
  BY <1>1, <1>2, ProceedMoves DEF Moves
<1>3. ASSUME cmd.kind = "release", cmd.meta.bucket = local.record.bucket, cmd.meta.tools = local.record.tools,
             \/ cmd' = Idle
             \/ /\ cmd'.kind = "release" /\ cmd'.meta.bucket = cmd.meta.bucket
                /\ cmd'.meta.tools = cmd.meta.tools,
             local'.stage = "recorded", local'.record.bucket = local.record.bucket,
             local'.record.tools = local.record.tools
      PROVE  OnRecord'
  BY <1>3 DEF OnRecord, Early, Idle
<1>4. CASE Gate
  <2>0. cmd.step = 1 /\ cmd.kind = "release"
    BY <1>1, <1>4 DEF Gate, Place
  <2>1. \/ cmd' = Idle
        \/ /\ cmd'.kind = "release" /\ cmd'.step = 2 /\ cmd'.meta = cmd.meta /\ cmd'.pinned = {}
    BY <1>1, <1>2, <1>4, <2>0 DEF Gate
  <2>2. OnRecord'
    BY <1>1, <1>3, <1>4, <2>1 DEF Gate
  <2> QED
    BY <1>4, <2>1, <2>2 DEF Gate, Recorded, NoOrphan, TakenDown, Idle, cloud
<1>5. CASE MarkDeleting
  <2> DEFINE meta == [cmd.meta EXCEPT !.status = "deleting"]
  <2>0. cmd.step = 2 /\ cmd.kind = "release"
    BY <1>1, <1>5 DEF MarkDeleting, Place
  <2>1. meta \in RecordState /\ meta.bucket = cmd.meta.bucket /\ meta.tools = cmd.meta.tools
    BY <1>1, <1>5 DEF MarkDeleting, RecordState
  <2> HIDE DEF meta
  <2>2. Proceed(meta) /\ (Save(meta) \/ UNCHANGED local)
    BY <1>5 DEF MarkDeleting, meta
  <2>3. \/ cmd' = Idle
        \/ /\ cmd'.kind = "release" /\ cmd'.step = 3 /\ cmd'.meta = meta /\ cmd'.pinned = {}
    BY <1>1, <1>2, <1>5, <2>0, <2>1, <2>2 DEF MarkDeleting
  <2>4. local'.stage = "recorded" /\ local'.record.bucket = local.record.bucket
        /\ local'.record.tools = local.record.tools
    BY <1>1, <1>5, <2>1, <2>2, SaveType DEF MarkDeleting
  <2>5. OnRecord'
    BY <1>1, <1>3, <1>5, <2>1, <2>3, <2>4 DEF MarkDeleting
  <2> QED
    BY <1>5, <2>3, <2>4, <2>5 DEF MarkDeleting, Recorded, NoOrphan, TakenDown, Idle, cloud
<1>6. CASE DeleteCluster
  <2>0. cmd.step = 3 /\ cmd.kind = "release"
    BY <1>1, <1>6 DEF DeleteCluster, Place
  <2>1. \/ cmd' = Idle
        \/ /\ cmd'.kind = "release" /\ cmd'.step = 4 /\ cmd'.meta = cmd.meta /\ cmd'.pinned = {}
    BY <1>1, <1>2, <1>6, <2>0 DEF DeleteCluster
  <2>2. OnRecord'
    BY <1>1, <1>3, <1>6, <2>1 DEF DeleteCluster
  <2> QED
    BY <1>6, <2>1, <2>2 DEF DeleteCluster, Recorded, NoOrphan, TakenDown, Idle
<1>7. CASE DeleteRegistry
  <2>0. cmd.step = 4 /\ cmd.kind = "release"
    BY <1>1, <1>7 DEF DeleteRegistry, Place
  <2>1. \/ cmd' = Idle /\ UNCHANGED repository
        \/ /\ cmd' = Idle \/ (cmd'.kind = "release" /\ cmd'.step = 5 /\ cmd'.meta = cmd.meta /\ cmd'.pinned = {})
           /\ repository'.owner = "none"
    BY <1>1, <1>2, <1>7, <2>0 DEF DeleteRegistry, NoRepository
  <2>2. OnRecord'
    BY <1>1, <1>3, <1>7, <2>1 DEF DeleteRegistry
  <2> QED
    BY <1>7, <2>0, <2>1, <2>2 DEF DeleteRegistry, Recorded, NoOrphan, TakenDown, Idle
<1>8. CASE DrainObjects
  <2>0. cmd.step = 5 /\ cmd.kind = "release"
    BY <1>1, <1>8 DEF DrainObjects, Place
  <2>1. \/ cmd' = Idle
        \/ /\ cmd'.kind = "release" /\ cmd'.step = 6 /\ cmd'.meta = cmd.meta /\ cmd'.pinned = {}
    BY <1>1, <1>2, <1>8, <2>0 DEF DrainObjects
  <2>2. OnRecord'
    BY <1>1, <1>3, <1>8, <2>1 DEF DrainObjects
  <2> QED
    BY <1>8, <2>0, <2>1, <2>2 DEF DrainObjects, Recorded, NoOrphan, TakenDown, Idle
<1>9. CASE DeleteBucket
  <2>0. cmd.step = 6 /\ cmd.kind = "release"
    BY <1>1, <1>9 DEF DeleteBucket, Place
  <2>1. \/ cmd' = Idle /\ UNCHANGED bucket
        \/ /\ Proceed(cmd.meta)
           /\ bucket' = IF Opened(cmd.meta.bucket) THEN [bucket EXCEPT ![cmd.meta.bucket] = "none"] ELSE bucket
    BY <1>9 DEF DeleteBucket
  <2>2. \/ cmd' = Idle
        \/ /\ cmd'.kind = "release" /\ cmd'.step = 7 /\ cmd'.meta = cmd.meta /\ cmd'.pinned = {}
    BY <1>1, <1>2, <1>9, <2>0, <2>1 DEF DeleteBucket
  <2>3. OnRecord'
    BY <1>1, <1>3, <1>9, <2>2 DEF DeleteBucket
  <2>4. CASE cmd' = Idle /\ UNCHANGED bucket
    BY <1>9, <2>3, <2>4 DEF DeleteBucket, Recorded, NoOrphan, TakenDown, Idle
  <2>5. CASE bucket' = IF Opened(cmd.meta.bucket) THEN [bucket EXCEPT ![cmd.meta.bucket] = "none"] ELSE bucket
    <3>1. \A n \in Name : bucket[n] = "ours" => n = cmd.meta.bucket
      BY <1>1, <1>9 DEF DeleteBucket, Recorded, NoOrphan
    <3>2. \A n \in Name : bucket'[n] # "ours"
      BY <2>5, <3>1, LifecycleAssumption DEF Opened, TypeOK
    <3> QED
      BY <1>9, <2>0, <2>2, <2>3, <3>2 DEF DeleteBucket, Recorded, NoOrphan, TakenDown, Idle
  <2> QED
    BY <2>1, <2>4, <2>5
<1>10. CASE RemoveInstance
  <2>0. cmd.step = 7 /\ cmd.kind = "release"
    BY <1>1, <1>10 DEF RemoveInstance, Place
  <2>1. /\ cluster \in {"none", "stopping"} /\ repository.owner # "ours"
        /\ \A n \in Name : bucket[n] # "ours"
    BY <2>0 DEF Recorded, TakenDown
  <2>2. cmd' = Idle
    BY <1>10, <2>0 DEF RemoveInstance, Proceed, Steps
  <2> QED
    BY <1>10, <2>1, <2>2 DEF RemoveInstance, Recorded, OnRecord, NoOrphan, TakenDown, Early, Idle, cloud
<1> QED
  BY <1>4, <1>5, <1>6, <1>7, <1>8, <1>9, <1>10 DEF ReleaseStep

\* The initial scenes record what they have.
LEMMA RecordedInit == Init => Recorded
<1> SUFFICES ASSUME Init PROVE Recorded
  OBVIOUS
<1>1. cmd = Idle
  BY DEF Init, LifecycleInit
<1>2. OnRecord /\ TakenDown
  BY <1>1 DEF OnRecord, TakenDown, Early, Idle
<1>3. CASE InitNone
  <2>1. repository.owner # "ours" /\ cluster = "none" /\ \A n \in Name : bucket[n] # "ours"
    BY <1>3 DEF InitNone, NoRepository
  <2> QED
    BY <1>2, <2>1 DEF Recorded, NoOrphan
<1>4. CASE InitConnected
  BY <1>2, <1>4 DEF InitConnected, Recorded, NoOrphan
<1> QED
  BY <1>3, <1>4 DEF Init, LifecycleInit

\* Whatever happens next, what exists stays on record.
LEMMA RecordedStep == TypeOK /\ HasTodo /\ JobType /\ Recorded /\ [Next]_vars => Recorded'
<1> SUFFICES ASSUME TypeOK, HasTodo, JobType, Recorded, [Next]_vars PROVE Recorded'
  OBVIOUS
<1> USE DEF cloud
<1>1. CASE Interrupt
  BY <1>1, EndsRecorded DEF Interrupt
<1>2. CASE ClusterMoves
  BY <1>2 DEF ClusterMoves, Recorded, OnRecord, NoOrphan, TakenDown, Early
<1>3. ASSUME UNCHANGED <<local, cluster, repository, bucket, cmd>> PROVE Recorded'
  BY <1>3 DEF Recorded, OnRecord, NoOrphan, TakenDown, Early
<1>4. CASE AppWrites \/ Leave
  BY <1>3, <1>4 DEF AppWrites, Leave
<1>5. ASSUME NEW n \in Name, BucketChanges(n) PROVE Recorded'
  <2>1. \A k \in Name : bucket'[k] = "ours" => bucket[k] = "ours"
    BY <1>5 DEF BucketChanges, TypeOK
  <2> QED
    BY <1>5, <2>1 DEF BucketChanges, Recorded, OnRecord, NoOrphan, TakenDown, Early
<1>6. CASE LifecycleNext
  BY <1>1, <1>2, <1>4, <1>5, <1>6, CommandRecorded, InstallRecorded, RegistryRecorded, ConnectRecorded,
     StorageRecorded, ReleaseRecorded DEF LifecycleNext
<1>7. ASSUME NEW flag \in {"none", "image"}, Run(flag) \/ Build(flag) PROVE Recorded'
  <2>1. 1 \in 1 .. Len(Steps["run"]) /\ 1 \in 1 .. Len(Steps["build"])
    BY DEF Steps
  <2> QED
    BY <1>7, <2>1, BeginRecorded DEF Run, Build, CmdKind
<1>8. CASE Fetch \/ Read \/ Confirm \/ StartBuild \/ AwaitBuild \/ ReportBuild \/ Launch
  <2>1. Delivers /\ UNCHANGED <<scene, local, cloud, roots>>
    BY <1>8, DeliveryMoves
  <2>2. CASE cmd' = Idle
    BY <2>1, <2>2, EndsRecorded
  <2>3. CASE cmd' # Idle
    BY <2>1, <2>3 DEF Delivers, Recorded, OnRecord, NoOrphan, TakenDown, Early
  <2> QED
    BY <2>2, <2>3
<1>9. CASE UNCHANGED lifecycleVars
  BY <1>3, <1>9 DEF lifecycleVars
<1> QED
  BY <1>6, <1>7, <1>8, <1>9 DEF Next, DeliveryNext, JobEnds, JobExpires, Commit, vars

-----------------------------------------------------------------------------
(* What is deployed: one trust root, and images that are there *)

Deployed == NothingDeployed /\ TrustRootShared /\ BlobsFirst /\ PinnedThere /\ PullsThere

\* A command is over, has only begun, or goes on with the images it pinned; it
\* is not one that runs an application.
Keeps ==
    \/ cmd'.kind = "none"
    \/ cmd'.kind # "run" /\ cmd'.pinned = {}
    \/ cmd.kind \notin {"none", "run"} /\ cmd'.kind = cmd.kind /\ cmd'.pinned = cmd.pinned

\* A step that deploys nothing and takes nothing down.
Quiet ==
    /\ UNCHANGED <<cluster, trusts, pulls>>
    /\ repository'.blobs = repository.blobs /\ repository'.manifests = repository.manifests
    /\ local'.root = local.root /\ local'.record.tools = local.record.tools

\* Such a step leaves what is deployed as it was.
LEMMA QuietDeployed ==
  ASSUME Deployed, Quiet, Keeps \/ UNCHANGED cmd \/ (cmd.kind # "none" /\ cmd'.pinned = cmd.pinned)
  PROVE  Deployed'
  BY DEF Deployed, Quiet, Keeps, NothingDeployed, TrustRootShared, BlobsFirst, PinnedThere, PullsThere

\* A command goes on and keeps what it pinned, unless it runs an application.
LEMMA ProceedKeeps ==
  ASSUME TypeOK, NEW s \in DOMAIN Place, At(s), cmd.kind # "run",
         NEW meta \in RecordState, Proceed(meta)
  PROVE  Keeps
<1>1. cmd \in CmdState /\ Moves(meta)
  BY Placed, ProceedMoves
<1>2. cmd.kind # "none"
  BY DEF At
<1> QED
  BY <1>1, <1>2 DEF Moves, Keeps, Idle

\* No command deploys anything as it begins.
LEMMA CommandDeployed == TypeOK /\ Recorded /\ Deployed /\ Command => Deployed' /\ Keeps
<1> SUFFICES ASSUME TypeOK, Recorded, Deployed, Command PROVE Deployed' /\ Keeps
  OBVIOUS
<1>1. ASSUME NEW kind, NEW step, NEW flag, kind # "run", Begin(kind, step, flag)
      PROVE  Deployed' /\ Keeps
  <2>1. cmd'.kind = kind /\ cmd'.pinned = {} /\ Quiet
    BY <1>1 DEF Begin, Started, Quiet, cloud
  <2>2. Keeps
    BY <1>1, <2>1 DEF Keeps
  <2> QED
    BY <2>1, <2>2, QuietDeployed
<1>2. CASE Install
  <2>1. Keeps
    BY <1>2 DEF Install, Started, Keeps
  <2>2. cmd'.pinned = {} /\ local'.record.tools = {} /\ local'.root = 0
    BY <1>2 DEF Install, Started, NoInstance, NoRecord
  <2>3. cluster \notin {"creating", "running", "error"}
    BY <1>2 DEF Install, Recorded, NoOrphan
  <2> QED
    BY <1>2, <2>1, <2>2, <2>3
    DEF Install, cloud, Deployed, NothingDeployed, TrustRootShared, BlobsFirst, PinnedThere, PullsThere
<1>3. CASE StorageWrite \/ Toolchain
  BY <1>1, <1>3 DEF StorageWrite, Toolchain
<1>4. ASSUME NEW flag, Connect(flag) \/ Redeploy(flag) \/ StorageDeploy(flag) \/ KernelDeploy(flag)
      PROVE  Deployed' /\ Keeps
  <2>1. CASE Connect(flag)
    BY <1>1, <2>1 DEF Connect
  <2>2. CASE StorageDeploy(flag)
    BY <1>1, <2>2 DEF StorageDeploy
  <2>3. CASE Redeploy(flag) \/ KernelDeploy(flag)
    BY <1>1, <2>3 DEF Redeploy, KernelDeploy
  <2> QED
    BY <1>4, <2>1, <2>2, <2>3
<1>5. ASSUME NEW flag, Release(flag) PROVE Deployed' /\ Keeps
  BY <1>1, <1>5 DEF Release
<1> QED
  BY <1>2, <1>3, <1>4, <1>5 DEF Command

\* Install creates a cluster with nothing on it.
LEMMA InstallDeployed == TypeOK /\ Recorded /\ Deployed /\ InstallStep => Deployed' /\ Keeps
<1> SUFFICES ASSUME TypeOK, Recorded, Deployed, InstallStep PROVE Deployed' /\ Keeps
  OBVIOUS
<1> USE DEF cloud
<1>1. ASSUME NEW s \in {"credentials", "record", "create", "wait", "kubeconfig", "finish"}, At(s)
      PROVE  /\ s \in DOMAIN Place /\ cmd.kind = "install" /\ cmd.meta \in RecordState
             /\ local.record.tools = {} /\ cmd.meta.tools = {}
  <2>1. s \in DOMAIN Place /\ cmd.kind = "install" /\ cmd.meta \in RecordState
    BY <1>1, Placed DEF Place, CmdState
  <2> QED
    BY <2>1 DEF Recorded, OnRecord
<1>2. CASE SaveCredentials \/ SaveKubeconfig
  <2>1. Keeps
    BY <1>1, <1>2, ProceedKeeps DEF SaveCredentials, SaveKubeconfig
  <2>2. local'.record = local.record /\ local'.root = local.root
    BY <1>2 DEF SaveCredentials, SaveKubeconfig, TypeOK, LocalState
  <2>3. Quiet
    BY <1>2, <2>2 DEF SaveCredentials, SaveKubeconfig, Quiet
  <2> QED
    BY <2>1, <2>3, QuietDeployed
<1>3. CASE RecordIntent
  <2>1. Keeps
    BY <1>1, <1>3, ProceedKeeps DEF RecordIntent
  <2>2. local'.record = cmd.meta /\ local'.root = local.root
    BY <1>3 DEF RecordIntent, TypeOK, LocalState
  <2>3. Quiet
    BY <1>1, <1>3, <2>2 DEF RecordIntent, Quiet
  <2> QED
    BY <2>1, <2>3, QuietDeployed
<1>4. CASE CreateCluster
  <2>1. Keeps
    BY <1>1, <1>4, ProceedKeeps DEF CreateCluster
  <2>2. PinnedThere'
    BY <1>4, <2>1 DEF CreateCluster, Keeps, Deployed, PinnedThere
  <2>3. local.record.tools = {}
    BY <1>1, <1>4 DEF CreateCluster
  <2> QED
    BY <1>4, <2>1, <2>2, <2>3
    DEF CreateCluster, Deployed, NothingDeployed, TrustRootShared, BlobsFirst, PullsThere
<1>5. CASE WaitReady
  <2>1. Keeps /\ Quiet
    BY <1>1, <1>5, ProceedKeeps DEF WaitReady, Quiet
  <2> QED
    BY <2>1, QuietDeployed
<1>6. CASE ProvisioningFails
  <2>1. cmd.meta \in RecordState /\ cmd.meta.tools = local.record.tools
    BY <1>1, <1>6 DEF ProvisioningFails
  <2>2. local'.record = [cmd.meta EXCEPT !.status = "error"] /\ local'.root = local.root
    BY <1>6 DEF ProvisioningFails, TypeOK, LocalState
  <2>3. local'.record.tools = local.record.tools
    BY <2>1, <2>2 DEF RecordState
  <2>4. Keeps /\ Quiet
    BY <1>6, <2>2, <2>3 DEF ProvisioningFails, Keeps, Quiet, Idle
  <2> QED
    BY <2>4, QuietDeployed
<1>7. CASE Finish
  <2>1. PICK status \in {"running", "unreachable"} :
          local' = [local EXCEPT !.stage = "recorded", !.record = [cmd.meta EXCEPT !.status = status]]
    BY <1>7 DEF Finish
  <2>2. cmd.meta \in RecordState /\ cmd.meta.tools = local.record.tools
    BY <1>1, <1>7 DEF Finish
  <2>3. local'.record = [cmd.meta EXCEPT !.status = status] /\ local'.root = local.root
    BY <2>1 DEF TypeOK, LocalState
  <2>4. local'.record.tools = local.record.tools
    BY <2>2, <2>3 DEF RecordState
  <2>5. Keeps /\ Quiet
    BY <1>1, <1>7, <2>3, <2>4, ProceedKeeps DEF Finish, Quiet
  <2> QED
    BY <2>5, QuietDeployed
<1> QED
  BY <1>2, <1>3, <1>4, <1>5, <1>6, <1>7 DEF InstallStep

\* A manifest is pushed after its blobs, and an image is pinned once its
\* manifest is there.
LEMMA RegistryDeployed ==
  TypeOK /\ HasTodo /\ Recorded /\ Deployed /\ RegistryStep => Deployed' /\ (UNCHANGED cmd \/ cmd'.kind # "run")
<1> SUFFICES ASSUME TypeOK, HasTodo, Recorded, Deployed, RegistryStep
             PROVE  Deployed' /\ (UNCHANGED cmd \/ cmd'.kind # "run")
  OBVIOUS
<1> USE DEF cloud
<1>0. repository \in RepositoryState
  BY DEF TypeOK
<1>1. ASSUME NEW s \in {"registry", "grant", "image", "tools"}, At(s)
      PROVE  /\ s \in DOMAIN Place /\ cmd \in CmdState /\ cmd.meta \in RecordState
             /\ cmd.kind # "none" /\ (s # "tools" => cmd.kind # "run")
             /\ <<cmd.kind, cmd.step>> \in Place[s] /\ cmd.step \in 1 .. Len(Steps[cmd.kind])
             /\ cmd.meta.tools = local.record.tools
  <2>1. s \in DOMAIN Place
    BY <1>1 DEF Place
  <2>2. <<cmd.kind, cmd.step>> \in Place[s] /\ cmd.step \in 1 .. Len(Steps[cmd.kind])
    BY <1>1, <2>1, Placed
  <2>3. s # "tools" => cmd.kind # "run"
    BY <1>1, <2>2 DEF Place
  <2> QED
    BY <1>1, <2>1, <2>2, <2>3, HasRecord
<1>2. CASE CreateRepository
  <2>1. repository'.blobs = repository.blobs /\ repository'.manifests = repository.manifests
    BY <1>0, <1>2 DEF CreateRepository, RepositoryState
  <2>2. Keeps /\ Quiet
    BY <1>1, <1>2, <2>1, ProceedKeeps DEF CreateRepository, Quiet
  <2> QED
    BY <2>2, QuietDeployed DEF Keeps
<1>3. CASE GrantPull
  <2> DEFINE meta == [cmd.meta EXCEPT !.registry = TRUE]
  <2>1. meta \in RecordState /\ meta.tools = local.record.tools
    BY <1>1, <1>3 DEF GrantPull, RecordState
  <2> HIDE DEF meta
  <2>2. Proceed(meta) /\ (Save(meta) \/ UNCHANGED local)
    BY <1>3 DEF GrantPull, meta
  <2>3. repository'.blobs = repository.blobs /\ repository'.manifests = repository.manifests
    BY <1>0, <1>3 DEF GrantPull, RepositoryState
  <2>4. local'.record.tools = local.record.tools /\ local'.root = local.root
    BY <2>1, <2>2, SaveType
  <2>5. Keeps /\ Quiet
    BY <1>1, <1>3, <2>1, <2>2, <2>3, <2>4, ProceedKeeps DEF GrantPull, Quiet
  <2> QED
    BY <2>5, QuietDeployed DEF Keeps
<1>4. CASE NoRegistry
  <2>0. Quiet
    BY <1>4 DEF NoRegistry, Quiet
  <2>1. CASE cmd' = Idle
    <3>1. Keeps
      BY <2>1 DEF Keeps, Idle
    <3> QED
      BY <2>0, <3>1, QuietDeployed DEF Keeps
  <2>2. CASE cmd' # Idle
    <3>1. cmd' = [cmd EXCEPT !.step = AfterGrant + 1, !.registry = FALSE]
      BY <1>4, <2>2 DEF NoRegistry
    <3>2. cmd \in CmdState /\ cmd.kind \notin {"none", "run"}
      BY <1>1, <1>4 DEF NoRegistry
    <3>3. cmd'.kind = cmd.kind /\ cmd'.pinned = cmd.pinned
      BY <3>1, <3>2 DEF CmdState
    <3>4. Keeps
      BY <3>2, <3>3 DEF Keeps
    <3> QED
      BY <2>0, <3>4, QuietDeployed DEF Keeps
  <2> QED
    BY <2>1, <2>2
<1>5. ASSUME NEW pin \in SUBSET Image, At("image"), Settled(pin)
      PROVE  cmd'.kind = cmd.kind /\ cmd'.pinned = cmd.pinned \union pin /\ cmd.kind \notin {"none", "run"}
  <2>1. cmd.todo # << >>
    BY <1>5, HeadType
  <2> QED
    BY <1>1, <1>5, <2>1, SettledMoves
<1>6. CASE ResolveImage
  <2>1. At("image") /\ Head(cmd.todo) \in Image
    BY <1>6, HeadType DEF ResolveImage
  <2>2. PICK pin \in SUBSET Image : Settled(pin) /\ pin \subseteq repository.manifests
    <3>1. Settled({}) \/ (Settled({Head(cmd.todo)}) /\ Head(cmd.todo) \in repository.manifests)
      BY <1>6 DEF ResolveImage, Resolve
    <3> QED
      BY <2>1, <3>1
  <2>3. cmd'.kind = cmd.kind /\ cmd'.pinned = cmd.pinned \union pin /\ cmd.kind \notin {"none", "run"}
    BY <1>5, <2>1, <2>2
  <2>4. PinnedThere'
    BY <1>6, <2>2, <2>3 DEF ResolveImage, Deployed, PinnedThere
  <2> QED
    BY <1>6, <2>3, <2>4
    DEF ResolveImage, Deployed, NothingDeployed, TrustRootShared, BlobsFirst, PullsThere
<1>7. CASE Assemble \/ Mirror
  <2>1. At("image") /\ cmd' = [cmd EXCEPT !.assembled = TRUE]
    BY <1>7 DEF Assemble, Mirror
  <2>2. cmd \in CmdState /\ cmd.kind \notin {"none", "run"}
    BY <1>1, <2>1
  <2>3. cmd'.kind = cmd.kind /\ cmd'.pinned = cmd.pinned
    BY <2>1, <2>2 DEF CmdState
  <2>4. Keeps /\ Quiet
    BY <1>7, <2>2, <2>3 DEF Assemble, Mirror, Keeps, Quiet
  <2> QED
    BY <2>4, QuietDeployed DEF Keeps
<1>8. CASE PushBlobs
  <2>1. repository'.manifests = repository.manifests /\ repository.blobs \subseteq repository'.blobs
    BY <1>0, <1>8 DEF PushBlobs, RepositoryState
  <2> QED
    BY <1>8, <2>1
    DEF PushBlobs, Deployed, NothingDeployed, TrustRootShared, BlobsFirst, PinnedThere, PullsThere
<1>9. CASE PushManifest
  <2>1. PICK i \in Image : i = Head(cmd.todo)
    BY <1>9, HeadType DEF PushManifest
  <2>2. /\ repository'.manifests = repository.manifests \union {i}
        /\ repository'.blobs = repository.blobs /\ i \in repository.blobs
    BY <1>0, <1>9, <2>1 DEF PushManifest, Pushed, RepositoryState
  <2>3. cmd'.kind = cmd.kind /\ cmd'.pinned = cmd.pinned \union {i} /\ cmd.kind \notin {"none", "run"}
    BY <1>5, <1>9, <2>1 DEF PushManifest
  <2>4. BlobsFirst' /\ PinnedThere'
    BY <2>2, <2>3 DEF Deployed, BlobsFirst, PinnedThere
  <2> QED
    BY <1>9, <2>2, <2>3, <2>4 DEF PushManifest, Deployed, NothingDeployed, TrustRootShared, PullsThere
<1>10. CASE RecordTools
  <2> DEFINE tools == IF cmd.kind = "toolchain" THEN cmd.pinned
                      ELSE IF cmd.flag = "image" THEN {} ELSE cmd.meta.tools
             meta == [cmd.meta EXCEPT !.tools = tools]
  <2>0. cmd \in CmdState /\ cmd.meta \in RecordState
    BY <1>1, <1>10 DEF RecordTools
  <2>1. meta \in RecordState /\ meta.tools = tools
    BY <2>0 DEF RecordState, CmdState
  <2>2. tools \subseteq local.record.tools \union cmd.pinned
    BY <1>1, <1>10 DEF RecordTools
  <2>3. Save(meta) /\ Proceed(meta)
    BY <1>10 DEF RecordTools
  <2> HIDE DEF meta, tools
  <2>4. local'.record = meta /\ local'.root = local.root
    BY <2>1, <2>3, SaveType
  <2>5. cmd' = Idle
    <3>1. (cmd.kind = "toolchain" /\ cmd.step = 4) \/ (cmd.kind = "run" /\ cmd.step = 7)
      BY <1>1, <1>10 DEF RecordTools, Place
    <3>2. Len(Steps["toolchain"]) = 4 /\ Len(Steps["run"]) = 7
      BY DEF Steps
    <3>3. cmd.step = Len(Steps[cmd.kind])
      BY <3>1, <3>2
    <3> QED
      BY <2>3, <3>3 DEF Proceed
  <2>6. PullsThere'
    <3>1. cmd.pinned \subseteq repository.manifests
      BY <1>1, <1>10 DEF RecordTools, Deployed, PinnedThere
    <3> QED
      BY <1>10, <2>1, <2>2, <2>4, <3>1 DEF RecordTools, Deployed, PullsThere
  <2>7. PinnedThere' /\ cmd'.kind # "run"
    BY <2>5 DEF PinnedThere, Idle
  <2> QED
    BY <1>10, <2>4, <2>6, <2>7 DEF RecordTools, Deployed, NothingDeployed, TrustRootShared, BlobsFirst
<1> QED
  BY <1>2, <1>3, <1>4, <1>6, <1>7, <1>8, <1>9, <1>10 DEF RegistryStep

\* What is applied trusts this machine's root, and pulls what was pinned.
LEMMA PulledThere ==
  ASSUME TypeOK, Recorded, Deployed, cmd.kind \notin {"none", "run"}, Keeps, cluster = "running",
         pulls' = Pulled, UNCHANGED <<local, cluster, repository>>,
         \A w \in Workload : trusts'[w] \in {trusts[w], local.root}
  PROVE  Deployed'
<1>1. pulls' \subseteq pulls \union cmd.pinned
  BY DEF Pulled
<1>2. cmd.pinned \subseteq repository.manifests
  BY DEF Deployed, PinnedThere
<1>3. PullsThere'
  BY <1>1, <1>2 DEF Deployed, PullsThere
<1>4. PinnedThere'
  BY DEF Keeps, Deployed, PinnedThere
<1>5. TrustRootShared' /\ NothingDeployed' /\ BlobsFirst'
  BY DEF Deployed, TrustRootShared, NothingDeployed, BlobsFirst
<1> QED
  BY <1>3, <1>4, <1>5 DEF Deployed

\* A trust root is minted only when there is none, so that no workload that is
\* deployed has another.
LEMMA ConnectDeployed == TypeOK /\ Recorded /\ Deployed /\ ConnectStep => Deployed' /\ Keeps
<1> SUFFICES ASSUME TypeOK, Recorded, Deployed, ConnectStep PROVE Deployed' /\ Keeps
  OBVIOUS
<1> USE DEF cloud
<1>1. ASSUME NEW s \in {"identity", "apply", "applied", "bind", "kernel", "enforce"}, At(s)
      PROVE  /\ s \in DOMAIN Place /\ cmd.meta \in RecordState /\ cmd.kind \notin {"none", "run"}
             /\ cmd.meta.tools = local.record.tools
  <2>1. s \in DOMAIN Place
    BY <1>1 DEF Place
  <2>2. cmd.kind # "run"
    BY <1>1, <2>1, Placed DEF Place
  <2> QED
    BY <1>1, <2>1, <2>2, HasRecord
<1>2. CASE EnsureIdentity
  <2>1. Keeps
    BY <1>1, <1>2, ProceedKeeps DEF EnsureIdentity
  <2>2. local'.record = local.record /\ (local.root # 0 => local'.root = local.root)
    BY <1>2 DEF EnsureIdentity, TypeOK, LocalState
  <2>3. TrustRootShared'
    BY <1>2, <2>2 DEF EnsureIdentity, Deployed, TrustRootShared
  <2>4. PinnedThere'
    BY <1>2, <2>1 DEF EnsureIdentity, Keeps, Deployed, PinnedThere
  <2> QED
    BY <1>2, <2>1, <2>2, <2>3, <2>4 DEF EnsureIdentity, Deployed, NothingDeployed, BlobsFirst, PullsThere
<1>3. CASE ApplyFatLine
  <2>1. Keeps
    BY <1>1, <1>3, ProceedKeeps DEF ApplyFatLine
  <2>2. \A w \in Workload : trusts'[w] \in {trusts[w], local.root}
    BY <1>3 DEF ApplyFatLine, TypeOK
  <2> QED
    BY <1>1, <1>3, <2>1, <2>2, PulledThere DEF ApplyFatLine, Reaches
<1>4. CASE ApplyKernel
  <2>1. Keeps
    BY <1>1, <1>4, ProceedKeeps DEF ApplyKernel
  <2> QED
    BY <1>1, <1>4, <2>1, PulledThere DEF ApplyKernel, Reaches
<1>5. CASE RecordApplied
  <2> DEFINE meta == [cmd.meta EXCEPT !.fatline = TRUE]
  <2>1. meta \in RecordState /\ meta.tools = local.record.tools
    BY <1>1, <1>5 DEF RecordApplied, RecordState
  <2> HIDE DEF meta
  <2>2. Proceed(meta) /\ (Save(meta) \/ UNCHANGED local)
    BY <1>5 DEF RecordApplied, meta
  <2>3. local'.record.tools = local.record.tools /\ local'.root = local.root
    BY <2>1, <2>2, SaveType
  <2>4. Keeps /\ Quiet
    BY <1>1, <1>5, <2>1, <2>2, <2>3, ProceedKeeps DEF RecordApplied, Quiet
  <2> QED
    BY <2>4, QuietDeployed
<1>6. CASE BindCarrier
  <2> DEFINE meta == [cmd.meta EXCEPT !.carrier = TRUE]
  <2>1. meta \in RecordState /\ meta.tools = local.record.tools
    BY <1>1, <1>6 DEF BindCarrier, RecordState
  <2> HIDE DEF meta
  <2>2. Proceed(cmd.meta) /\ Save(meta)
    BY <1>6 DEF BindCarrier, meta
  <2>3. local'.record.tools = local.record.tools /\ local'.root = local.root
    BY <2>1, <2>2, SaveType
  <2>4. Keeps /\ Quiet
    BY <1>1, <1>6, <2>2, <2>3, ProceedKeeps DEF BindCarrier, Quiet
  <2> QED
    BY <2>4, QuietDeployed
<1>7. CASE RecordKernel
  <2> DEFINE meta == [cmd.meta EXCEPT !.kernel = TRUE]
  <2>1. meta \in RecordState /\ meta.tools = local.record.tools
    BY <1>1, <1>7 DEF RecordKernel, RecordState
  <2> HIDE DEF meta
  <2>2. Proceed(meta) /\ Save(meta)
    BY <1>7 DEF RecordKernel, meta
  <2>3. local'.record.tools = local.record.tools /\ local'.root = local.root
    BY <2>1, <2>2, SaveType
  <2>4. Keeps /\ Quiet
    BY <1>1, <1>7, <2>1, <2>2, <2>3, ProceedKeeps DEF RecordKernel, Quiet
  <2> QED
    BY <2>4, QuietDeployed
<1> QED
  BY <1>2, <1>3, <1>4, <1>5, <1>6, <1>7 DEF ConnectStep

\* The keyholder is given the trust root that FatLine has.
LEMMA StorageDeployed == TypeOK /\ Recorded /\ Deployed /\ StorageStep => Deployed' /\ Keeps
<1> SUFFICES ASSUME TypeOK, Recorded, Deployed, StorageStep PROVE Deployed' /\ Keeps
  OBVIOUS
<1> USE DEF cloud
<1>1. ASSUME NEW s \in {"mint", "ensure", "validate", "keyring", "store", "issue", "serve"}, At(s)
      PROVE  /\ s \in DOMAIN Place /\ cmd \in CmdState /\ cmd.meta \in RecordState
             /\ cmd.kind \notin {"none", "run"} /\ cmd.meta.tools = local.record.tools
  <2>1. s \in DOMAIN Place
    BY <1>1 DEF Place
  <2>2. cmd.kind # "run"
    BY <1>1, <2>1, Placed DEF Place
  <2> QED
    BY <1>1, <2>1, <2>2, HasRecord
<1>2. ASSUME NEW meta \in RecordState, NEW n \in Name
      PROVE  LET m == [meta EXCEPT !.bucket = n, !.held = FALSE] IN
               m \in RecordState /\ m.tools = meta.tools
  BY DEF RecordState
<1>3. CASE Mint
  <2>0. cmd.meta \in RecordState
    BY <1>1, <1>3 DEF Mint
  <2>1. PICK meta \in RecordState :
          Proceed(meta) /\ meta.tools = cmd.meta.tools /\ (UNCHANGED local \/ Save(meta))
    <3>1. CASE cmd.meta.bucket # NoName
      BY <1>3, <2>0, <3>1 DEF Mint
    <3>2. CASE cmd.meta.bucket = NoName
      <4>1. PICK n \in Name : /\ Save([cmd.meta EXCEPT !.bucket = n, !.held = FALSE])
                              /\ Proceed([cmd.meta EXCEPT !.bucket = n, !.held = FALSE])
        BY <1>3, <3>2 DEF Mint
      <4> QED
        BY <1>2, <2>0, <4>1
    <3> QED
      BY <3>1, <3>2
  <2>2. local'.record.tools = local.record.tools /\ local'.root = local.root
    <3>1. cmd.meta.tools = local.record.tools
      BY <1>1, <1>3 DEF Mint
    <3> QED
      BY <2>1, <3>1, SaveType
  <2>3. Keeps /\ Quiet
    BY <1>1, <1>3, <2>1, <2>2, ProceedKeeps DEF Mint, Quiet
  <2> QED
    BY <2>3, QuietDeployed
<1>4. CASE Ensured
  <2> DEFINE meta == [cmd.meta EXCEPT !.held = TRUE]
  <2>1. meta \in RecordState /\ meta.tools = local.record.tools
    BY <1>1, <1>4 DEF Ensured, RecordState
  <2> HIDE DEF meta
  <2>2. Proceed(meta) /\ (Save(meta) \/ UNCHANGED local)
    BY <1>4 DEF Ensured, meta
  <2>3. local'.record.tools = local.record.tools /\ local'.root = local.root
    BY <2>1, <2>2, SaveType
  <2>4. Keeps /\ Quiet
    BY <1>1, <1>4, <2>1, <2>2, <2>3, ProceedKeeps DEF Ensured, Quiet
  <2> QED
    BY <2>4, QuietDeployed
<1>5. CASE EnsureUnrecorded
  <2>1. Keeps /\ Quiet
    BY <1>5 DEF EnsureUnrecorded, Keeps, Quiet, Idle
  <2> QED
    BY <2>1, QuietDeployed
<1>6. CASE NotOwned
  <2>0. /\ cmd \in CmdState /\ cmd.kind \notin {"none", "run"} /\ cmd.meta \in RecordState
        /\ cmd.meta.tools = local.record.tools
    BY <1>1, <1>6 DEF NotOwned
  <2>1. CASE cmd' = Idle /\ UNCHANGED local
    <3>1. Keeps /\ Quiet
      BY <1>6, <2>1 DEF NotOwned, Keeps, Quiet, Idle
    <3> QED
      BY <3>1, QuietDeployed
  <2>2. CASE ~(cmd' = Idle /\ UNCHANGED local)
    <3>1. PICK n \in Name : /\ Save([cmd.meta EXCEPT !.bucket = n, !.held = FALSE])
                            /\ cmd' = [cmd EXCEPT !.meta = [cmd.meta EXCEPT !.bucket = n, !.held = FALSE],
                                                  !.tries = @ + 1]
      BY <1>6, <2>2 DEF NotOwned
    <3>2. PICK meta \in RecordState : /\ meta.tools = cmd.meta.tools /\ Save(meta)
                                      /\ cmd' = [cmd EXCEPT !.meta = meta, !.tries = @ + 1]
      BY <1>2, <2>0, <3>1
    <3>3. cmd'.kind = cmd.kind /\ cmd'.pinned = cmd.pinned
      BY <2>0, <3>2 DEF CmdState
    <3>4. local'.record = meta /\ local'.root = local.root
      BY <3>2, SaveType
    <3>5. Keeps /\ Quiet
      BY <1>6, <2>0, <3>2, <3>3, <3>4 DEF NotOwned, Keeps, Quiet
    <3> QED
      BY <3>5, QuietDeployed
  <2> QED
    BY <2>1, <2>2
<1>7. CASE Validate
  <2>1. Proceed(cmd.meta) \/ cmd' = Idle
    BY <1>7 DEF Validate
  <2>2. Keeps
    BY <1>1, <1>7, <2>1, ProceedKeeps DEF Validate, Keeps, Idle
  <2>3. Quiet
    BY <1>7 DEF Validate, Quiet
  <2> QED
    BY <2>2, <2>3, QuietDeployed
<1>8. CASE OpenKeyring
  <2>1. local'.record = local.record /\ local'.root = local.root
    BY <1>8 DEF OpenKeyring, TypeOK, LocalState
  <2>2. Keeps /\ Quiet
    BY <1>1, <1>8, <2>1, ProceedKeeps DEF OpenKeyring, Quiet
  <2> QED
    BY <2>2, QuietDeployed
<1>9. CASE StoreObject
  <2>1. Keeps /\ Quiet
    BY <1>1, <1>9, ProceedKeeps DEF StoreObject, Quiet
  <2> QED
    BY <2>1, QuietDeployed
<1>10. CASE RecordKeyholder
  <2> DEFINE meta == [cmd.meta EXCEPT !.keyholder = TRUE]
  <2>1. meta \in RecordState /\ meta.tools = local.record.tools
    BY <1>1, <1>10 DEF RecordKeyholder, RecordState
  <2> HIDE DEF meta
  <2>2. Proceed(meta) /\ Save(meta)
    BY <1>10 DEF RecordKeyholder, meta
  <2>3. local'.record.tools = local.record.tools /\ local'.root = local.root
    BY <2>1, <2>2, SaveType
  <2>4. Keeps /\ Quiet
    BY <1>1, <1>10, <2>1, <2>2, <2>3, ProceedKeeps DEF RecordKeyholder, Quiet
  <2> QED
    BY <2>4, QuietDeployed
<1>11. CASE ApplyKeyholder
  <2>1. Keeps
    BY <1>1, <1>11, ProceedKeeps DEF ApplyKeyholder
  <2>2. \A w \in Workload : trusts'[w] \in {trusts[w], local.root}
    BY <1>11 DEF ApplyKeyholder, TypeOK
  <2> QED
    BY <1>1, <1>11, <2>1, <2>2, PulledThere DEF ApplyKeyholder, Reaches
<1> QED
  BY <1>3, <1>4, <1>5, <1>6, <1>7, <1>8, <1>9, <1>10, <1>11 DEF StorageStep

\* The repository and the trust root go after the cluster that needs them.
LEMMA ReleaseDeployed == TypeOK /\ Recorded /\ Deployed /\ ReleaseStep => Deployed' /\ Keeps
<1> SUFFICES ASSUME TypeOK, Recorded, Deployed, ReleaseStep PROVE Deployed' /\ Keeps
  OBVIOUS
<1> USE DEF cloud
<1>1. ASSUME NEW s \in {"gate", "mark", "cluster", "unregister", "drain", "unbucket", "remove"}, At(s)
      PROVE  /\ s \in DOMAIN Place /\ cmd \in CmdState /\ cmd.meta \in RecordState /\ cmd.kind = "release"
             /\ <<cmd.kind, cmd.step>> \in Place[s] /\ cmd.pinned = {}
             /\ cmd.meta.tools = local.record.tools
  <2>1. s \in DOMAIN Place
    BY <1>1 DEF Place
  <2>2. cmd.kind = "release"
    BY <1>1, <2>1, Placed DEF Place
  <2> QED
    BY <1>1, <2>1, <2>2, Placed DEF Recorded, OnRecord, TakenDown, Early, CmdState
<1>2. ASSUME NEW s \in {"gate", "mark", "cluster", "unregister", "drain", "unbucket", "remove"}, At(s),
             NEW meta \in RecordState, cmd' = Idle \/ Proceed(meta)
      PROVE  Keeps /\ (cmd'.kind # "none" => cmd'.pinned = {})
  <2>1. CASE cmd' = Idle
    BY <2>1 DEF Keeps, Idle
  <2>2. CASE Proceed(meta)
    BY <1>1, <1>2, <2>2, ProceedKeeps DEF Keeps
  <2> QED
    BY <1>2, <2>1, <2>2
<1>3. CASE Gate \/ DrainObjects \/ DeleteBucket
  <2>1. Keeps
    BY <1>1, <1>2, <1>3 DEF Gate, DrainObjects, DeleteBucket
  <2>2. Quiet
    BY <1>3 DEF Gate, DrainObjects, DeleteBucket, Quiet
  <2> QED
    BY <2>1, <2>2, QuietDeployed
<1>4. CASE MarkDeleting
  <2> DEFINE meta == [cmd.meta EXCEPT !.status = "deleting"]
  <2>1. meta \in RecordState /\ meta.tools = local.record.tools
    BY <1>1, <1>4 DEF MarkDeleting, RecordState
  <2> HIDE DEF meta
  <2>2. Proceed(meta) /\ (Save(meta) \/ UNCHANGED local)
    BY <1>4 DEF MarkDeleting, meta
  <2>3. local'.record.tools = local.record.tools /\ local'.root = local.root
    BY <2>1, <2>2, SaveType
  <2>4. Keeps /\ Quiet
    BY <1>2, <1>4, <2>1, <2>2, <2>3 DEF MarkDeleting, Quiet
  <2> QED
    BY <2>4, QuietDeployed
<1>5. CASE DeleteCluster
  <2>1. Keeps /\ (cmd'.kind # "none" => cmd'.pinned = {})
    BY <1>1, <1>2, <1>5 DEF DeleteCluster
  <2> QED
    BY <1>5, <2>1
    DEF DeleteCluster, Deployed, NothingDeployed, TrustRootShared, BlobsFirst, PinnedThere, PullsThere
<1>6. CASE DeleteRegistry
  <2>1. Keeps /\ (cmd'.kind # "none" => cmd'.pinned = {})
    BY <1>1, <1>2, <1>6 DEF DeleteRegistry
  <2>2. cmd.step = 4 /\ cmd.kind = "release"
    BY <1>1, <1>6 DEF DeleteRegistry, Place
  <2>3. cluster \in {"none", "stopping"}
    BY <2>2 DEF Recorded, TakenDown
  <2>4. BlobsFirst'
    BY <1>6 DEF DeleteRegistry, NoRepository, Deployed, BlobsFirst
  <2> QED
    BY <1>6, <2>1, <2>3, <2>4
    DEF DeleteRegistry, Deployed, NothingDeployed, TrustRootShared, PinnedThere, PullsThere
<1>7. CASE RemoveInstance
  <2>1. Keeps /\ (cmd'.kind # "none" => cmd'.pinned = {})
    BY <1>1, <1>2, <1>7 DEF RemoveInstance
  <2>2. cmd.step = 7 /\ cmd.kind = "release"
    BY <1>1, <1>7 DEF RemoveInstance, Place
  <2>3. cluster \in {"none", "stopping"}
    BY <2>2 DEF Recorded, TakenDown
  <2> QED
    BY <1>7, <2>1, <2>3
    DEF RemoveInstance, Deployed, NothingDeployed, TrustRootShared, BlobsFirst, PinnedThere, PullsThere
<1> QED
  BY <1>3, <1>4, <1>5, <1>6, <1>7 DEF ReleaseStep

\* The initial scenes run nothing, or one trust root and whole images.
LEMMA DeployedInit == Init => Deployed
<1> SUFFICES ASSUME Init PROVE Deployed
  OBVIOUS
<1>1. PinnedThere
  BY DEF Init, LifecycleInit, PinnedThere, Idle
<1>2. CASE InitNone
  BY <1>1, <1>2 DEF InitNone, NoInstance, NoRecord, NoRepository,
     Deployed, NothingDeployed, TrustRootShared, BlobsFirst, PullsThere
<1>3. CASE InitConnected
  <2>1. local.record.tools = {}
    BY <1>3 DEF InitConnected, Running, NoRecord
  <2> QED
    BY <1>1, <1>3, <2>1 DEF InitConnected,
       Deployed, NothingDeployed, TrustRootShared, BlobsFirst, PullsThere
<1> QED
  BY <1>2, <1>3 DEF Init, LifecycleInit

\* A step of the lifecycle, and what it does to a command that runs an
\* application: nothing, or it ends it.
LEMMA LifecycleDeployed ==
  TypeOK /\ HasTodo /\ Recorded /\ Deployed /\ LifecycleNext => Deployed' /\ (UNCHANGED cmd \/ cmd'.kind # "run")
<1> SUFFICES ASSUME TypeOK, HasTodo, Recorded, Deployed, LifecycleNext
             PROVE  Deployed' /\ (UNCHANGED cmd \/ cmd'.kind # "run")
  OBVIOUS
<1> USE DEF cloud
<1>0. Keeps => cmd'.kind # "run"
  BY DEF Keeps
<1>1. CASE Interrupt
  <2>1. Keeps /\ Quiet
    BY <1>1 DEF Interrupt, Keeps, Quiet, Idle
  <2> QED
    BY <1>0, <2>1, QuietDeployed
<1>2. CASE ClusterMoves
  BY <1>2 DEF ClusterMoves, Deployed, NothingDeployed, TrustRootShared, BlobsFirst, PinnedThere, PullsThere
<1>3. CASE AppWrites \/ Leave
  <2>1. Quiet /\ UNCHANGED cmd
    BY <1>3 DEF AppWrites, Leave, Quiet
  <2> QED
    BY <2>1, QuietDeployed
<1>4. ASSUME NEW n \in Name, BucketChanges(n) PROVE Deployed' /\ UNCHANGED cmd
  <2>1. Quiet /\ UNCHANGED cmd
    BY <1>4 DEF BucketChanges, Quiet
  <2> QED
    BY <2>1, QuietDeployed
<1> QED
  BY <1>0, <1>1, <1>2, <1>3, <1>4, CommandDeployed, InstallDeployed, RegistryDeployed, ConnectDeployed,
     StorageDeployed, ReleaseDeployed DEF LifecycleNext

\* Every step keeps the deployed trust roots equal and the images whole.
LEMMA DeployedStep == TypeOK /\ HasTodo /\ JobType /\ Recorded /\ Deployed /\ [Next]_vars => Deployed'
<1> SUFFICES ASSUME TypeOK, HasTodo, JobType, Recorded, Deployed, [Next]_vars PROVE Deployed'
  OBVIOUS
<1> USE DEF cloud
<1>1. ASSUME NEW flag, Run(flag) \/ Build(flag) PROVE Deployed'
  <2>1. Quiet /\ cmd'.pinned = {}
    BY <1>1 DEF Run, Build, Begin, Started, Quiet
  <2> QED
    BY <2>1 DEF Quiet, Deployed, NothingDeployed, TrustRootShared, BlobsFirst, PinnedThere, PullsThere
<1>2. CASE Fetch \/ Read \/ Confirm \/ StartBuild \/ AwaitBuild \/ ReportBuild \/ Launch
  <2>1. Delivers /\ UNCHANGED <<scene, local, cloud, roots>>
    BY <1>2, DeliveryMoves
  <2>2. Quiet
    BY <2>1 DEF Quiet
  <2>3. Keeps \/ (cmd.kind # "none" /\ cmd'.pinned = cmd.pinned)
    BY <2>1 DEF Delivers, Keeps, Idle
  <2> QED
    BY <2>2, <2>3, QuietDeployed
<1>3. CASE UNCHANGED lifecycleVars
  <2>1. Quiet /\ UNCHANGED cmd
    BY <1>3 DEF lifecycleVars, Quiet
  <2> QED
    BY <2>1, QuietDeployed
<1> QED
  BY <1>1, <1>2, <1>3, LifecycleDeployed DEF Next, DeliveryNext, JobEnds, JobExpires, Commit, vars

-----------------------------------------------------------------------------
(* What runs is what was approved *)

Shown == JobsKeepTheirRef /\ ShownIsBuilt /\ ApprovedOnly

\* At first no application runs.
LEMMA ShownInit == Init => Shown
  BY DEF Init, LifecycleInit, Idle, NoJob, NoApp, Shown, JobsKeepTheirRef, ShownIsBuilt, ApprovedOnly

\* Whatever else happens to the instance, what ran in the cluster goes with it.
LEMMA HostedShown ==
  ASSUME JobType, Shown, Hosted, UNCHANGED cmd \/ cmd'.kind # "run"
  PROVE  Shown'
<1>1. CASE UNCHANGED <<job, app>>
  BY <1>1 DEF Shown, JobsKeepTheirRef, ShownIsBuilt, ApprovedOnly
<1>2. CASE job' = [k \in DOMAIN job |-> NoJob] /\ app' = NoApp
  <2>1. \A k \in {"fetch", "build"} : job'[k].state = "none"
    BY <1>2 DEF NoJob, JobType
  <2> QED
    BY <1>2, <2>1 DEF NoApp, Shown, JobsKeepTheirRef, ShownIsBuilt, ApprovedOnly
<1> QED
  BY <1>1, <1>2 DEF Hosted

\* A Job that is applied is the one that was asked for, or the command stops.
LEMMA AppliedJob ==
  ASSUME TypeOK, JobType, Shown, NEW s \in {"fetch", "start"}, At(s),
         NEW k \in {"fetch", "build"}, NEW of \in Nat, ApplyJob(k, of)
  PROVE  /\ JobsKeepTheirRef'
         /\ \/ cmd' = Idle
            \/ Moves(cmd.meta) /\ (job'[k].state # "none" => job'[k].of = of)
<1>1. cmd \in CmdState /\ cmd.meta \in RecordState /\ cmd.step \in 1 .. Len(Steps[cmd.kind])
  BY Placed DEF Place, CmdState
<1>2. CASE job[k].state = "none"
  <2>1. job' = [job EXCEPT ![k] = [state |-> "running", of |-> of, out |-> 0]] /\ Proceed(cmd.meta)
    BY <1>2 DEF ApplyJob
  <2>2. job'[k].of = of /\ job'[k].state = "running" /\ \A j \in {"fetch", "build"} \ {k} : job'[j] = job[j]
    BY <2>1 DEF JobType
  <2>3. JobsKeepTheirRef'
    BY <2>2 DEF Shown, JobsKeepTheirRef
  <2> QED
    BY <1>1, <2>1, <2>2, <2>3, ProceedMoves
<1>3. CASE job[k].state # "none"
  <2>1. (job' = job /\ job[k].of = of /\ Proceed(cmd.meta)) \/ (job' = job /\ cmd' = Idle)
    BY <1>3 DEF ApplyJob, Stop
  <2> QED
    BY <1>1, <2>1, ProceedMoves DEF Shown, JobsKeepTheirRef
<1> QED
  BY <1>2, <1>3

\* The commit that is shown is verified against the report, the one that is
\* shown is the one that is built, and what is built is launched.
LEMMA ShownStep == TypeOK /\ HasTodo /\ JobType /\ Recorded /\ Deployed /\ Shown /\ [Next]_vars => Shown'
<1> SUFFICES ASSUME TypeOK, HasTodo, JobType, Recorded, Deployed, Shown, [Next]_vars PROVE Shown'
  OBVIOUS
<1>1. CASE LifecycleNext /\ Hosted
  BY <1>1, LifecycleDeployed, HostedShown
<1>2. ASSUME NEW s \in {"fetch", "read", "approve", "start", "await", "launch"}, At(s)
      PROVE  /\ s \in DOMAIN Place /\ cmd \in CmdState /\ cmd.meta \in RecordState
             /\ cmd.step \in 1 .. Len(Steps[cmd.kind]) /\ <<cmd.kind, cmd.step>> \in Place[s]
  BY <1>2, Placed DEF Place, CmdState
<1>3. ASSUME cmd' = Idle, UNCHANGED <<job, app>> PROVE Shown'
  BY <1>3 DEF Shown, JobsKeepTheirRef, ShownIsBuilt, ApprovedOnly, Idle
<1>4. ASSUME NEW flag, Run(flag) \/ Build(flag) PROVE Shown'
  <2>1. cmd'.step = 1 /\ UNCHANGED <<job, app>>
    BY <1>4 DEF Run, Build, Begin, Started, deliveryVars
  <2> QED
    BY <2>1 DEF Shown, JobsKeepTheirRef, ShownIsBuilt, ApprovedOnly
<1>5. CASE Fetch
  <2>1. cmd.kind = "run" /\ cmd.step = 1
    BY <1>2, <1>5 DEF Fetch, Place
  <2>2. JobsKeepTheirRef' /\ (cmd' = Idle \/ Moves(cmd.meta))
    BY <1>5, AppliedJob DEF Fetch, Branch
  <2>3. cmd' = Idle \/ cmd'.step = 2
    BY <2>1, <2>2 DEF Moves
  <2> QED
    BY <1>5, <2>2, <2>3 DEF Fetch, ApplyJob, Shown, ShownIsBuilt, ApprovedOnly, Idle
<1>6. CASE Read
  <2>0. UNCHANGED <<job, app>>
    BY <1>6 DEF Read, deliveryVars
  <2>1. CASE cmd' = Idle
    BY <1>3, <2>0, <2>1
  <2>2. CASE cmd' # Idle
    <3>1. PICK out \in Nat : out = job["fetch"].out
      BY DEF JobType, JobState
    <3>2. /\ cmd' = [cmd EXCEPT !.commit = out, !.shown = out, !.step = cmd.step + 1]
          /\ job["fetch"].state = "succeeded"
      BY <1>6, <2>2, <3>1 DEF Read, Verified, Stop, Succeeded
    <3>3. cmd \in CmdState /\ cmd.kind = "run" /\ cmd.step = 2
      BY <1>2, <1>6 DEF Read, Place
    <3>4. cmd'.kind = "run" /\ cmd'.step = 3 /\ cmd'.commit = out /\ cmd'.shown = out
      BY <3>2, <3>3 DEF CmdState
    <3>5. out # 0
      BY <3>1, <3>2 DEF Shown, JobsKeepTheirRef
    <3> QED
      BY <2>0, <3>4, <3>5 DEF Shown, JobsKeepTheirRef, ShownIsBuilt, ApprovedOnly
  <2> QED
    BY <2>1, <2>2
<1>7. CASE Confirm
  <2>0. UNCHANGED <<job, app>> /\ cmd.kind = "run" /\ cmd.step = 3
    BY <1>2, <1>7 DEF Confirm, deliveryVars, Place
  <2>1. CASE cmd' = Idle
    BY <1>3, <2>0, <2>1
  <2>2. CASE cmd' # Idle
    <3>1. Moves(cmd.meta)
      BY <1>2, <1>7, <2>2, ProceedMoves DEF Confirm, Stop
    <3>2. cmd'.kind = "run" /\ cmd'.step = 4 /\ cmd'.commit = cmd.commit /\ cmd'.shown = cmd.shown
      BY <2>0, <2>2, <3>1 DEF Moves
    <3> QED
      BY <2>0, <3>2 DEF Shown, JobsKeepTheirRef, ShownIsBuilt, ApprovedOnly
  <2> QED
    BY <2>1, <2>2
<1>8. CASE StartBuild
  <2>0. UNCHANGED app
    BY <1>8 DEF StartBuild, ApplyJob
  <2>1. PICK of \in Nat : of = BuildRef
    BY <1>2, <1>8 DEF StartBuild, BuildRef, Branch, CmdState
  <2>2. /\ JobsKeepTheirRef'
        /\ \/ cmd' = Idle
           \/ Moves(cmd.meta) /\ (job'["build"].state # "none" => job'["build"].of = of)
    BY <1>8, <2>1, AppliedJob DEF StartBuild
  <2>3. CASE cmd' = Idle
    BY <2>0, <2>2, <2>3 DEF Shown, ShownIsBuilt, ApprovedOnly, Idle
  <2>4. CASE cmd' # Idle /\ cmd.kind # "run"
    BY <2>0, <2>2, <2>4 DEF Moves, Shown, ShownIsBuilt, ApprovedOnly
  <2>5. CASE cmd' # Idle /\ cmd.kind = "run"
    <3>1. cmd.step = 4
      BY <1>2, <1>8, <2>5 DEF StartBuild, Place
    <3>2. cmd'.kind = "run" /\ cmd'.step = 5 /\ cmd'.commit = cmd.commit /\ cmd'.shown = cmd.shown
      BY <2>2, <2>5, <3>1 DEF Moves
    <3>3. of = cmd.commit
      BY <2>1, <2>5 DEF BuildRef
    <3> QED
      BY <2>0, <2>2, <2>5, <3>1, <3>2, <3>3 DEF Shown, ShownIsBuilt, ApprovedOnly
  <2> QED
    BY <2>3, <2>4, <2>5
<1>9. CASE AwaitBuild
  <2>0. UNCHANGED <<job, app>> /\ cmd \in CmdState /\ cmd.kind = "run" /\ cmd.step = 5
    BY <1>2, <1>9 DEF AwaitBuild, deliveryVars, Place
  <2>1. CASE cmd' = Idle
    BY <1>3, <2>0, <2>1
  <2>2. CASE cmd' # Idle
    <3>1. PICK out \in Nat : out = job["build"].out
      BY DEF JobType, JobState
    <3>2. cmd' = [cmd EXCEPT !.built = out, !.step = cmd.step + 1] /\ job["build"].state = "succeeded"
      BY <1>9, <2>2, <3>1 DEF AwaitBuild, Stop, Succeeded
    <3>3. /\ cmd'.kind = "run" /\ cmd'.step = 6 /\ cmd'.built = out
          /\ cmd'.commit = cmd.commit /\ cmd'.shown = cmd.shown
      BY <2>0, <3>2 DEF CmdState
    <3>4. cmd.commit = cmd.shown /\ cmd.commit # 0 /\ job["build"].of = cmd.commit
      BY <2>0, <3>2 DEF Shown, ShownIsBuilt
    <3>5. out = cmd.shown
      BY <3>1, <3>2, <3>4 DEF Shown, JobsKeepTheirRef, Branch
    <3> QED
      BY <2>0, <3>3, <3>4, <3>5 DEF Shown, JobsKeepTheirRef, ShownIsBuilt, ApprovedOnly
  <2> QED
    BY <2>1, <2>2
<1>10. CASE ReportBuild
  BY <1>3, <1>10 DEF ReportBuild, Stop, deliveryVars
<1>11. CASE Launch
  <2>0. UNCHANGED job /\ cmd \in CmdState /\ cmd.kind = "run" /\ cmd.step = 6
    BY <1>2, <1>11 DEF Launch, Place
  <2>1. cmd.commit = cmd.shown /\ cmd.commit # 0 /\ cmd.built = cmd.shown
    BY <2>0 DEF Shown, ShownIsBuilt
  <2>2. ApprovedOnly'
    BY <1>11, <2>1 DEF Launch, ApprovedOnly
  <2>3. Moves(cmd.meta)
    BY <1>2, <1>11, ProceedMoves DEF Launch
  <2>4. cmd' = Idle \/ (/\ cmd'.step = 7 /\ cmd'.commit = cmd.commit /\ cmd'.shown = cmd.shown
                        /\ cmd'.built = cmd.built)
    BY <2>0, <2>3 DEF Moves
  <2>5. ShownIsBuilt'
    BY <2>1, <2>4 DEF ShownIsBuilt, Idle
  <2> QED
    BY <2>0, <2>2, <2>5 DEF Shown, JobsKeepTheirRef
<1>12. ASSUME NEW k \in {"fetch", "build"}, JobEnds(k) PROVE Shown'
  <2>0. UNCHANGED <<cmd, app>> /\ job[k].state = "running"
    BY <1>12 DEF JobEnds, lifecycleVars
  <2>1. \A j \in {"fetch", "build"} \ {k} : job'[j] = job[j]
    BY <1>12 DEF JobEnds, JobType
  <2>2. /\ job'[k].of = job[k].of
        /\ job'[k].state = "succeeded" => job'[k].out = IF job[k].of = Branch THEN branch ELSE job[k].of
    BY <1>12 DEF JobEnds, JobType, JobState
  <2>3. JobsKeepTheirRef'
    BY <2>1, <2>2 DEF Shown, JobsKeepTheirRef, Branch, JobType
  <2>4. ShownIsBuilt'
    BY <2>0, <2>1, <2>2 DEF Shown, ShownIsBuilt
  <2> QED
    BY <2>0, <2>3, <2>4 DEF Shown, ApprovedOnly
<1>13. ASSUME NEW k \in {"fetch", "build"}, JobExpires(k) PROVE Shown'
  <2>0. UNCHANGED <<cmd, app>>
    BY <1>13 DEF JobExpires, lifecycleVars
  <2>1. job'[k].state = "none" /\ \A j \in {"fetch", "build"} \ {k} : job'[j] = job[j]
    BY <1>13 DEF JobExpires, JobType, NoJob
  <2> QED
    BY <2>0, <2>1 DEF Shown, JobsKeepTheirRef, ShownIsBuilt, ApprovedOnly
<1>14. CASE UNCHANGED <<cmd, job, app>>
  BY <1>14 DEF Shown, JobsKeepTheirRef, ShownIsBuilt, ApprovedOnly
<1>15. CASE Commit \/ UNCHANGED vars
  BY <1>14, <1>15 DEF Commit, vars, lifecycleVars, deliveryVars
<1>16. DOMAIN job = {"fetch", "build"}
  BY DEF JobType
<1> QED
  BY <1>1, <1>4, <1>5, <1>6, <1>7, <1>8, <1>9, <1>10, <1>11, <1>12, <1>13, <1>15, <1>16
  DEF Next, DeliveryNext

-----------------------------------------------------------------------------
(* The theorems *)

LifecycleInv == TypeOK /\ HasTodo /\ JobType /\ Recorded /\ Deployed /\ Shown

\* The inductive invariant holds of every behaviour.
THEOREM LifecycleInvariant == Spec => []LifecycleInv
<1>1. Init => LifecycleInv
  BY TypeInit, RecordedInit, DeployedInit, ShownInit DEF LifecycleInv
<1>2. LifecycleInv /\ [Next]_vars => LifecycleInv'
  BY TypeStep, JobTypeStep, RecordedStep, DeployedStep, ShownStep DEF LifecycleInv
<1> QED
  BY <1>1, <1>2, PTL DEF Spec

\* Every billable resource of the instance is one that release would find from
\* the record, whichever command was cut short, wherever (install.go, storage
\* provisioning and release.go).
THEOREM NothingOrphaned == Spec => []NoOrphan
<1>1. LifecycleInv => NoOrphan
  BY DEF LifecycleInv, Recorded
<1> QED
  BY <1>1, LifecycleInvariant, PTL

\* The workloads of a running cluster trust this machine's root and no other,
\* however often connect, redeploy and storage deploy were cut short
\* (ensureIdentity never mints a second root).
THEOREM OneTrustRoot == Spec => []TrustRootShared
<1>1. LifecycleInv => TrustRootShared
  BY DEF LifecycleInv, Deployed
<1> QED
  BY <1>1, LifecycleInvariant, PTL

\* Whatever the running cluster, or the toolchain on record, is to be pulled
\* from the instance's repository is there in full, although any push may be
\* cut short and the next command trusts the tag it finds (oci.Push).
THEOREM NothingHalfPushed == Spec => []ImagesWhole
<1>1. LifecycleInv => ImagesWhole
  BY DEF LifecycleInv, Deployed, BlobsFirst, PullsThere, ImagesWhole, Whole
<1> QED
  BY <1>1, LifecycleInvariant, PTL

\* The application runs the commit whose manifest the operator approved,
\* although the branch moves, and Jobs of earlier commands are still there
\* with the same names (run.go: the commit, never the branch, is built).
THEOREM OnlyApprovedRuns == Spec => []ApprovedOnly
<1>1. LifecycleInv => ApprovedOnly
  BY DEF LifecycleInv, Shown
<1> QED
  BY <1>1, LifecycleInvariant, PTL
=============================================================================
