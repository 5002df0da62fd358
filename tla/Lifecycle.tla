----------------------------- MODULE Lifecycle -----------------------------
(***************************************************************************)
(* The life of one instance: farcast install, connect, redeploy, storage   *)
(* deploy, a command that writes to storage, and release, against the      *)
(* cloud's cluster, image repository and buckets (planck/internal/         *)
(* providers/gke, datasphere/internal/providers/gcs) and the instance's    *)
(* directory on this machine.                                              *)
(*                                                                         *)
(* One command runs at a time (Metadata has two of them saving the record) *)
(* and may be killed, or have a call fail, before and after each of its    *)
(* steps.  A call whose answer is lost is a step followed by that.  Other  *)
(* people's buckets and repositories have names this instance may hit on.  *)
(* The images of FarCast's own workloads are looked up in the repository,  *)
(* or compiled and pushed there (image, oci); one blob stands for all of   *)
(* an image's.  Delivery adds the commands that build applications.  Left  *)
(* out: prompts, regions, labels' text, posture and retention, versions of *)
(* an image, and a deletion the cloud accepts and does not carry out.      *)
(***************************************************************************)
EXTENDS Naturals, Sequences

CONSTANTS Name,        \* bucket names mintAndRecord may draw
          NoName,      \* no bucket recorded
          MaxMints,    \* names one command tries
          MaxRoots,    \* bound: trust roots minted
          MaxFaults,   \* bound: commands killed, calls failed, names taken
          Kind,        \* bound: the commands that are used
          Option       \* bound: how they may say where an image comes from

\* The last three bounds differ by scene: whether there is an instance yet.
Scene == {"new", "connected", "delivering"}

Kinds == {"install", "connect", "redeploy", "deploy", "kernel", "write", "toolchain", "build", "run", "release"}

ASSUME LifecycleAssumption ==
    /\ NoName \notin Name
    /\ MaxMints \in Nat \ {0} /\ MaxRoots \in Nat
    /\ MaxFaults \in [Scene -> Nat]
    /\ Kind \in [Scene -> SUBSET Kinds]
    /\ Option \in [Scene -> SUBSET {"none", "image", "source"}]

VARIABLES scene,       \* where the story begins, and which commands it has
          local,       \* the instance's directory
          cluster,     \* the cluster, as the cloud has it
          trusts,      \* the trust root each deployed workload was given
          pulls,       \* images it was told to pull from the repository
          repository,  \* the image repository
          bucket,      \* what has each bucket name
          data,        \* buckets with objects in them
          cmd,         \* the command that runs
          roots,       \* trust roots minted so far
          leaving,     \* the operator has decided to release the instance
          faults

cloud == <<cluster, trusts, pulls, repository, bucket, data>>
lifecycleVars == <<scene, local, cloud, cmd, roots, leaving, faults>>

Workload == {"fatline", "keyholder"}

\* InstanceMetadata, where a command decides by it.  held is Storage.CreatedAt,
\* tools the toolchain images recorded from the instance's own repository.
NoRecord == [status |-> "none", bucket |-> NoName, held |-> FALSE, registry |-> FALSE,
             fatline |-> FALSE, carrier |-> FALSE, keyholder |-> FALSE,
             kernel |-> FALSE, tools |-> {}]

\* stage is how much of the directory install has written; root is the trust
\* root under mtls/, 0 when there is none.
NoInstance == [stage |-> "none", record |-> NoRecord, kubeconfig |-> FALSE,
               keyring |-> FALSE, root |-> 0]

\* The blobs of an image, and the manifest its tag names.
NoRepository == [owner |-> "none", pull |-> FALSE, blobs |-> {}, manifests |-> {}]

\* The images a command needs, in the order it settles them.
Images == [connect |-> <<"fatline", "shrike">>, redeploy |-> <<"fatline", "shrike">>,
           deploy |-> <<"keyholder">>, kernel |-> <<"technocore">>, toolchain |-> <<"builder", "fetcher">>]

Idle == [kind |-> "none"]

\* The calls each command makes, in order.
Steps ==
    [install   |-> <<"credentials", "record", "create", "wait", "kubeconfig",
                     "registry", "grant", "finish">>,
     connect   |-> <<"identity", "registry", "grant", "image", "apply", "applied", "bind">>,
     reconnect |-> <<"identity", "registry", "grant">>,
     redeploy  |-> <<"identity", "registry", "grant", "image", "apply", "applied">>,
     deploy    |-> <<"mint", "ensure", "validate", "keyring",
                     "registry", "grant", "image", "issue", "serve">>,
     kernel    |-> <<"registry", "grant", "image", "kernel", "enforce">>,
     write     |-> <<"mint", "ensure", "validate", "keyring", "store">>,
     toolchain |-> <<"registry", "grant", "image", "tools">>,
     build     |-> <<"start", "await">>,
     run       |-> <<"fetch", "read", "approve", "start", "await", "launch", "tools">>,
     release   |-> <<"gate", "mark", "cluster", "unregister", "drain", "unbucket", "remove">>]

\* An instance that was installed and connected, with the images that takes.
Running ==
    [NoRecord EXCEPT !.status = "running", !.registry = TRUE, !.fatline = TRUE, !.carrier = TRUE]

InitConnected ==
    /\ local = [stage |-> "recorded", record |-> Running, kubeconfig |-> TRUE,
                keyring |-> FALSE, root |-> 1]
    /\ cluster = "running"
    /\ trusts = [w \in Workload |-> IF w = "fatline" THEN 1 ELSE 0]
    /\ pulls = {"fatline", "shrike"}
    /\ repository = [owner |-> "ours", pull |-> TRUE, blobs |-> pulls, manifests |-> pulls]
    /\ bucket = [n \in Name |-> "none"]
    /\ roots = 1

InitNone ==
    /\ local = NoInstance
    /\ cluster = "none"
    /\ trusts = [w \in Workload |-> 0]
    /\ pulls = {}
    /\ repository \in {NoRepository, [NoRepository EXCEPT !.owner = "other"]}
    /\ bucket \in [Name -> {"none", "other"}]
    /\ roots = 0

LifecycleInit ==
    /\ scene \in Scene
    /\ IF scene = "new" THEN InitNone ELSE InitConnected
    /\ data = {}
    /\ cmd = Idle
    /\ leaving = FALSE /\ faults = 0

-----------------------------------------------------------------------------
(* Running a command *)

At(step) == cmd.kind # "none" /\ Steps[cmd.kind][cmd.step] = step

\* On to the next call, with meta as the command's copy of the record.
Proceed(meta) ==
    cmd' = IF cmd.step = Len(Steps[cmd.kind]) THEN Idle
           ELSE [cmd EXCEPT !.step = @ + 1, !.meta = meta]

Save(meta) == local' = [local EXCEPT !.record = meta]

Fault == faults < MaxFaults[scene] /\ faults' = faults + 1

\* A command as it starts.  flag is the option it was given, if any; registry
\* says that the instance's registry is at hand; the last three are Delivery's.
Started(kind, step, meta, flag) ==
    [kind |-> kind, step |-> step, meta |-> meta, flag |-> flag, tries |-> 1,
     registry |-> TRUE, todo |-> IF kind \in DOMAIN Images THEN Images[kind] ELSE << >>,
     pinned |-> {}, assembled |-> FALSE, commit |-> 0, shown |-> 0, built |-> 0]

\* A command begins with a record it could load.
Begin(kind, step, flag) ==
    /\ cmd = Idle
    /\ local.stage = "recorded"
    /\ cmd' = Started(kind, step, local.record, flag)
    /\ UNCHANGED <<scene, local, cloud, roots, leaving, faults>>

Used(kind) == kind \in Kind[scene]

\* A command is killed, or fails at its next call.
Interrupt ==
    /\ cmd # Idle
    /\ \/ Fault
       \/ leaving /\ cmd.kind # "release" /\ UNCHANGED faults
    /\ cmd' = Idle
    /\ UNCHANGED <<scene, local, cloud, roots, leaving>>

-----------------------------------------------------------------------------
(* install *)

\* CreateInstance reserves the name; it fails when the directory is there.
Install ==
    /\ Used("install")
    /\ cmd = Idle /\ local.stage = "none" /\ ~leaving
    /\ local' = [NoInstance EXCEPT !.stage = "reserved"]
    /\ cmd' = Started("install", 1, [NoRecord EXCEPT !.status = "provisioning"], "none")
    /\ UNCHANGED <<scene, cloud, roots, leaving, faults>>

SaveCredentials ==
    /\ At("credentials")
    /\ local' = [local EXCEPT !.stage = "credentials"]
    /\ Proceed(cmd.meta)
    /\ UNCHANGED <<scene, cloud, roots, leaving, faults>>

\* The record, before anything exists.
RecordIntent ==
    /\ At("record")
    /\ local' = [local EXCEPT !.stage = "recorded", !.record = cmd.meta]
    /\ Proceed(cmd.meta)
    /\ UNCHANGED <<scene, cloud, roots, leaving, faults>>

\* CreateCluster takes a cluster of this name for the one it was asked for.
CreateCluster ==
    /\ At("create")
    /\ cluster' = IF cluster = "none" THEN "creating" ELSE cluster
    /\ Proceed(cmd.meta)
    /\ UNCHANGED <<scene, local, trusts, pulls, repository, bucket, data, roots, leaving, faults>>

\* waitReady: a cluster that is gone is waited for as well.
WaitReady ==
    /\ At("wait") /\ cluster = "running"
    /\ Proceed(cmd.meta)
    /\ UNCHANGED <<scene, local, cloud, roots, leaving, faults>>

\* An install whose cluster failed, or could not be asked for, says so.
ProvisioningFails ==
    /\ At("create") \/ At("wait")
    /\ IF At("wait") /\ cluster = "error" THEN UNCHANGED faults ELSE Fault
    /\ local' = [local EXCEPT !.stage = "recorded", !.record = [cmd.meta EXCEPT !.status = "error"]]
    /\ cmd' = Idle
    /\ UNCHANGED <<scene, cloud, roots, leaving>>

SaveKubeconfig ==
    /\ At("kubeconfig")
    /\ local' = [local EXCEPT !.kubeconfig = TRUE]
    /\ Proceed(cmd.meta)
    /\ UNCHANGED <<scene, cloud, roots, leaving, faults>>

\* The health check decides between running and unreachable.
Finish ==
    /\ At("finish")
    /\ \E status \in {"running", "unreachable"} :
         local' = [local EXCEPT !.stage = "recorded", !.record = [cmd.meta EXCEPT !.status = status]]
    /\ Proceed(cmd.meta)
    /\ UNCHANGED <<scene, cloud, roots, leaving, faults>>

-----------------------------------------------------------------------------
(* The image repository *)

\* checkOwned, for adoption and teardown alike: labels that name someone else.
Foreign == repository.owner = "other"

\* createRepository, which takes over one that has this instance's labels.
CreateRepository ==
    /\ At("registry")
    /\ ~Foreign
    /\ repository' = [repository EXCEPT !.owner = "ours"]
    /\ Proceed(cmd.meta)
    /\ UNCHANGED <<scene, local, cluster, trusts, pulls, bucket, data, roots, leaving, faults>>

\* grantPull, and the record of the registry; install's is saved with the rest.
GrantPull ==
    /\ At("grant")
    /\ repository' = [repository EXCEPT !.pull = TRUE]
    /\ LET meta == [cmd.meta EXCEPT !.registry = TRUE] IN
         /\ IF cmd.kind = "install" THEN UNCHANGED local ELSE Save(meta)
         /\ Proceed(meta)
    /\ UNCHANGED <<scene, cluster, trusts, pulls, bucket, data, roots, leaving, faults>>

\* needsRegistry: a command that deploys nothing from it goes on without.
\* storage deploy never does, even with an image of the operator's.
Tolerates ==
    \/ cmd.kind \in {"install", "reconnect"}
    \/ cmd.kind \in {"connect", "redeploy"} /\ cmd.flag = "image"

AfterGrant == CHOOSE i \in 1 .. Len(Steps[cmd.kind]) : Steps[cmd.kind][i] = "grant"

\* The registry could not be ensured.
NoRegistry ==
    /\ At("registry") \/ At("grant")
    /\ IF At("registry") /\ Foreign THEN UNCHANGED faults ELSE Fault
    /\ cmd' = IF ~Tolerates \/ AfterGrant = Len(Steps[cmd.kind]) THEN Idle
              ELSE [cmd EXCEPT !.step = AfterGrant + 1, !.registry = FALSE]
    /\ UNCHANGED <<scene, local, cloud, roots, leaving>>

-----------------------------------------------------------------------------
(* Images *)

\* The next image is settled; pin is what is to be pulled from the repository.
Settled(pin) ==
    cmd' = [cmd EXCEPT !.todo = Tail(@), !.pinned = @ \union pin, !.assembled = FALSE,
                       !.step = IF Len(cmd.todo) = 1 THEN @ + 1 ELSE @]

Whole(i) == i \in repository.blobs /\ i \in repository.manifests

\* The operator named the workload's image, and deploys exactly that.
NamedImage(i) == cmd.flag = "image" /\ i \in {"fatline", "keyholder", "technocore"}

\* resolveImage and resolveSidecarImage: the one that was named; no monitor
\* without a registry; or what the tag names in the registry, by its digest.
\* Only an image that is not there, or whose source was named, is built.
Resolve(i) ==
    \/ NamedImage(i) /\ Settled({})
    \/ i = "shrike" /\ ~cmd.registry /\ Settled({})
    \/ /\ ~NamedImage(i) /\ cmd.registry
       /\ i \in repository.manifests /\ cmd.flag # "source" /\ ~cmd.assembled
       /\ Settled({i})

ResolveImage ==
    /\ At("image") /\ cmd.kind # "toolchain"
    /\ Resolve(Head(cmd.todo))
    /\ UNCHANGED <<scene, local, cloud, roots, leaving, faults>>

\* BuildAndPush: compiled, the base pulled and checked against its digests,
\* and the binary's layer appended to it; all of it in memory.
Assemble ==
    LET i == Head(cmd.todo) IN
    /\ At("image") /\ cmd.kind # "toolchain"
    /\ ~NamedImage(i) /\ cmd.registry /\ ~cmd.assembled
    /\ i \notin repository.manifests \/ cmd.flag = "source"
    /\ cmd' = [cmd EXCEPT !.assembled = TRUE]
    /\ UNCHANGED <<scene, local, cloud, roots, leaving, faults>>

\* Copy: the public image's manifest is read, for this platform.
Mirror ==
    /\ At("image") /\ cmd.kind = "toolchain" /\ ~cmd.assembled
    /\ cmd' = [cmd EXCEPT !.assembled = TRUE]
    /\ UNCHANGED <<scene, local, cloud, roots, leaving, faults>>

\* pushBlob, for each blob that is not there.
PushBlobs ==
    LET i == Head(cmd.todo) IN
    /\ At("image") /\ cmd.assembled /\ i \notin repository.blobs
    /\ repository' = [repository EXCEPT !.blobs = @ \union {i}]
    /\ UNCHANGED <<scene, local, cluster, trusts, pulls, bucket, data, cmd, roots, leaving, faults>>

\* Mutant: the manifest goes first.
Pushed_ManifestFirst(i) == TRUE

\* Every blob has been uploaded, or was there.
Pushed(i) == i \in repository.blobs

PushManifest ==
    LET i == Head(cmd.todo) IN
    /\ At("image") /\ cmd.assembled /\ Pushed(i)
    /\ repository' = [repository EXCEPT !.manifests = @ \union {i}]
    /\ Settled({i})
    /\ UNCHANGED <<scene, local, cluster, trusts, pulls, bucket, data, roots, leaving, faults>>

\* farcast toolchain, once it has found every image to be pinned by digest.
Toolchain ==
    /\ Used("toolchain") /\ ~leaving /\ local.record.registry
    /\ Begin("toolchain", 1, "none")

\* recordToolchainImage and the save.  A run that was told images records
\* those instead, and goes on if it cannot.
RecordTools ==
    LET meta == [cmd.meta EXCEPT !.tools = IF cmd.kind = "toolchain" THEN cmd.pinned
                                           ELSE IF cmd.flag = "image" THEN {} ELSE @] IN
    /\ At("tools")
    /\ Save(meta) /\ Proceed(meta)
    /\ UNCHANGED <<scene, cloud, roots, leaving, faults>>

-----------------------------------------------------------------------------
(* connect and redeploy *)

Connected == local.record.fatline /\ local.record.carrier

\* With an image, or a source to build it from, named or not.
Connect(flag) ==
    /\ Used("connect") /\ local.record.status # "deleting" /\ ~leaving
    /\ Connected => flag = "none"
    /\ Begin(IF Connected THEN "reconnect" ELSE "connect", 1, flag)

Redeploy(flag) ==
    /\ Used("redeploy") /\ local.record.status # "deleting" /\ ~leaving
    /\ Connected
    /\ Begin("redeploy", 1, flag)

\* Mutant: a connect that finds no FatLine recorded mints a trust root.
EnsureIdentity_Unrecorded ==
    /\ At("identity")
    /\ IF cmd.meta.fatline
         THEN local.root # 0 /\ UNCHANGED <<local, roots>>
         ELSE /\ roots < MaxRoots /\ roots' = roots + 1
              /\ local' = [local EXCEPT !.root = roots + 1]
    /\ Proceed(cmd.meta)
    /\ UNCHANGED <<scene, cloud, leaving, faults>>

\* ensureIdentity: the trust root is minted once; a connected instance that
\* has lost it is not given another.
EnsureIdentity ==
    /\ At("identity")
    /\ IF local.root # 0 THEN UNCHANGED <<local, roots>>
       ELSE /\ cmd.kind = "connect"
            /\ roots < MaxRoots /\ roots' = roots + 1
            /\ local' = [local EXCEPT !.root = roots + 1]
    /\ Proceed(cmd.meta)
    /\ UNCHANGED <<scene, cloud, leaving, faults>>

\* What the workload of this command is to pull, instead of what it was.
Pulled == (pulls \ {Images[cmd.kind][i] : i \in DOMAIN Images[cmd.kind]}) \union cmd.pinned

Reaches == local.kubeconfig /\ cluster = "running"

\* kubectl apply of FatLine, with this machine's trust root.
ApplyFatLine ==
    /\ At("apply") /\ Reaches
    /\ trusts' = [trusts EXCEPT !["fatline"] = local.root]
    /\ pulls' = Pulled
    /\ Proceed(cmd.meta)
    /\ UNCHANGED <<scene, local, cluster, repository, bucket, data, roots, leaving, faults>>

\* FatLine is recorded as soon as it is applied, or a warning is printed.
RecordApplied ==
    LET meta == [cmd.meta EXCEPT !.fatline = TRUE] IN
    /\ At("applied")
    /\ \/ Save(meta) /\ UNCHANGED faults
       \/ UNCHANGED local /\ Fault
    /\ Proceed(meta)
    /\ UNCHANGED <<scene, cloud, roots, leaving>>

\* The rollout finished and the load balancer has an address.
BindCarrier ==
    /\ At("bind")
    /\ Save([cmd.meta EXCEPT !.carrier = TRUE])
    /\ Proceed(cmd.meta)
    /\ UNCHANGED <<scene, cloud, roots, leaving, faults>>

-----------------------------------------------------------------------------
(* Storage *)

\* A command that writes opens a session that may create what is missing.
StorageWrite == Used("write") /\ ~leaving /\ Begin("write", 1, "none")

\* storage deploy creates storage only for an instance that records none.
StorageDeploy(flag) ==
    /\ Used("deploy") /\ ~leaving /\ local.record.fatline
    /\ Begin("deploy", IF local.record.bucket = NoName THEN 1 ELSE 5, flag)

\* mintAndRecord: a new name is recorded before anything is created under it.
Mint ==
    /\ At("mint")
    /\ IF cmd.meta.bucket # NoName THEN Proceed(cmd.meta) /\ UNCHANGED local
       ELSE \E n \in Name :
              LET meta == [cmd.meta EXCEPT !.bucket = n, !.held = FALSE] IN
                Save(meta) /\ Proceed(meta)
    /\ UNCHANGED <<scene, cloud, roots, leaving, faults>>

\* EnsureBucket created the bucket or found it to be this instance's; the
\* record then says that it has held data.
Ensured ==
    LET n == cmd.meta.bucket
        meta == [cmd.meta EXCEPT !.held = TRUE] IN
    /\ At("ensure") /\ bucket[n] # "other"
    /\ bucket' = [bucket EXCEPT ![n] = "ours"]
    /\ IF cmd.meta.held THEN UNCHANGED local ELSE Save(meta)
    /\ Proceed(meta)
    /\ UNCHANGED <<scene, cluster, trusts, pulls, repository, data, roots, leaving, faults>>

\* The bucket was created and the record of it fails, or the answer is lost.
EnsureUnrecorded ==
    /\ At("ensure") /\ bucket[cmd.meta.bucket] = "none" /\ Fault
    /\ bucket' = [bucket EXCEPT ![cmd.meta.bucket] = "ours"]
    /\ cmd' = Idle
    /\ UNCHANGED <<scene, local, cluster, trusts, pulls, repository, data, roots, leaving>>

\* Mutant: a bucket that cannot be inspected is taken for someone else's.
ProvenForeign_Unreadable(n) == bucket[n] # "none" /\ (bucket[n] = "other" \/ faults < MaxFaults[scene])

\* adoptBucket: only labels that were read and differ prove another owner; a
\* failed inspection is any failed call.
ProvenForeign(n) == bucket[n] = "other"

\* Another's bucket has the name: a record that was only an intent gets
\* another name, one that has held data is never abandoned.
NotOwned ==
    /\ At("ensure") /\ ProvenForeign(cmd.meta.bucket)
    /\ IF cmd.meta.held \/ cmd.tries >= MaxMints
         THEN cmd' = Idle /\ UNCHANGED local
         ELSE \E n \in Name :
                LET meta == [cmd.meta EXCEPT !.bucket = n, !.held = FALSE] IN
                  /\ Save(meta)
                  /\ cmd' = [cmd EXCEPT !.meta = meta, !.tries = @ + 1]
    /\ UNCHANGED <<scene, cloud, roots, leaving, faults>>

\* Validate, before a Store exists to write through.
Validate ==
    /\ At("validate")
    /\ IF bucket[cmd.meta.bucket] = "ours" THEN Proceed(cmd.meta) ELSE cmd' = Idle
    /\ UNCHANGED <<scene, local, cloud, roots, leaving, faults>>

OpenKeyring ==
    /\ At("keyring")
    /\ local' = [local EXCEPT !.keyring = TRUE]
    /\ Proceed(cmd.meta)
    /\ UNCHANGED <<scene, cloud, roots, leaving, faults>>

\* An object is stored, if the bucket is still there.
StoreObject ==
    /\ At("store")
    /\ data' = IF bucket[cmd.meta.bucket] = "ours" THEN data \union {cmd.meta.bucket} ELSE data
    /\ Proceed(cmd.meta)
    /\ UNCHANGED <<scene, local, cluster, trusts, pulls, repository, bucket, roots, leaving, faults>>

\* storage deploy issues the keyholder's identity and records it before it
\* applies anything.
RecordKeyholder ==
    LET meta == [cmd.meta EXCEPT !.keyholder = TRUE] IN
    /\ At("issue") /\ local.root # 0
    /\ Save(meta) /\ Proceed(meta)
    /\ UNCHANGED <<scene, cloud, roots, leaving, faults>>

\* kubectl apply of the keyholder, whose identity has the same trust root.
ApplyKeyholder ==
    /\ At("serve") /\ Reaches
    /\ trusts' = [trusts EXCEPT !["keyholder"] = local.root]
    /\ pulls' = Pulled
    /\ Proceed(cmd.meta)
    /\ UNCHANGED <<scene, local, cluster, repository, bucket, data, roots, leaving, faults>>

-----------------------------------------------------------------------------
(* kernel deploy *)

KernelDeploy(flag) ==
    /\ Used("kernel") /\ ~leaving /\ local.record.fatline /\ Reaches
    /\ Begin("kernel", 1, flag)

\* Recorded before it is applied.
RecordKernel ==
    LET meta == [cmd.meta EXCEPT !.kernel = TRUE] IN
    /\ At("kernel")
    /\ Save(meta) /\ Proceed(meta)
    /\ UNCHANGED <<scene, cloud, roots, leaving, faults>>

ApplyKernel ==
    /\ At("enforce") /\ Reaches
    /\ pulls' = Pulled
    /\ Proceed(cmd.meta)
    /\ UNCHANGED <<scene, local, cluster, trusts, repository, bucket, data, roots, leaving, faults>>

-----------------------------------------------------------------------------
(* release *)

Release(flag) == Used("release") /\ (leaving => flag = "wipe") /\ Begin("release", 1, flag)

\* storage.Open without a keyring found the recorded bucket to be ours.
Opened(n) == n # NoName /\ bucket[n] = "ours"

\* A recorded name that is another's bucket fails validation.
Refused(n) == n # NoName /\ bucket[n] = "other"

\* gateOnStoredData: objects are destroyed only when the operator says so.
Gate ==
    LET n == cmd.meta.bucket IN
    /\ At("gate")
    /\ IF Refused(n) \/ (Opened(n) /\ n \in data /\ cmd.flag # "wipe") THEN cmd' = Idle ELSE Proceed(cmd.meta)
    /\ UNCHANGED <<scene, local, cloud, roots, leaving, faults>>

\* The record says deleting, if it can be saved.
MarkDeleting ==
    LET meta == [cmd.meta EXCEPT !.status = "deleting"] IN
    /\ At("mark")
    /\ \/ Save(meta) /\ UNCHANGED faults
       \/ UNCHANGED local /\ Fault
    /\ Proceed(meta)
    /\ UNCHANGED <<scene, cloud, roots, leaving>>

\* DeleteCluster returns when the cloud has accepted the deletion.
DeleteCluster ==
    /\ At("cluster")
    /\ cluster' = IF cluster = "none" THEN "none" ELSE "stopping"
    /\ Proceed(cmd.meta)
    /\ UNCHANGED <<scene, local, trusts, pulls, repository, bucket, data, roots, leaving, faults>>

\* Mutant: a repository that is not there cannot be deleted.
DeleteRegistry_Absent ==
    /\ At("unregister")
    /\ IF repository.owner # "ours" THEN cmd' = Idle /\ UNCHANGED repository
       ELSE repository' = NoRepository /\ Proceed(cmd.meta)
    /\ UNCHANGED <<scene, local, cluster, trusts, pulls, bucket, data, roots, leaving, faults>>

\* DeleteRegistry proves ownership and waits for the deletion.
DeleteRegistry ==
    /\ At("unregister")
    /\ IF Foreign THEN cmd' = Idle /\ UNCHANGED repository
       ELSE repository' = NoRepository /\ Proceed(cmd.meta)
    /\ UNCHANGED <<scene, local, cluster, trusts, pulls, bucket, data, roots, leaving, faults>>

\* DeleteBucket proves ownership and empties the bucket.
DrainObjects ==
    LET n == cmd.meta.bucket IN
    /\ At("drain")
    /\ IF Refused(n) THEN cmd' = Idle ELSE Proceed(cmd.meta)
    /\ data' = IF Opened(n) THEN data \ {n} ELSE data
    /\ UNCHANGED <<scene, local, cluster, trusts, pulls, repository, bucket, roots, leaving, faults>>

\* It deletes the bucket, which the cloud refuses if an object came in.
DeleteBucket ==
    LET n == cmd.meta.bucket IN
    /\ At("unbucket")
    /\ IF Opened(n) /\ n \in data THEN cmd' = Idle /\ UNCHANGED bucket
       ELSE /\ bucket' = IF Opened(n) THEN [bucket EXCEPT ![n] = "none"] ELSE bucket
            /\ Proceed(cmd.meta)
    /\ UNCHANGED <<scene, local, cluster, trusts, pulls, repository, data, roots, leaving, faults>>

RemoveInstance ==
    /\ At("remove")
    /\ local' = NoInstance
    /\ Proceed(cmd.meta)
    /\ UNCHANGED <<scene, cloud, roots, leaving, faults>>

-----------------------------------------------------------------------------
(* The cloud, the applications and other people *)

\* A cluster comes up or fails; one that is being deleted goes, and its
\* workloads with it.
ClusterMoves ==
    /\ \/ /\ cluster = "creating" /\ cluster' \in {"running", "error"}
          /\ UNCHANGED <<trusts, pulls>>
       \/ /\ cluster = "stopping" /\ cluster' = "none"
          /\ trusts' = [w \in Workload |-> 0] /\ pulls' = {}
    /\ UNCHANGED <<scene, local, repository, bucket, data, cmd, roots, leaving, faults>>

\* Applications write through the keyholder until their cluster is gone.
AppWrites ==
    /\ cluster \in {"running", "stopping"} /\ trusts["keyholder"] # 0
    /\ \E n \in Name \ data : bucket[n] = "ours" /\ data' = data \union {n}
    /\ UNCHANGED <<scene, local, cluster, trusts, pulls, repository, bucket, cmd, roots, leaving, faults>>

\* Someone deletes a bucket in the console, or takes a free name.
BucketChanges(n) ==
    /\ Fault
    /\ \/ bucket[n] = "ours" /\ bucket' = [bucket EXCEPT ![n] = "none"] /\ data' = data \ {n}
       \/ bucket[n] = "none" /\ bucket' = [bucket EXCEPT ![n] = "other"] /\ UNCHANGED data
    /\ UNCHANGED <<scene, local, cluster, trusts, pulls, repository, cmd, roots, leaving>>

\* The operator has had enough, and runs release --delete-data until it works.
Leave ==
    /\ Used("release") /\ ~leaving /\ leaving' = TRUE
    /\ UNCHANGED <<scene, local, cloud, cmd, roots, faults>>

-----------------------------------------------------------------------------
InstallStep ==
    \/ SaveCredentials \/ RecordIntent \/ CreateCluster \/ WaitReady \/ ProvisioningFails
    \/ SaveKubeconfig \/ Finish

RegistryStep ==
    \/ CreateRepository \/ GrantPull \/ NoRegistry
    \/ ResolveImage \/ Assemble \/ Mirror \/ PushBlobs \/ PushManifest \/ RecordTools

ConnectStep ==
    EnsureIdentity \/ ApplyFatLine \/ RecordApplied \/ BindCarrier \/ RecordKernel \/ ApplyKernel

StorageStep ==
    \/ Mint \/ Ensured \/ EnsureUnrecorded \/ NotOwned \/ Validate \/ OpenKeyring
    \/ StoreObject \/ RecordKeyholder \/ ApplyKeyholder

ReleaseStep ==
    Gate \/ MarkDeleting \/ DeleteCluster \/ DeleteRegistry \/ DrainObjects \/ DeleteBucket \/ RemoveInstance

Command ==
    \/ Install \/ StorageWrite \/ Toolchain
    \/ \E flag \in Option[scene] : 
         Connect(flag) \/ Redeploy(flag) \/ StorageDeploy(flag) \/ KernelDeploy(flag)
    \/ \E flag \in {"none", "wipe"} : Release(flag)

LifecycleNext ==
    \/ Command
    \/ InstallStep \/ RegistryStep \/ ConnectStep \/ StorageStep \/ ReleaseStep
    \/ Interrupt
    \/ ClusterMoves \/ AppWrites \/ Leave
    \/ \E n \in Name : BucketChanges(n)

-----------------------------------------------------------------------------
(* Correctness *)

\* "A cluster can never exist un-recorded", nor a bucket or a repository:
\* whenever a command stops, every billable resource of the instance is one
\* that release would find from the record.
NoOrphan ==
    /\ cluster \in {"creating", "running", "error"} => local.stage = "recorded"
    /\ repository.owner = "ours" => local.stage = "recorded"
    /\ \A n \in Name : bucket[n] = "ours" => local.stage = "recorded" /\ local.record.bucket = n

\* The workloads of a running cluster trust this machine's root and no other,
\* however often the commands that deploy them were cut short.
TrustRootShared ==
    cluster = "running" => \A w \in Workload : trusts[w] \in {0, local.root}

\* "Every blob first": whatever the running cluster, or the toolchain on
\* record, is to be pulled from the instance's repository is there in full,
\* although any push may be cut short and the next command trust its tag.
ImagesWhole ==
    cluster = "running" => \A i \in pulls \union local.record.tools : Whole(i)

\* What the cloud bills this instance for and nobody is deleting yet.
Billable ==
    \/ cluster \in {"creating", "running", "error"}
    \/ repository.owner = "ours"
    \/ \E n \in Name : bucket[n] = "ours"

\* A release that is repeated ends with nothing left to pay for, unless a
\* name of the instance is somebody else's.
ReleaseConverges ==
    leaving ~> (~Billable \/ repository.owner = "other" \/ Refused(local.record.bucket))
=============================================================================
