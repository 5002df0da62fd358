# A verification project for farcast

TLA+ modules for the parts of farcast whose correctness depends on the order
in which things happen: who holds which encryption keys, whether stored objects
stay whole and readable, what survives when several commands edit one record or
are killed half way, whether spending is counted and stopped, and whether an
application reaches only what it declared. TLC checks the modules on small
instances; TLAPS proves their safety properties for every size.

| Part | Modules | Proofs |
|---|---|---|
| keyholder process | `Vault`, `Keyholder` | `KeyholderProofs` |
| keys and a fleet | `HandOverPlan`, `HandOver` | `HandOverProofs` |
| stored objects | `Bucket`, `Upload`, `Blob`, `ObjectStore` | `UploadProofs`, `ObjectStoreProofs` |
| instance record | `Metadata` | `MetadataProofs` |
| an instance's life | `Lifecycle`, `Delivery` | `LifecycleProofs` |
| spending | `CostLedger`, `Usage`, `Kernel` | `KernelProofs` |
| egress | `EgressPolicy`, `Inspector`, `Egress` | `EgressProofs` |

`MC*` modules and `.cfg` files instantiate them, and `PROJECT.json` maps every
definition to the lines it models.

    tlc -config MCKernel.cfg MCKernel
    tlapm KeyholderProofs.tla

## The system

farcast runs applications on a cluster the operator owns. The operator's
machine (`farsight/cli`) is the only place that knows everything; the cluster
runs a few components of farcast's own beside the applications.

| Component | State | Operations | Talks to |
|---|---|---|---|
| keyholder (`datasphere/keyholder`), two replicas | seal phase, generation, scopes with their key bytes, outstanding challenges; memory only | challenge, unseal, seal, release-hold; read, write, list, delete | operator and keepers (control), applications (data), the bucket |
| machine keyring (`keys.yaml`) | key-encryption keys of each scope, newest first | rotate, add scope, import, export, compare-and-replace | hand-over, keeper enrolment |
| hand-over (`storagekeyholder.go`) | one command's plan and progress | rotate, run, unseal | every replica, the keyring file, the instance record |
| keeper (`farsight/cli/internal/keeper`) | an enrolled bundle, a ledger | a pass: read the fleet, decide, re-seed | every replica |
| instance record (`metadata.yaml`) | everything the CLI knows of an instance | load, save with merge, update, roll back | every command |
| kernel (`technocore`) | ledger of the period, usage profiles, time of the last tick, level | tick, checkpoint, shut down, roll, resize | Kubernetes API; ConfigMaps the operator writes |
| object store (`datasphere`) | encrypted objects under hidden names | put, get, list, delete, rekey | GCS, through its own client |
| fatline | the policy in force, connections, an event buffer | identify, judge, dial, relay, reload | applications, shrike, the policy ConfigMap |
| shrike | violation table | record a refusal, raise an alert | fatline |
| planck, oci, image | none of their own | create and delete clusters, repositories; fetch, build, push | cloud, registry, cluster |
| CLI commands | the instance's directory | install, connect, redeploy, storage deploy, kernel deploy, run, build, release | all of the above |

What is hard here, and hardly reached by a test:

- **key bytes are zeroed** by one goroutine while another may be using them;
- **no coordinator**: replicas do not talk to each other, pushes go one by one,
  each may fail, land late, or land without its answer; replicas restart empty
  at any time and keepers put keys back on their own;
- **several writers**: commands on one machine, several machines, keepers;
- **crashes half way**: a rotation between its saves, a kernel between its
  checkpoints, a command between creating something billable and recording it;
- **answers that are lost**: an upload window that was stored in part, a push
  that arrived after its caller gave up, a resize that landed unheard;
- **state read earlier**: a listing a sweep works from, a policy half reloaded,
  a branch that moves between approval and build, a Job of an earlier command;
- **time**: periods end during an outage, figures arrive for hours not billed.

The components are listed with their status in `PROJECT.json`, with the hazards
at the line where each bites.

## The modules

### Vault, Keyholder: one keyholder process

`Vault` is `vault.go` as operators on a value: `UnsealVerdict` is the chain of
refusals in `Unseal`, `UnsealVault`, `SealVault`, `ReleaseVault` the results. A
scope's keyring is its active key and the set it holds: the order behind the
active key is ignored by the code too (`scopeKeysMatch`).

`Keyholder` puts it in a server. A handler is split where it gives up a lock,
because handlers run concurrently:

| Code | Actions |
|---|---|
| `GET seal-challenge` and the pusher's `SealBundle` | `Issue`; a deadline passing is `PassDeadline` |
| `POST unseal` | `Open` (authorise, consume the challenge, decrypt), `Unseal` (the vault, under its lock), `FinishUnseal` (answer, wipe the bundle) |
| `POST seal`, `release-hold` | `Seal`, `ReleaseHold` |
| `PUT`/`DELETE` object | `Admit` (resolve and copy the scope), `Finish` (store, wipe the copy) |
| process death and start | `Restart` |

Key bytes live in numbered buffers and `wiped` records the zeroed ones, so that
sharing a slice is visible as two owners of a buffer. Envelopes stay in `sent`
and may be presented any number of times. Reads and lists change nothing and
are left out.

### HandOverPlan, HandOver: keys and a fleet

`HandOverPlan` holds the two pure judgements: `planHandOver` (`Behind`,
`NeedsHold`, `Meanwhile`, `HeldKeyrings`) and the keeper's (`Mismatch`,
`Unchecked`, `Reseeds`). Where the code takes the first of several keys minted
in one second, the model takes any.

`HandOver` runs them. A command is a record with a program counter; one step is
one call to one replica or one replacement of a file:

    rotate:  SaveRotated -> Read.. -> SaveHeld -> Push.. -> Read.. -> SaveActive
                         -> Push.. -> Confirm.. -> Record -> (PutBack)
    run:     SaveScope -> LoadKeys -> Read.. -> Push.. -> ...
    unseal:  Read.. -> Push.. -> ...

`PushFails` covers a call lost, an answer lost, and a call the replica acts on
after its caller has given up (`DeliverLate`). `Kill` ends a command anywhere.
Keepers read every replica, then decide about each. Restarts, seals and
released holds happen to any replica at any time. `written` records every key
an object may have been wrapped under.

Nothing in the code makes commands and passes wait for each other. A `scene`,
chosen initially, says whether they overlap step by step or take turns, and
bounds commands, events and faults; taking turns also means that calls of an
earlier command have arrived (`MayStart`). A property that needs turns says so.

### Metadata: the instance record

Each command has its own copy with what the code keeps about it: `loaded`,
`loadedSum` (`sum`) and `loadedRaw` (`raw`). `Compared` is
`SaveInstanceMetadata` up to the write, `Merged` and `Conflicts` are
`mergeOntoNewer`, `Write`/`WriteFails` the rename. `RollBack` is the third step
of `kernel confirm`, `kernel meter` and `run` when applying to the cluster
failed. A merge leaves the copy without a base, as in the code, and
`MergedRollBack` is a roll-back that went through one.

### CostLedger, Usage, Kernel: spending

`CostLedger` has the ledger as operators over hours (the ledger's buckets).
Quotients are avoided by scaling: `ScaledTotal` is the total times
`CalibratedFrom`. `Usage` has the profiles (hourly slots, eviction, forgetting)
and `Recommend` with its step bound and its threshold. `Kernel` is the loop:
`Reconcile` is a whole tick up to the decision to act (roll, take in
confirmations, meter, sample, assess), then `Scale` or `Resize` once per target,
then `Checkpoint` and `SaveUsage`. `ReconcileFails` is a tick that errors,
`Crash`, `Terminate` and `Start` the process, `Pass` the clock,
`PushConfirmation` and `Deploy` the operator. A resize may be stored as asked,
raised by the cluster's admission, or applied with its answer lost.

### Bucket, Upload: one object in the cloud

`Bucket` is the abstract specification: what the `Provider` contract promises
of one object. An upload replaces it whole or not at all; one that reports
success has done so; one given up on may still take effect.

`Upload` is the GCS client. A small stream goes out in one request, retried
whole (`Put`); a larger one opens a session (`StartResumable`) and sends windows
(`SendWindow`), asks after a failure how far the service came (`QueryOffset`)
and resumes there, or aborts (`AbortResumable`). When the request that opens a
session, or its answer, is lost, the call returns with nothing to abort
(`unnamed`), whether or not there is a session. Each request is one step whose
fate decides what the caller hears; the service may keep a part of a window, and
`DeliverLate` is a request arriving after its caller gave up.
`Contract == INSTANCE Bucket WITH ...` maps the object's blocks to the upload
they are the whole of, and `KeepsContract` is the refinement.

### Blob, ObjectStore: what is stored

`Blob` is the stream format: an object's frames are sealed for their position
and for being the last, and `OpenedFrames` says how many a reader writes out
before it ends or fails. A seal is a record of what it was made with.

`ObjectStore` has two key spaces, the instance's own and one application's. A
place is a stored name, so the same logical key has one in each. Commands work
from the keyring they read when they began:

| Code | Actions |
|---|---|
| keyholder `PUT`/`DELETE` | `AppWrite`, `AppDelete`, by any replica with its keys |
| `farcast run`, `key rotate`, restarts and keepers, in outline | `MintScope`, `RotateHold`, `RotatePush`, `RotateActivate`, `HandOver`, `Restart`, `Reseed` |
| `storage cp`, `rm` | `UploadBegin`, `UploadWrite`, `Download`, `Rm`, `RmPrefix` |
| `storage key rekey` | `RekeyList` (may miss some, and warns), `RekeyAsk` (the gate, one replica at a time), `RekeyRead`, `RekeyPut`, `RekeyStop` |

`RekeyPut` stores what it reads of the object: all of it, or a first part when
the source breaks off, which is what `MCUploadRekey` shows. `cut` remembers the
data keys of the latter. The sweep has reported (`Rekeyed`) when nothing it
listed is left; `aim` is what it was asked for, or nothing if it warned.

### Lifecycle, Delivery: an instance

`Lifecycle` runs one command at a time through `Steps`, the calls it makes in
order. Every step is an action of its own and `Interrupt` ends the command
before or after it, so a call whose answer is lost is that step followed by an
interruption. The cloud has a cluster, an image repository and buckets, any of
whose names may be somebody else's. Images are looked up by tag, or mirrored,
or compiled and pushed: blobs first, then the manifest.

`Delivery` extends it with `farcast run` and `farcast build`. Their Jobs outlive
the commands: `ApplyJob` creates one or leaves the one that is there, `JobEnds`
and `JobExpires` are the cluster's, `Commit` moves the branch. One `Next` has
the actions of both.

### EgressPolicy, Inspector, Egress: what applications reach

`EgressPolicy` is the policy document and FatLine's two views of it (whose
credential, which hosts). `Inspector` is Shrike's table and its rule for
raising an alert. `Egress` composes them: `ReadPolicy`, `WritePolicy`,
`ApplyWorkloads` are `farcast run`; `Start`, `Watch`, `Poll`, `ReloadList`
FatLine's policy, of which the two halves are replaced one after the other;
`Connect`, `IdentifyCaller`, `CheckHost`, `Dial`, `PeekSNI` a request, between
whose steps a reload may fall; `ClientEnds` .. `RelayEnds` the two copies of a
relay; `Emit`, `Deliver`, `Record` an event's way through the bounded buffer and
the bounded socket to the table.

### How they fit together

`Keyholder` and `HandOver` share `Vault`: the first has one process in detail,
the second several with the vault's operations atomic. `ObjectStore` takes
rotation as the steps `HandOver` shows it to be and uploads as atomic, which is
what `Upload` shows of them for any source that does not fail in disguise; the
sweep's source may, and then `RekeyPut` is atomic with less than the object.
`Lifecycle` has one command at a time and `Metadata` the record under two.

## What the runs check

| Run | Question | Bounds |
|---|---|---|
| `MCKeyholder` | Is every key buffer owned once, is nothing written under zeros, do roles and generations hold? | 2 scopes, 2 keys, 3 bundles, 6 kinds of push, 2 sessions with room for 1, 1 upload, 2 processes, 5 buffers |
| `MCHandOver` | Can one machine's commands split the fleet, or run ahead of it? | 2 replicas, 3 commands, 2 restarts/seals, 2 faults; keys 2 and 3 minted in the same second |
| `MCHandOverKeeper` | With two machines and a keeper: does a push take a key in use, a re-seed split the fleet, a rotation or a deploy unseal anything, a save lose a key? Does a restarted replica come back? | 2 machines, 1 keeper, 2 scopes (rotate, run, unseal), four scenes: in turn, 2 commands, 2 events, 1 fault; overlapping, 2 commands, or 1 command, 1 event and 1 fault beside the keeper, or the keeper alone with 3 events and 2 faults |
| `MCHandOverSilent` | With a keeper, can an unseal that meets a silent replica split the fleet? It can: see below | 1 machine, 1 keeper, 3 commands, 2 events, 2 faults |
| `MCKeeperOverlap` | Can a keeper whose reading is older than a rotation split the fleet? It can: see below | 1 machine, 1 keeper, overlapping: 1 rotation, 1 restart |
| `MCMetadata` | Does a save lose or revert what another recorded? | 2 commands, 2 fields, values up to 3, 5 saves |
| `MCKernel` | Is every hour billed once, the limit enforced, the cooldown kept? | 2 periods of 3 hours, 2 workloads; not adapting: 2 faults and one confirmation of nothing, a fair amount or far too much; adapting: 1 fault, 2 levels of use |
| `MCUpload` | Does the client keep the Provider contract, return, and clean up? | uploads of 1, 4 and 5 blocks at once, windows of 2, 2 attempts, 2 faults |
| `MCObjectStore` | Does everything stay readable, and does a sweep retire the old keys? | 2 keys in 2 spaces, 2 replicas, 2 writes, 1 rotation, 1 object cut by a sweep, frames of 2 units |
| `MCLifecycle` | Is anything billable unrecorded, any image torn, anything run unapproved? Does release converge? | 2 bucket names, 2 mints, 2 trust roots, 2 commits, 2 faults |
| `MCEgress` | Is only the declared reached, is every refusal seen, do policies and relays get through? | 2 deployments, 1 host, 2 runs, 2 connections, buffer and socket of 1, burst of 2, 1 fault |

A system whose bounds are used up, or whose commands have all ended, may stop, so
these runs do not check for deadlock; `MCKeyholder`, whose process can always
be sealed, does.

The bounds are enough for what the properties are about. A split needs two
replicas and two keys; the third key is there for a second rotation on top of
an unfinished one. Two events and two faults allow a restart and a seal around
a lost and a late call. Two processes and one restart show what a restart
forgets. Six hours in two periods hold a checkpoint, a crash, an outage across
the boundary and a roll. Uploads of 4 and 5 blocks end with a full and with a
partial window, and 1 block takes the one-shot path. A burst of two reaches the
escalation of an alert.

Where one run covers two unlike situations its bounds depend on the initial
state. `scene` in `HandOver` has been described; `scene` in `Lifecycle` starts
with no instance, with a connected one, or with one that applications are
delivered to, and enables the commands that belong there; `adapting` in `Kernel`
likewise. Of the properties only `NoKeyTaken` mentions one. Each mutant in
`PROJECT.json` is a plausible slip in the code that the same run catches within
its bounds.

### Where the code and its documentation differ

**`MCUploadRekey`** is expected to fail. `uploadWindows` reads its source with
`io.ReadFull` and takes `io.ErrUnexpectedEOF` for a short last window. An HTTP
body reports the same error when its connection is cut, and the source of
`Store.Rekey`'s upload is the body of a download. A rekey whose download is cut
thus finalises a shorter object over the original and reports it as moved,
while `storagekey.go:721` calls it "safe to interrupt — every object stays
readable throughout". The run has one upload whose source is a download and
finds `ObjectsWhole` violated; `MCUpload`, whose sources fail openly, does not.
`OperatorReadsAll` in `ObjectStore` excepts what a sweep cut in this way: its key
is still there, its end is not.

**`MCKeeperOverlap`** is expected to fail. A keeper's pass reads every replica,
judges the fleet once and pushes later, without a condition. A replica restarts;
the keeper reads it, and the other one serving what the keeper's bundle has; a
rotation then runs to its end on the other; the keeper re-seeds the restarted
one with the keys from before, and it cannot read what the other writes.
`decide.go:90` says of the verdict that it "is what stops a keeper putting
pre-rotation keys back into a replica that restarted and holds nothing to
compare against"; `keeper.go:504` says the same. That the verdict itself is
right is `FreshReseedKeepsWhole`: in every interleaving a re-seed decided on
what the fleet still is splits nothing.

**`MCHandOverSilent`** is expected to fail, and came out of the attempt to prove
`NoSplit` with keepers. `planHandOver` consults the replicas that answered and
pushes in one what all of those hold; that a silent replica holds it too is
taken from the commands before ("a keyring whose active keys every replica took
before is pushed to it in one"). A keeper can undo that. A rotation completes;
both replicas restart; a keeper enrolled before the rotation re-seeds both,
which `Decide` allows since they agree with each other; an unseal pushes the new
key held to the first replica and is cut short; the next unseal finds the first
replica with the key and the second silent, though serving, and makes the key
active on the first alone. What it then writes the second cannot read, where
`storagekeyholder.go:640` says "No replica is told to write under a key another
serving replica lacks". A second machine that is behind can stand in for the
keeper. Without either, `FleetNeverSplits` proves that it cannot happen.

Some assumptions of passing runs mark limits of the code; dropping one makes TLC
find the corresponding behaviour:

- `HandOver` with overlapping scenes: `NoSplit`, `WrittenReadable` and
  `NoKeyTaken` fail, on one machine too: an unseal may read one replica before
  and one after another command's rotation. They are stated of, or run with,
  commands that take turns. `KeyringsGrow`, `HandOverNeverUnseals`,
  `FreshReseedKeepsWhole` and `RestartsHealed` do not need that.
- `MCMetadata` with `Overlap = TRUE`: `OnlyOwnEdits` fails, as nothing locks the
  few system calls between comparing and renaming.
- `OnlyOwnEdits` and `NothingErasedUnseen` leave out fields that are empty on
  disk. A copy that was merged has no base, so it takes an empty field for one
  the file lacks: with three commands and four fields, one rolls a field back to
  empty and a merged copy that still has the old value writes it again. The
  proof found this; two commands and two fields do not reach it.
- `SaveTakesEffect` leaves out a roll-back that is merged with a newer record.
  `SaveInstanceMetadata` leaves `loadedRaw` at what was first loaded, to which the
  roll-back returns its field, so the merge takes it for no change and keeps what
  was to be taken back, and the save reports success; `kernelconfirm.go:155`
  relies on it to "put local state back".
- `NoSessionLeft` allows two sessions to be left: one whose abort, sent once, was
  lost, and one whose opening answer was. Of the second `putResumable` never
  hears, though `stream.go:86` says that "on any failure it abandons the session".
- `SweepRetires` claims nothing of a sweep that missed something when listing. It
  warns (`storagekey.go:751`, `847`), goes on, and still prints "rekeyed".
- `RekeyKeepsReadable` speaks of replicas that have served since the sweep began or
  since they were asked. One that restarts later and is re-seeded from an older
  bundle cannot read what was moved until it is unsealed.
- `PolicyTakesEffect` assumes that the watcher's baseline is what FatLine
  loaded. The file is read twice at start-up, and a policy written in between
  is not noticed.
- `DeclaredOnly` allows any policy in force since a request began.
  `ReloadPolicy` says "Both halves swap together" and stores one after the
  other.

Three more, which no property of a run states:
`Restore` ignores a checkpoint of another period with its `Last`, so the hours
from a period's start to the first tick after an outage are billed by nobody
(`technocore/README.md:144` says the successor bills the gap); a confirmation is
judged before the tick's own hours are accrued; and a build Job's spec cannot be
changed, so a second commit within the Job's lifetime is refused where
`planck/build/build.go:161` says a re-run "replaces rather than accumulates".

### Fairness

- `KeeperFairness`: a keeper's loop runs for ever, so its reads and its
  decisions are weakly fair. The re-seed is strongly fair *when answered*: a
  call may fail and a budget may be spent, but the budget's window passes and
  the network is not down for ever. A late call arrives in the end
  (`ReplicaFairness`). Nothing is assumed of operators or commands, so
  `RestartsHealed` is about instances on which no command is under way.
- `KernelFairness`: `Run` ticks for ever and a Deployment restarts the process
  (weak fairness of `Start`); a complete tick is strongly fair, since the API
  server may fail any number of ticks but not all; scale calls, resizes and
  checkpoints follow within a tick.
- `Upload`: a call that has begun goes on. Every loop of the client is bounded by
  its attempts, so nothing is assumed of what the network delivers; that each
  single request ends is the caller's context, as `uploadDo` sets no deadline.
- `Delivery`: a release that runs goes on, the cloud finishes what it accepted,
  and an operator who is leaving tries again after a failure. Nothing is assumed
  of other commands.
- `Egress`: FatLine is restarted, its watcher polls for ever, its copies go on,
  and a service told that its caller ended closes its side. Nothing is assumed
  of callers, of Shrike or of operators.

## What is proved

Each theorem is about `Spec` and every value of the constants, from the named
assumptions of the module that declares them (bounds are any numbers; sets may be
infinite, except the kernel's workloads and levels of use, whose costs are summed). The bounds the runs need, such as `MaxFaults`, are arbitrary
there, so the theorems hold of behaviours of any length. Hypotheses beyond the
modules' assumptions are part of the statement.

| Theorem | Property | Hypothesis |
|---|---|---|
| `KeyholderProofs`: `TypeCorrect`, `SealedEmpty`, `OwnersWrite`, `KeeperReseeds`, `GenerationsGrow`, `ChallengeIsSingleAttempt`, `BytesOwned`, `NothingWrittenUnderZeros`, `TableBounded` | the eight of `MCKeyholder`, and `ChallengesBounded` | |
| `HandOverProofs`: `FleetNeverSplits` | `NoSplit`, `MachineNeverAhead`, `WrittenReadable` | no overlapping scene, no keeper, all commands on one machine |
| `NoPushTakesKeys` | `NoKeyTaken` (which speaks of scenes that do not overlap) | |
| `FreshReseedsKeepWhole`, `KeyringsOnlyGrow`, `NeverUnsealsByHandOver` | `FreshReseedKeepsWhole`, `KeyringsGrow`, `HandOverNeverUnseals` | |
| `ObjectStoreProofs`: `AlwaysReadable`, `RekeyTakesNothing`, `SweepsRetire` | `OperatorReadsAll`, `RekeyKeepsReadable`, `SweepRetires` | |
| `DownloadsComplete` | `DownloadsWhole` | `RoundTrip` of the contents written |
| `UploadProofs`: `SessionsClosed` | `NoSessionLeft` | |
| `ContractKept` | `KeepsContract` (refinement of `Bucket`) | `Downloads = {}` |
| `LifecycleProofs`: `NothingOrphaned`, `OneTrustRoot`, `NothingHalfPushed`, `OnlyApprovedRuns` | `NoOrphan`, `TrustRootShared`, `ImagesWhole`, `ApprovedOnly` | |
| `MetadataProofs`: `OthersFieldsStay`, `NothingGuessedAt` | `OnlyOwnEdits`, `NothingErasedUnseen` | `~Overlap` |
| `SavesTakeEffect` | `SaveTakesEffect` | |
| `KernelProofs`: `NeverBilledTwice`, `GuardNeverOff`, `CooldownAlwaysKept` | `BilledOnce`, `GuardStaysOn`, `CooldownKept` | |
| `EveryHourBilled` | `NoHourLost` | `System \notin MayRefuse` |
| `EgressProofs`: `DenyByDefault`, `NoSilentRefusal` | `DeclaredOnly`, `NoBlindSpot` | |

None of the invariants is inductive as it stands. What was added, and why:

**Keyholder.** `TypeCorrect` comes first and is used by everything else.
`SealedEmpty` and `GenerationsGrow` follow from the vault operators alone. What is
stored was admitted earlier, so `OwnersWrite` and `KeeperReseeds` need
`Admitted`: every request in flight was allowed to do what it is doing.
`ChallengeIsSingleAttempt` needs `SpentClosed`: a session an envelope was
presented for is never outstanding again. `BytesOwned` goes through `Owners`, the
same fact about single buffers: each live buffer has an owner, no two owners
share one, no owner holds a wiped one, and no buffer beyond the counter is in
use. `NothingWrittenUnderZeros` follows, as a request owns its buffer until it
finishes. `TableBounded` rests on the library's cardinality theorems.

**HandOver.** `HandOverFits(home)` says: the file of the commanding machine
holds every key a replica serves and every key ever written under
(`FileCovers`), and every serving replica with that scope holds the latter; what
is in use counts as written; other machines' files have no key this one lacks;
at most one command runs; a push still on its way is `Sendable`, which means it
carries just the keys of the file, and every serving replica with a scope holds
the key it makes active there; and `CommandFits`, what a command relies on
between its steps: its answers are `StillTrue` (a replica that serves now served
then, with the same keys), replicas that took the first push hold the `Whole`
file until they restart, and the keyring it pushes second is `Sendable` by then. The last is the heart of the two-push
protocol, and it is where a keeper breaks it.

With keepers and several machines a fleet can be split by commands, so what is
proved there is weaker and is about single pushes. For `NoPushTakesKeys`,
`KeysKept` says of a scene that does not overlap: commands and keeper passes take turns (`Turns`); while replicas are read, what
they answered is what those that serve hold (`Remembered`), and afterwards a
replica that answered has no key the keyring about to be pushed lacks
(`CommandKeeps`); a command's late push is the only one on its way to its
replica and has all the replica's keys (`LatePush`); a pass that may re-seed, and
a late re-seed, come from a bundle that `Agrees` with every serving replica
(`PassKeeps`, `LateReseed`), and nothing else is under way until they are in.
`Agrees` is what `Mismatch` establishes, in both directions: the bundle has
every key of the replica and the replica has the bundle's active key. The late
pushes are why it is needed: what a call carries has to fit a replica that has
changed since it was sent.

`FreshReseedsKeepWhole` needs no invariant beyond types: `Mismatch` on a reading
that is `FreshReading` gives `Agrees` with what each replica serves now
(`FreshAgrees`), and a replica that takes an agreeing bundle leaves a whole fleet
whole (`AllWholeStays`). The hypothesis is exactly what `MCKeeperOverlap` lacks.

`KeyringsOnlyGrow` needs only types and the comparison under the lock, and
`NeverUnsealsByHandOver` the refusal in `UnsealVerdict`, so both hold for
overlapping commands and any number of machines and keepers.

**ObjectStore.** `StoreInv`: keys spread from `keys.yaml` outwards, so every
ring a replica, the keeper's bundle or a command holds is part of it
(`RingsSound`, `ServedSound`, `Earlier`); every stored object, and the one a
sweep carries, is one sealed write under a key of its space, whole or, where a
sweep's source broke off, a first part of it (`BucketSound`, `SweepSound`,
`IsSealed`; a part of a part is a part, `CutIsPart`); what a sweep is done with is under the key it moves
to or a newer one (`Retired`), and the replicas that were asked and have served
since hold that key (`Gated`). `DownloadsAllOrNothing` says that what
a download leaves are all the frames of one write: no part authenticates to its
end (`PartFails`). That these, joined, are what
was written is `RoundTrip`, an induction over frames, which `MCObjectStore`
evaluates for its contents (`BodiesRoundTrip`).

**Upload.** `UploadInv`: a session has the first part of its blob up to where the
service is, and is complete only with all the source had; a request on its way,
however late, asks for a part at its offset (`Asks`); the object is what an
upload that took effect had; a call that returned has left no session open but
after a lost abort or a lost opening answer. `ContractKept` maps the initial state and each action
to a step of `Bucket` or to a stutter. Its hypothesis excludes exactly what
`MCUploadRekey` is about.

**Lifecycle.** `Recorded`: install records before it creates, any other command
works from the record as it is saved (`OnRecord`), and what a release has taken
down stays down (`TakenDown`). `Deployed`: a new cluster runs
nothing, manifests in the repository have their blobs, and what is pinned or
pulled has its manifest. `Shown`: a Job that succeeded did what it was created
for, and a run that waits for one waits for the commit it was shown.

**Metadata.** `CopiesOK`: a copy differs from its base, or from the file it read,
only in what its command touched; `WritesFit`: what is about to be renamed into
place agrees with the file everywhere else, empty fields apart. The second needs that no other save
comes between the comparison and the rename (`~Overlap`). `SavesTakeEffect` needs
neither: a save writes its own value unless it was merged, and a merge keeps it
unless it equals the base, which only a roll-back's does.

**Kernel.** `Typed` adds to the types that the ledger holds finitely many
confirmations. `GuardStaysOn` follows from the clamp on a confirmation's factor
(`Counted`) by a lemma on sums over finite sets. `Stamped`: the annotation on an
object says when the kernel last resized it, and what a tick has in hand names
each application once and none that is cooling down; without it a second resize
in one tick would break `CooldownKept`. `BilledOnce` needs `Sized` (no reservation, and
none in a profile or its checkpoint, exceeds what the levels call for) and
`Accounts`: the ledger, and each checkpoint with its own `Last`, has nothing at or
after `Last` or outside its period. That is what a restart relies on, which takes
both from one checkpoint. `NoHourLost` needs `Beginnings`: a ledger has a first
hour once a tick was billed, and the same of each checkpoint. Its hypothesis is
needed: `reconcile.go` skips a namespace that refuses to be listed, and those hours
are not billed. Sums are the library's fold; that they are bounded and
additive is proved by taking a smallest subset for which it would fail, as the
library's induction principles cannot be used.

**Egress.** `PolicyInv`: a credential has one owner among all documents that
are or may come into force (`Minted`, `OneOwner`), the two halves of a reload differ
by that reload only, and a request under way met both halves. `EventInv`: a row
of Shrike's table was alerted at the severity its count calls for.

Only model-checked, and why:

- liveness (`RestartsHealed`, `LimitEnforced`, `UploadsReturn`,
  `ReleaseConverges`, `PolicyTakesEffect`, `RelayReturns`): outside this prover's
  reach;
- `RoundTrip`: what a recursive definition computes for every sequence.

## What is not modelled

- Cryptography and encodings: an envelope opens or it does not, a frame opens
  for what it was sealed for; YAML and JSON round trips are taken to be exact.
  TLS and certificates: a caller's identity is what its leaf says.
- The keeper's ledger, budget and audit (any verdict is allowed), replicas of an
  outdated image, a machine with no keyholder deployed.
- Warning levels, projections and attribution in the kernel, and a kernel
  started without enforcement. Ticks fall on whole hours; histograms are
  reduced to their peak and CPU is left out beside memory.
- `ensureIdentity` writes six files one by one and `InstanceMTLSExists` looks for
  `ca.crt` only (`config/instance.go:770-806`): one step in `Lifecycle`. A kill in
  between makes later connects fail at loading; it deploys nothing.
- Shrike's reader drops a connection over a line longer than its limit, and the
  event with it, uncounted (`shrike/wire.go:142`); in `Egress` every line fits.
- A tunnel that ends before its first byte because the hijack or the write of its
  answer failed (`proxy.go:144-157`): it relays nothing.
- Pagination, posture and retention of buckets; regions, quotas, kubeconfigs.
- The ingress router (a static table), traffic statistics, host-name
  normalisation, ports.
- Rendering of Kubernetes objects and of manifests, the manifest parser, the
  armor of exported keys, printing and prompts: pure functions over large
  records, of which a model would be a transliteration.
- The SDKs (stateless clients), AllThing and the Farsight server (stubs).

## State of the work

The safety properties the passing runs check are proved for every size, under the
hypotheses listed; the liveness properties are model-checked. Where more could be
done:

1. `HandOver` with a keeper: `MCHandOverSilent` shows how an unseal that meets
   a silent replica splits the fleet, `MCKeeperOverlap` how a late re-seed does.
   Should the code refuse there, `FleetNeverSplits` could be extended to keepers by joining `KeysKept` to
   `HandOverFits`.
2. Two hazards have no property because the code does not guard against them:
   rekey writes back without a generation precondition (`rekey.go:41`), and
   `Restore` drops the `Last` of an earlier period (`checkpoint.go:188`).
3. The unseal ledger and the keeper's budget, which the model leaves open.
