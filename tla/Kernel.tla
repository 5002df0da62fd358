------------------------------- MODULE Kernel -------------------------------
(***************************************************************************)
(* TechnoCore, the in-cluster kernel (technocore/kernel, cmd/technocore):  *)
(* every tick it meters the running workloads into its ledger, and when    *)
(* the cost limit is reached it scales the applications to zero.  A kernel *)
(* told to adapt also resizes applications to what it has seen them use.   *)
(* It checkpoints the ledger and the profiles now and then, and may crash  *)
(* between any two calls to the cluster.                                   *)
(*                                                                         *)
(* Ticks fall on whole hours; there is one kernel (its Deployment has one  *)
(* replica and is recreated, never rolled); a workload has one pod of one  *)
(* container, rolled at once.  Left out: warnings, advice that is only     *)
(* published, and a kernel told not to enforce.                            *)
(***************************************************************************)
EXTENDS CostLedger, Usage

CONSTANTS Workload,         \* metered workloads
          Rate,             \* what a unit of reservation costs per hour
          FirstSize,        \* what each reserves in its manifest
          Level,            \* what an application may be seen to use
          AdmissionFloor,   \* the least the cluster lets anything reserve
          Cooldown,         \* hours an application is left alone after a resize
          Stoppable,        \* those of the application tier
          System,           \* a system workload, always running
          MayRefuse,        \* workloads whose namespace may refuse a listing
          CheckpointEvery,  \* hours between checkpoints
          MaxPushes,        \* bound: confirmations pushed, by whether it adapts
          MaxFaults         \* bound: crashes, failed ticks and calls, likewise

ASSUME KernelAssumption ==
    /\ Rate \in [Workload -> Nat \ {0}] /\ FirstSize \in [Workload -> Nat \ {0}]
    /\ IsFiniteSet(Workload) /\ IsFiniteSet(Level)
    /\ Level \subseteq Nat \ {0} /\ AdmissionFloor \in Nat /\ Cooldown \in Nat
    /\ Stoppable \subseteq Workload /\ System \in Workload \ Stoppable
    /\ MayRefuse \subseteq Workload /\ CheckpointEvery \in Nat
    /\ MaxPushes \in [BOOLEAN -> Nat] /\ MaxFaults \in [BOOLEAN -> Nat]

VARIABLES now,        \* the hour
          adapting,   \* whether the kernel was told to adapt
          up,         \* whether the kernel's process is running
          pc,         \* where in a tick it is
          ledger,     \* its ledger
          last,       \* when it last accrued
          reached,    \* whether its last report said the limit is reached
          toStop,     \* targets of the shutdown under way
          profile,    \* its profile of each application
          toResize,   \* the resizes under way: application and new reservation
          saved,      \* when it last checkpointed
          checkpoint, \* the checkpoint ConfigMap, {} before the first
          profiles,   \* the profiles ConfigMap
          document,   \* the confirmations ConfigMap, written by the operator
          running,    \* workloads with replicas
          size,       \* what each deployment reserves
          stamp,      \* its adapted-at annotation
          resized,    \* history: when the kernel last resized it
          pushes, faults

usageVars   == <<profile, toResize>>
processVars == <<up, pc, ledger, last, reached, toStop, saved, usageVars>>
clusterVars == <<running, size, stamp, resized>>
vars == <<now, adapting, processVars, checkpoint, profiles, document, clusterVars,
          pushes, faults>>

Time == Hour \union {Never}

Profile == [slots : SUBSET [hour : Hour, peak : Level], request : Nat]

TypeOK ==
    /\ now \in Hour
    /\ up \in BOOLEAN
    /\ adapting \in BOOLEAN
    /\ pc \in {"idle", "act", "adapt", "save", "saveUsage"}
    /\ ledger \in Ledger
    /\ last \in Time /\ saved \in Time
    /\ toStop \subseteq Stoppable
    /\ reached \in BOOLEAN
    /\ checkpoint \subseteq [ledger : Ledger, last : Time, reached : BOOLEAN]
    /\ document \subseteq Confirmation
    /\ running \subseteq Workload
    /\ profile \in [Stoppable -> Profile] /\ profiles \in [Stoppable -> Profile]
    /\ toResize \subseteq [app : Stoppable, to : Nat]
    /\ size \in [Workload -> Nat]
    /\ stamp \in [Stoppable -> Time] /\ resized \in [Stoppable -> Time]

Init ==
    /\ now = 0
    /\ up = FALSE
    /\ pc = "idle"
    /\ ledger = NewLedger(0)
    /\ last = Never /\ saved = Never
    /\ reached = FALSE /\ toStop = {}
    /\ checkpoint = {}
    /\ document = {}
    /\ running = Workload
    /\ adapting \in BOOLEAN
    /\ profile = [w \in Stoppable |-> NoProfile] /\ profiles = profile /\ toResize = {}
    /\ size = FirstSize
    /\ stamp = [w \in Stoppable |-> Never] /\ resized = stamp
    /\ pushes = 0 /\ faults = 0

Fault == faults < MaxFaults[adapting] /\ faults' = faults + 1

\* PodHourlyUSD.
Hourly(w) == Rate[w] * size[w]

HourlyOf(observed) == SumFunction([w \in observed |-> Hourly(w)])

-----------------------------------------------------------------------------
(* One tick *)

\* Roll: a new ledger once the period has ended.  last is not reset, so the
\* new period's accounts begin where it does.
Rolled(l) ==
    IF now < PeriodEnd(l) THEN l
    ELSE [NewLedger(now) EXCEPT !.since = IF last = Never THEN Never ELSE PeriodStart(now)]

\* applyConfirmations, from the document as it stands.
Taken(l) == Confirm(l, document)

\* Mutant: the gap is billed from the last tick, whatever the period.
BilledFrom_Unfloored(l) == last

\* billableInterval: nothing on a first tick, else everything since the last
\* one, floored at the period's start.
BilledFrom(l) == IF last = Never THEN now ELSE IF last < l.start THEN l.start ELSE last

\* The observed workloads, billed for the interval.
Metered(l, observed) ==
    LET m == Accrue(l, BilledFrom(l), now, HourlyOf(observed)) IN
      IF l.since = Never THEN [m EXCEPT !.since = now] ELSE m

\* collectTargets: the deployments with replicas, of the namespaces that list.
Listed(unlisted) == running \ unlisted

\* Mutant: the kernel acts when the limit is crossed, once.
Targets_OnCrossing(over, unlisted) ==
    IF over /\ ~reached THEN Stoppable \intersect Listed(unlisted) ELSE {}

\* What the supervisor stops after a report of being over the limit.
Targets(over, unlisted) ==
    IF over THEN Stoppable \intersect Listed(unlisted) ELSE {}

\* sampleUsage: a reading counts for an application whose pod was metered.
\* Zero stands for none: metrics refused, unreadable, or a repeat.
Readings == [Stoppable -> IF adapting THEN Level \union {0} ELSE {0}]

Sampled(observed, reading) ==
    [w \in Stoppable |-> IF w \in observed /\ reading[w] # 0
       THEN Recorded(profile[w], now, reading[w], size[w]) ELSE profile[w]]

\* Assess, for a growth: the limit is reached, or would be this period.
WouldReach(l, hourly) ==
    LET total == ScaledTotal(l) + hourly * (PeriodEnd(l) - now) * CalibratedFrom(l) IN
      Reached(l) \/ total > Limit * CalibratedFrom(l)

CoolingDown(w) == stamp[w] # Never /\ now - stamp[w] < Cooldown

\* holdReason: resized recently, or a growth the limit has no room for.
Held(l, w, from, to, hourly) ==
    \/ CoolingDown(w)
    \/ to > from /\ WouldReach(l, hourly + Rate[w] * (to - from))

\* Advise, as far as it says to act.
Advise(l, p, observed, unlisted) ==
    IF ~adapting THEN {}
    ELSE {a \in UNION {[app : {w}, to : Recommend(p[w], now)] :
                          w \in (Stoppable \intersect observed) \ unlisted} :
            ~Held(l, a.app, p[a.app].request, a.to, HourlyOf(observed))}

\* Where a tick goes on from the calls it has made.
AfterAct(stopping, resizing) ==
    IF stopping # {} THEN "act" ELSE IF resizing # {} THEN "adapt" ELSE "save"

\* Reconcile, and the decisions to act and to adapt.  unread and unlisted are
\* the workloads whose namespace refused to list its pods, or its deployments.
Reconcile(unread, unlisted, reading) ==
    LET observed == running \ unread IN
    /\ up /\ pc = "idle"
    /\ IF unread \union unlisted = {} THEN UNCHANGED faults ELSE Fault
    /\ \E l \in {Metered(Taken(Rolled(ledger)), observed)} :
         /\ ledger' = l
         /\ reached' = Reached(l)
         /\ profile' = Sampled(observed, reading)
         /\ toResize' = Advise(l, profile', observed, unlisted)
    /\ last' = now
    /\ toStop' = Targets(reached', unlisted)
    /\ pc' = AfterAct(toStop', toResize')
    /\ UNCHANGED <<now, adapting, up, saved, checkpoint, profiles, document, clusterVars, pushes>>

\* A tick that fails, before or after it took in the confirmations; the
\* ledger it rolled to stays.
ReconcileFails(confirmed) ==
    /\ up /\ pc = "idle"
    /\ Fault
    /\ ledger' = IF confirmed THEN Taken(Rolled(ledger)) ELSE Rolled(ledger)
    /\ UNCHANGED <<now, adapting, up, pc, last, reached, toStop, saved, usageVars,
                   checkpoint, profiles, document, clusterVars, pushes>>

\* Shutdown scales its targets to zero, the most expensive first.  One that
\* fails is left for the next tick.
Scale(w, ok) ==
    /\ up /\ pc = "act"
    /\ w \in toStop /\ \A v \in toStop : Hourly(v) <= Hourly(w)
    /\ IF ok THEN UNCHANGED faults ELSE Fault
    /\ running' = IF ok THEN running \ {w} ELSE running
    /\ toStop' = toStop \ {w}
    /\ pc' = AfterAct(toStop', toResize)
    /\ UNCHANGED <<now, adapting, up, ledger, last, reached, saved, usageVars, checkpoint,
                   profiles, document, size, stamp, resized, pushes>>

\* Mutant: a resize the cluster overrode is not stamped.
StampedBy_Kept(a) == IF a.to < AdmissionFloor THEN stamp ELSE [stamp EXCEPT ![a.app] = now]

\* The stamp rides the patch that resizes.
StampedBy(a) == [stamp EXCEPT ![a.app] = now]

\* Adapt: one SetRequests.  The cluster stores no less than its floor; a call
\* may be refused, or land and its answer be lost.
Resize(a, how) ==
    LET lands == how # "refused" IN
    /\ up /\ pc = "adapt"
    /\ a \in toResize
    /\ IF how = "stored" THEN UNCHANGED faults ELSE Fault
    /\ size' = IF lands THEN [size EXCEPT ![a.app] = Max({a.to, AdmissionFloor})] ELSE size
    /\ stamp' = IF lands THEN StampedBy(a) ELSE stamp
    /\ resized' = IF lands THEN [resized EXCEPT ![a.app] = now] ELSE resized
    /\ toResize' = toResize \ {a}
    /\ pc' = AfterAct({}, toResize')
    /\ UNCHANGED <<now, adapting, up, ledger, last, reached, toStop, saved, profile, checkpoint,
                   profiles, document, running, pushes>>

Snapshot == [ledger |-> ledger, last |-> last, reached |-> reached]

\* Mutant: checkpoints carry the ledger alone.
Resumed_Ledger(cp) == Never

Resumed(cp) == cp.last

CheckpointDue == saved = Never \/ now - saved >= CheckpointEvery

\* Once the ledger is saved the profiles follow.
Checkpoint(ok) ==
    /\ up /\ pc = "save"
    /\ pc' = IF CheckpointDue /\ ok /\ adapting THEN "saveUsage" ELSE "idle"
    /\ IF ok THEN UNCHANGED faults ELSE CheckpointDue /\ Fault
    /\ checkpoint' = IF CheckpointDue /\ ok THEN {Snapshot} ELSE checkpoint
    /\ saved' = IF CheckpointDue /\ ok THEN now ELSE saved
    /\ UNCHANGED <<now, adapting, up, ledger, last, reached, toStop, usageVars, profiles,
                   document, clusterVars, pushes>>

\* ConfigMapProfiles.Save replaces the document, or fails.
SaveProfiles(doc, ok) == IF ok THEN doc ELSE profiles

\* SaveUsage forgets what has aged out, and writes the rest.
SaveUsage(ok) ==
    /\ up /\ pc = "saveUsage"
    /\ pc' = "idle"
    /\ IF ok THEN UNCHANGED faults ELSE Fault
    /\ profile' = [w \in Stoppable |-> Remembered(profile[w], now)]
    /\ profiles' = SaveProfiles(profile', ok)
    /\ UNCHANGED <<now, adapting, up, ledger, last, reached, toStop, toResize, saved,
                   checkpoint, document, clusterVars, pushes>>

-----------------------------------------------------------------------------
(* The process *)

Stopped ==
    /\ up' = FALSE
    /\ pc' = "idle" /\ toStop' = {} /\ toResize' = {}
    /\ UNCHANGED <<now, adapting, ledger, last, reached, saved, profile, document,
                   clusterVars, pushes>>

Crash == up /\ Fault /\ Stopped /\ UNCHANGED <<checkpoint, profiles>>

\* SIGTERM between two ticks: a last checkpoint, of the profiles too.
Terminate ==
    /\ up /\ pc = "idle"
    /\ Fault
    /\ checkpoint' = {Snapshot}
    /\ profiles' = [w \in Stoppable |-> Remembered(profile[w], now)]
    /\ Stopped

\* RestoreUsage; a document that cannot be read is discarded.
RestoredProfiles(readable) ==
    IF readable THEN profiles ELSE [w \in Stoppable |-> NoProfile]

\* A new process opens the current period's ledger, or carries on from a
\* checkpoint of the same period.
Start(readable) ==
    LET same == {cp \in checkpoint : cp.ledger.start = PeriodStart(now)} IN
    /\ ~up
    /\ IF readable THEN UNCHANGED faults ELSE adapting /\ Fault
    /\ up' = TRUE
    /\ saved' = Never
    /\ IF same = {}
         THEN ledger' = NewLedger(now) /\ last' = Never /\ reached' = FALSE
         ELSE \E cp \in same : /\ ledger' = Restored(cp.ledger)
                               /\ last' = Resumed(cp)
                               /\ reached' = cp.reached
    /\ profile' = RestoredProfiles(readable)
    /\ UNCHANGED <<now, adapting, pc, toStop, toResize, checkpoint, profiles, document,
                   clusterVars, pushes>>

-----------------------------------------------------------------------------
(* The instance and its operator *)

\* An hour passes, in which a running kernel has ticked unless every tick of
\* it failed.
Pass ==
    /\ pc = "idle"
    /\ now < MaxTime
    /\ now' = now + 1
    /\ IF up /\ last # now THEN Fault ELSE UNCHANGED faults
    /\ UNCHANGED <<adapting, processVars, checkpoint, profiles, document, clusterVars, pushes>>

\* mergeConfirmations drops earlier periods' windows.
Kept(start) == {d \in document : d.to >= start}

\* kernel confirm: a window of the current period that overlaps none kept.
PushConfirmation(c) ==
    LET start == PeriodStart(now) IN
    /\ pushes < MaxPushes[adapting]
    /\ pushes' = pushes + 1
    /\ start <= c.from /\ c.to <= start + PeriodLength
    /\ \A d \in Kept(start) : ~Overlaps(c, d)
    /\ document' = Kept(start) \union {c}
    /\ UNCHANGED <<now, adapting, processVars, checkpoint, profiles, clusterVars, faults>>

\* The operator brings an application back, as its manifest has it; applying
\* a manifest leaves annotations it does not name.
Deploy(w) ==
    /\ w \in Workload \ running
    /\ running' = running \union {w}
    /\ size' = [size EXCEPT ![w] = FirstSize[w]]
    /\ UNCHANGED <<now, adapting, processVars, checkpoint, profiles, document, stamp, resized,
                   pushes, faults>>

Next ==
    \/ \E unread, unlisted \in SUBSET MayRefuse, reading \in Readings :
         Reconcile(unread, unlisted, reading)
    \/ \E confirmed \in BOOLEAN : ReconcileFails(confirmed)
    \/ \E w \in Workload, ok \in BOOLEAN : Scale(w, ok)
    \/ \E a \in toResize, how \in {"stored", "refused", "answer lost"} : Resize(a, how)
    \/ \E ok \in BOOLEAN : Checkpoint(ok) \/ SaveUsage(ok) \/ Start(ok)
    \/ Crash \/ Terminate \/ Pass
    \/ \E c \in Confirmation : PushConfirmation(c)
    \/ \E w \in Workload : Deploy(w)

Spec == Init /\ [][Next]_vars

\* A running kernel ticks, finishes its tick, and is restarted when it stops;
\* the cluster answers it again and again.
KernelFairness ==
    /\ SF_vars(\E reading \in Readings : Reconcile({}, {}, reading))
    /\ WF_vars(\E w \in Workload : Scale(w, TRUE))
    /\ WF_vars(\E a \in toResize : Resize(a, "stored"))
    /\ WF_vars(Checkpoint(TRUE))
    /\ WF_vars(SaveUsage(TRUE))
    /\ WF_vars(Start(TRUE))

FairSpec == Spec /\ KernelFairness

-----------------------------------------------------------------------------
(* Correctness *)

\* The most a kernel that adapts reserves for anything.
MaxSize ==
    Max({ScaleUp(v) : v \in Level} \union {FirstSize[w] : w \in Workload} \union {AdmissionFloor})

\* The most an hour costs.
AllRates ==
    SumFunction([w \in Workload |->
        Rate[w] * IF adapting /\ w \in Stoppable THEN MaxSize ELSE size[w]])

\* No hour is billed twice, and none outside the ledger's period: not after a
\* restart from an old checkpoint, not across a roll.
BilledOnce ==
    \A h \in Hour :
        ledger.hourly[h] <= IF ledger.start <= h /\ h < PeriodEnd(ledger) THEN AllRates ELSE 0

\* From the hour a ledger's accounts begin to the last tick every hour is
\* billed: the hours before a crash, and those the kernel was down.
NoHourLost ==
    ledger.since # Never =>
        \A h \in ledger.since .. last - 1 : ledger.hourly[h] >= Rate[System]

\* A confirmation cannot switch the guard off: whatever was reported, the
\* total enforcement sees is at least half of what was metered.
GuardStaysOn ==
    2 * ScaledTotal(ledger)
      >= ExpectedIn(ledger, ledger.start, PeriodEnd(ledger)) * CalibratedFrom(ledger)

\* Once the limit is reached no application keeps running, even if a first
\* attempt to stop it failed or the kernel crashed half way.
LimitEnforced == (up /\ reached) ~> (running \intersect Stoppable = {} \/ ~reached)

\* An application the kernel resized is left alone for the cooldown, by this
\* process and by the next: the stamp is on the object, so neither a crash,
\* nor a lost answer, nor a redeploy, nor a cluster that stored something
\* else than was asked for makes the kernel roll it again.
CooldownKept ==
    [][ \A a \in toResize : up' /\ a \notin toResize' =>
          resized[a.app] = Never \/ now - resized[a.app] >= Cooldown]_vars
=============================================================================
