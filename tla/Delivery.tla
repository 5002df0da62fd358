------------------------------ MODULE Delivery ------------------------------
(***************************************************************************)
(* How an application gets into an instance: farcast run and farcast build *)
(* (run.go, runfetch.go, build.go of the CLI), and the Jobs they have the  *)
(* cluster run (planck/fetch, planck/build).  Part of an instance's life,  *)
(* so this module adds its actions to those of Lifecycle.                  *)
(*                                                                         *)
(* One repository with one branch, and one manifest with one application;  *)
(* the manifest has the instance's name, so that run and build use the     *)
(* same build Job.  A manifest is known by the commit it belongs to.  Left *)
(* out: the egress policy (Egress), storage scopes (HandOver), metering,   *)
(* and what a manifest says.                                               *)
(***************************************************************************)
EXTENDS Lifecycle

CONSTANT MaxCommits    \* bound: commits the branch gets

ASSUME DeliveryAssumption == MaxCommits \in Nat \ {0}

VARIABLES branch,      \* the newest commit of the branch
          job,         \* the fetch Job and the build Job
          app          \* the commit that runs, and the one whose manifest was approved

deliveryVars == <<branch, job, app>>
vars == <<lifecycleVars, deliveryVars>>

Branch == 0
NoJob == [state |-> "none", of |-> Branch, out |-> 0]
NoApp == [built |-> 0, approved |-> 0]

Init ==
    /\ LifecycleInit
    /\ branch = 1
    /\ job = [k \in {"fetch", "build"} |-> NoJob]
    /\ app = NoApp

\* The command ends, with what it printed.
Stop == cmd' = Idle

-----------------------------------------------------------------------------
(* The commands *)

\* resolveToolchainImage: digests named by the operator, or those on record.
Tools(flag) == flag = "image" \/ local.record.tools # {}

Run(flag) ==
    /\ Used("run") /\ ~leaving /\ local.record.registry /\ Tools(flag)
    /\ Begin("run", 1, flag)
    /\ UNCHANGED deliveryVars

Build(flag) ==
    /\ Used("build") /\ ~leaving /\ local.record.registry /\ Tools(flag)
    /\ Begin("build", 1, flag)
    /\ UNCHANGED deliveryVars

\* kubectl apply of a Job: created, or left as it is.  What a Job runs cannot
\* be changed, so one of the same name that runs something else is refused.
ApplyJob(k, of) ==
    /\ Reaches
    /\ IF job[k].state = "none"
         THEN job' = [job EXCEPT ![k] = [state |-> "running", of |-> of, out |-> 0]] /\ Proceed(cmd.meta)
         ELSE UNCHANGED job /\ IF job[k].of = of THEN Proceed(cmd.meta) ELSE Stop
    /\ UNCHANGED <<scene, local, cloud, roots, leaving, faults, branch, app>>

\* WaitJob returns when the Job has ended, and fails if it is not there.
JobOver(k) == job[k].state # "running"
Succeeded(k) == job[k].state = "succeeded"

\* readManifest asks the cluster to read the branch.
Fetch == At("fetch") /\ ApplyJob("fetch", Branch)

\* Report.Verify: the log has the manifest of the commit that was reported.
Verified(log, report) == log = report

\* The manifest comes through the log, which may have lost some of it.
Truncated == 0

Read ==
    /\ At("read") /\ JobOver("fetch")
    /\ \E log \in {job["fetch"].out, Truncated} :
         /\ IF log = Truncated THEN Fault ELSE UNCHANGED faults
         /\ IF Succeeded("fetch") /\ Verified(log, job["fetch"].out)
              THEN cmd' = [cmd EXCEPT !.commit = job["fetch"].out, !.shown = log, !.step = @ + 1]
              ELSE Stop
    /\ UNCHANGED <<scene, local, cloud, roots, leaving, deliveryVars>>

\* The operator sees what the manifest declares, and decides.
Confirm ==
    /\ At("approve")
    /\ Proceed(cmd.meta) \/ Stop
    /\ UNCHANGED <<scene, local, cloud, roots, leaving, faults, deliveryVars>>

\* Mutant: the branch is built.
BuildRef_Branch == Branch

\* "The commit, never the branch"; farcast build builds what it was told to.
BuildRef == IF cmd.kind = "run" THEN cmd.commit ELSE Branch

StartBuild == At("start") /\ ApplyJob("build", BuildRef)

\* buildAll: the digest the Job reports pins the image.
AwaitBuild ==
    /\ At("await") /\ cmd.kind = "run" /\ JobOver("build")
    /\ IF Succeeded("build") THEN cmd' = [cmd EXCEPT !.built = job["build"].out, !.step = @ + 1] ELSE Stop
    /\ UNCHANGED <<scene, local, cloud, roots, leaving, faults, deliveryVars>>

\* farcast build prints it, or what went wrong.
ReportBuild ==
    /\ At("await") /\ cmd.kind = "build" /\ JobOver("build")
    /\ Stop
    /\ UNCHANGED <<scene, local, cloud, roots, leaving, faults, deliveryVars>>

\* translate and Apply.
Launch ==
    /\ At("launch") /\ Reaches
    /\ app' = [built |-> cmd.built, approved |-> cmd.shown]
    /\ Proceed(cmd.meta)
    /\ UNCHANGED <<scene, local, cloud, roots, leaving, faults, branch, job>>

-----------------------------------------------------------------------------
(* The cluster and the repository *)

\* The fetch reads the branch as it is by then, a build of a commit that.
JobEnds(k) ==
    /\ job[k].state = "running" /\ cluster = "running"
    /\ \/ job' = [job EXCEPT ![k].state = "succeeded",
                             ![k].out = IF job[k].of = Branch THEN branch ELSE job[k].of]
       \/ job' = [job EXCEPT ![k].state = "failed"]
    /\ UNCHANGED <<lifecycleVars, branch, app>>

\* A finished Job's time to live is over.
JobExpires(k) ==
    /\ job[k].state \in {"succeeded", "failed"}
    /\ job' = [job EXCEPT ![k] = NoJob]
    /\ UNCHANGED <<lifecycleVars, branch, app>>

Commit ==
    /\ Used("run") /\ branch < MaxCommits /\ branch' = branch + 1
    /\ UNCHANGED <<lifecycleVars, job, app>>

-----------------------------------------------------------------------------
\* What ran in the cluster goes with it.
Hosted ==
    /\ UNCHANGED branch
    /\ IF cluster' = "none" THEN job' = [k \in DOMAIN job |-> NoJob] /\ app' = NoApp
       ELSE UNCHANGED <<job, app>>

DeliveryNext ==
    \/ \E flag \in {"none", "image"} : Run(flag) \/ Build(flag)
    \/ Fetch \/ Read \/ Confirm \/ StartBuild \/ AwaitBuild \/ ReportBuild \/ Launch
    \/ \E k \in DOMAIN job : JobEnds(k) \/ JobExpires(k)
    \/ Commit

Next == (LifecycleNext /\ Hosted) \/ DeliveryNext

Spec == Init /\ [][Next]_vars

\* A command that runs goes on, the cloud does what it accepted, and an
\* operator who is leaving interrupts whatever else runs and tries again.
Fairness ==
    /\ WF_vars(ReleaseStep /\ Hosted)
    /\ WF_vars(ClusterMoves /\ Hosted)
    /\ WF_vars(leaving /\ (Release("wipe") \/ Interrupt) /\ Hosted)

FairSpec == Spec /\ Fairness

-----------------------------------------------------------------------------
\* "The tree that was approved [is] the tree that is built": the application
\* runs the commit whose manifest the operator approved, although the branch
\* moves and Jobs of earlier commands are still there.
ApprovedOnly == app.built = app.approved
=============================================================================
