---------------------------- MODULE JobRepository ----------------------------
(***************************************************************************)
(* crates/service/src/job_repository.rs: the persistent store of           *)
(* deployment jobs shared by the desktop commands, the Agent control plane *)
(* and the Linux installer sessions.                                       *)
(*                                                                         *)
(* Every operation runs under one RwLock: it copies the job list, changes  *)
(* the copy, writes the whole list to jobs.json and only then replaces the *)
(* list in memory, so one operation is one action here.  The write is a    *)
(* plain fs::write, and the action's outcome says what it left: the new    *)
(* manifest, an error with the file untouched or truncated, or the process *)
(* dying in the middle of it.  A truncated manifest does not parse and     *)
(* open has no recovery.                                                   *)
(*                                                                         *)
(* The list is a function from job ids to slots: the only place where the  *)
(* code's order matters is the first match of lease_for_device_if, and     *)
(* OneActiveJobPerDevice leaves at most one match to choose.  Ids and      *)
(* lease ids are UUIDs: spent and issued make every new one fresh.         *)
(* A call the code refuses changes nothing and is no action.               *)
(***************************************************************************)
EXTENDS DeploymentJob

CONSTANTS
  JobId,            \* the ids Uuid::new_v4 will draw
  AgentLease,       \* JOB_LEASE_MINUTES, in clock ticks
  InstallerLease,   \* INSTALLER_LEASE_MINUTES, in clock ticks
  MaxTime,          \* bound: the clock stops here
  MaxLeases,        \* bound: leases issued in a behaviour
  AgentStage,       \* the stages a Windows agent reports
  StorageFaults     \* whether fs::write may fail or be cut short

ASSUME RepositoryAssumption ==
  /\ None \notin JobId
  /\ AgentLease \in Nat /\ InstallerLease \in Nat
  /\ MaxTime \in Nat /\ MaxLeases \in Nat
  /\ AgentStage \subseteq DeploymentStage
  /\ StorageFaults \in BOOLEAN

VARIABLES
  jobs,     \* the list in memory (empty while the process is down)
  disk,     \* what jobs.json holds, when intact
  intact,   \* FALSE when a write was cut short and jobs.json does not parse
  up,       \* whether the process runs
  spent,    \* the job ids drawn so far
  issued,   \* the number of lease ids drawn so far
  now       \* the wall clock

repositoryVars == <<jobs, disk, intact, up, spent, issued, now>>

NoJobs == [j \in JobId |-> NoJob]

\* The lease id and its expiry are two options: they are cleared together.
LeaseIsWhole(job) == job.lease = NoLease => job.expires = 0

\* Types, and no job with half a lease, in memory or in the manifest: every call
\* that ends a lease clears both of its fields.
JobsTypeOK ==
  /\ jobs \in [JobId -> Job] /\ \A j \in JobId : LeaseIsWhole(jobs[j])
  /\ disk \in [JobId -> Job] /\ \A j \in JobId : LeaseIsWhole(disk[j])
  /\ intact \in BOOLEAN
  /\ up \in BOOLEAN
  /\ spent \in SUBSET JobId
  /\ issued \in Nat
  /\ now \in Nat

JobsInit ==
  /\ jobs = NoJobs /\ disk = NoJobs
  /\ intact = TRUE /\ up = TRUE
  /\ spent = {} /\ issued = 0 /\ now = 0

------------------------------------------------------------------------------
(* Persistence. *)

\* persist succeeds and the caller then replaces the list in memory.
Written(next) ==
  /\ jobs' = next /\ disk' = next
  /\ intact' = TRUE /\ up' = TRUE

\* persist returns an error: memory keeps the old list, but fs::write has
\* already truncated the file.  (An error before the truncation changes
\* nothing.)
WriteFailed ==
  /\ StorageFaults
  /\ disk' = NoJobs /\ intact' = FALSE
  /\ UNCHANGED <<jobs, up>>

\* The process dies inside persist: after the last byte or before it.
DiedWriting(next) ==
  /\ StorageFaults
  /\ jobs' = NoJobs /\ up' = FALSE
  /\ \/ disk' = next /\ intact' = TRUE
     \/ disk' = NoJobs /\ intact' = FALSE

\* Slip: memory is replaced before persist, and a refused change stays visible.
CommitMemoryFirst(next) ==
  /\ up
  /\ \/ Written(next)
     \/ StorageFaults /\ jobs' = next /\ UNCHANGED <<disk, intact, up>>
     \/ DiedWriting(next)

Commit(next) ==
  /\ up
  /\ \/ Written(next)
     \/ WriteFailed
     \/ DiedWriting(next)

------------------------------------------------------------------------------
(* Operator calls: create or enqueue, transition, remove. *)

\* Slip: a failed job is taken for a terminal one.
DeviceHasNoUnfinishedJob(d) ==
  \A k \in JobId :
    ~(IsActive(jobs[k]) /\ jobs[k].state # "failed" /\ jobs[k].device = d)

\* The check of insert: no job that is not terminal targets the device.
DeviceIsFree(d) ==
  \A k \in JobId : ~(IsActive(jobs[k]) /\ jobs[k].device = d)

\* insert, for create (state "draft") and enqueue (state "waiting").  The id is
\* drawn before the check and never drawn again.
Insert(j, op, d, i, state) ==
  /\ j \notin spent
  /\ DeviceIsFree(d)
  /\ spent' = spent \cup {j}
  /\ Commit([jobs EXCEPT ![j] =
                [NoJob EXCEPT !.state = state, !.op = op,
                              !.device = d, !.image = i]])
  /\ UNCHANGED <<issued, now>>

\* Slip: only a running Linux job is protected from the operator.
ForbidsOnceRunning(job, next) ==
  /\ IsLinux(job)
  /\ job.state \in {"running", "paused"}
  /\ next # "failed"

\* InstallerControlUnavailable: what an operator may not do to a Linux job.
InstallerForbids(job, next) ==
  /\ IsLinux(job)
  /\ \/ job.state = "waiting" /\ next = "running"
     \/ job.state \in {"running", "paused"} /\ next # "failed"

\* transition.  The stage, the lease id and its expiry stay as they were.
Transition(j, next) ==
  /\ ~InstallerForbids(jobs[j], next)
  /\ CanTransition(jobs[j], next)
  /\ Commit([jobs EXCEPT ![j].state = next])
  /\ UNCHANGED <<spent, issued, now>>

Remove(j) ==
  /\ jobs[j].state \in Removable
  /\ Commit([jobs EXCEPT ![j] = NoJob])
  /\ UNCHANGED <<spent, issued, now>>

------------------------------------------------------------------------------
(* Windows agent calls. *)

Later(a, b) == IF a >= b THEN a ELSE b

LeaseExpired(job) == job.expires < now

\* Slip: the operation is not looked at.
ClaimableByAnyProtocol(job, d) ==
  /\ job.device = d
  /\ \/ job.state = "waiting"
     \/ job.state = "running" /\ job.lease # NoLease /\ LeaseExpired(job)

\* Slip: a paused job whose lease ran out is claimed too.
ClaimableWhilePaused(job, d) ==
  /\ ~IsLinux(job)
  /\ job.device = d
  /\ \/ job.state = "waiting"
     \/ /\ job.state \in {"running", "paused"}
        /\ job.lease # NoLease
        /\ LeaseExpired(job)

\* The jobs lease_for_device_if looks for: waiting, or running with an expired
\* lease.  A running job without a lease is neither.
Claimable(job, d) ==
  /\ ~IsLinux(job)
  /\ job.device = d
  /\ \/ job.state = "waiting"
     \/ job.state = "running" /\ job.lease # NoLease /\ LeaseExpired(job)

\* A job bound to a fresh lease of the given length.
Leased(job, stage, length) ==
  [job EXCEPT !.state = "running", !.stage = stage,
              !.lease = issued + 1, !.expires = now + length]

\* lease_for_device_if, with the caller's predicate choosing among the
\* claimable jobs.
LeaseForDevice(j, d) ==
  /\ issued < MaxLeases
  /\ Claimable(jobs[j], d)
  /\ issued' = issued + 1
  /\ Commit([jobs EXCEPT ![j] = Leased(jobs[j], "Preflight", AgentLease)])
  /\ UNCHANGED <<spent, now>>

\* Slip: the job's state is not looked at.
HoldsLeaseInAnyState(j, d, l) ==
  /\ ~IsLinux(jobs[j])
  /\ jobs[j].device = d
  /\ jobs[j].lease = l
  /\ l # NoLease

\* Slip: whichever lease the job is under will do.
HoldsAnyLease(j, d, l) ==
  /\ ~IsLinux(jobs[j])
  /\ jobs[j].device = d
  /\ jobs[j].state \in {"running", "paused"}
  /\ l # NoLease

\* What every call of a leased agent must show.
HoldsLease(j, d, l) ==
  /\ ~IsLinux(jobs[j])
  /\ jobs[j].device = d
  /\ jobs[j].state \in {"running", "paused"}
  /\ jobs[j].lease = l
  /\ l # NoLease

\* authorized_lease and update_leased_job: the lease is also unexpired.
HoldsLiveLease(j, d, l) == HoldsLease(j, d, l) /\ ~LeaseExpired(jobs[j])

\* report_progress: no order among stages, and the lease is renewed.
ReportProgress(j, d, l, stage) ==
  /\ HoldsLiveLease(j, d, l)
  /\ Commit([jobs EXCEPT ![j].stage = stage,
                         ![j].expires = Later(@, now + AgentLease)])
  /\ UNCHANGED <<spent, issued, now>>

\* Slip: the expiry of the lease is left behind.
FinishedKeepingExpiry(job, succeeded) ==
  [job EXCEPT !.state = IF succeeded THEN "succeeded" ELSE "failed",
              !.lease = NoLease]

\* A job as complete and complete_installer leave it.
Finished(job, succeeded) ==
  [job EXCEPT !.state = IF succeeded THEN "succeeded" ELSE "failed",
              !.lease = NoLease, !.expires = 0]

Complete(j, d, l, succeeded) ==
  /\ HoldsLiveLease(j, d, l)
  /\ Commit([jobs EXCEPT ![j] = Finished(jobs[j], succeeded)])
  /\ UNCHANGED <<spent, issued, now>>

\* Slip: a poll renews a lease only before it expires.
RenewUnexpired(j, d, l) ==
  /\ HoldsLiveLease(j, d, l)
  /\ jobs[j].expires < now + AgentLease \div 2
  /\ Commit([jobs EXCEPT ![j].expires = now + AgentLease])
  /\ UNCHANGED <<spent, issued, now>>

\* renew_control_lease looks at the lease id only: a poll revives a lease that
\* has expired but was not claimed again.  The state it returns is
\* jobs[j].state; with more than half of the lease left nothing is written.
RenewControlLease(j, d, l) ==
  /\ HoldsLease(j, d, l)
  /\ jobs[j].expires < now + AgentLease \div 2
  /\ Commit([jobs EXCEPT ![j].expires = now + AgentLease])
  /\ UNCHANGED <<spent, issued, now>>

------------------------------------------------------------------------------
(* Linux installer calls. *)

\* The check shared by mark_installer_booting and lease_installer_job.
HandoffAvailable(j, d, i) ==
  /\ IsLinux(jobs[j])
  /\ jobs[j].state = "waiting"
  /\ jobs[j].device = d
  /\ jobs[j].image = i

MarkInstallerBooting(j, d, i) ==
  /\ HandoffAvailable(j, d, i)
  /\ Commit([jobs EXCEPT ![j].stage = "BootingInstaller"])
  /\ UNCHANGED <<spent, issued, now>>

LeaseInstallerJob(j, d, i) ==
  /\ issued < MaxLeases
  /\ HandoffAvailable(j, d, i)
  /\ issued' = issued + 1
  /\ Commit([jobs EXCEPT ![j] = Leased(jobs[j], "ValidatingTarget", InstallerLease)])
  /\ UNCHANGED <<spent, now>>

\* Slip: whichever lease the job runs under will do.
HoldsAnyInstallerLease(j, d, l) ==
  /\ IsLinux(jobs[j])
  /\ jobs[j].device = d
  /\ jobs[j].state = "running"
  /\ l # NoLease
  /\ ~LeaseExpired(jobs[j])

\* update_installer_job: running only, never paused.
HoldsInstallerLease(j, d, l) ==
  /\ IsLinux(jobs[j])
  /\ jobs[j].device = d
  /\ jobs[j].state = "running"
  /\ jobs[j].lease = l
  /\ l # NoLease
  /\ ~LeaseExpired(jobs[j])

ReportInstallerProgress(j, d, l, stage) ==
  /\ HoldsInstallerLease(j, d, l)
  /\ StageRank(stage) >= StageRank(jobs[j].stage)
  /\ Commit([jobs EXCEPT ![j].stage = stage,
                         ![j].expires = Later(@, now + InstallerLease)])
  /\ UNCHANGED <<spent, issued, now>>

CompleteInstaller(j, d, l, succeeded) ==
  /\ HoldsInstallerLease(j, d, l)
  /\ Commit([jobs EXCEPT ![j] =
                [Finished(jobs[j], succeeded) EXCEPT
                   !.stage = IF succeeded THEN "Finalizing" ELSE @]])
  /\ UNCHANGED <<spent, issued, now>>

------------------------------------------------------------------------------
(* The environment. *)

Tick ==
  /\ now < MaxTime
  /\ now' = now + 1
  /\ UNCHANGED <<jobs, disk, intact, up, spent, issued>>

\* The desktop process ends between two operations.
Crash ==
  /\ up
  /\ up' = FALSE /\ jobs' = NoJobs
  /\ UNCHANGED <<disk, intact, spent, issued, now>>

\* open: a manifest that does not parse is an error, and the application does
\* not start.
Open ==
  /\ ~up /\ intact
  /\ up' = TRUE /\ jobs' = disk
  /\ UNCHANGED <<disk, intact, spent, issued, now>>
------------------------------------------------------------------------------
(* The repository on its own: any operator call, and agent and installer     *)
(* calls that present any device with any lease ever issued.                 *)

InstallerEventStage ==
  {"Partitioning", "InstallingSystem", "ConfiguringBoot", "Finalizing",
   "AwaitingFirstBoot"}

OperatorCall ==
  \E j \in JobId :
    \/ \E op \in Operation, d \in DeviceId, i \in ImageId,
          state \in {"draft", "waiting"} : Insert(j, op, d, i, state)
    \/ \E next \in JobState : Transition(j, next)
    \/ Remove(j)

AgentCall ==
  \E j \in JobId, d \in DeviceId :
    \/ LeaseForDevice(j, d)
    \/ \E l \in 1..issued :
          \/ \E stage \in AgentStage : ReportProgress(j, d, l, stage)
          \/ \E succeeded \in BOOLEAN : Complete(j, d, l, succeeded)
          \/ RenewControlLease(j, d, l)

InstallerCall ==
  \E j \in JobId, d \in DeviceId :
    \/ \E i \in ImageId : MarkInstallerBooting(j, d, i)
    \/ \E i \in ImageId : LeaseInstallerJob(j, d, i)
    \/ \E l \in 1..issued :
          \/ \E stage \in InstallerEventStage : ReportInstallerProgress(j, d, l, stage)
          \/ \E succeeded \in BOOLEAN : CompleteInstaller(j, d, l, succeeded)

Environment == Tick \/ Crash \/ Open

JobsNext == OperatorCall \/ AgentCall \/ InstallerCall \/ Environment

JobsSpec == JobsInit /\ [][JobsNext]_repositoryVars

------------------------------------------------------------------------------
(* Properties. *)

OneActive(js) ==
  \A j, k \in JobId :
    IsActive(js[j]) /\ IsActive(js[k]) /\ js[j].device = js[k].device => j = k

\* Two jobs that are not terminal never target the same device, in memory or
\* in the manifest a restart would read: insert is the only check, and every
\* later transition, retry of a failed job, claim and restart relies on it.
OneActiveJobPerDevice == OneActive(jobs) /\ OneActive(disk)

\* While the process runs, an intact manifest is the list in memory: persist
\* comes before the assignment to memory, so no acknowledged change can be
\* missing after a restart and no refused one can appear.
MemoryMatchesManifest == up /\ intact => disk = jobs

BoundToLease(job) ==
  IsLinux(job) =>
    /\ job.state # "paused"
    /\ job.state = "running" => job.lease # NoLease

\* A Linux job is never paused, and while it runs it is bound to a lease: the
\* operator cannot start it, pause it or resume it behind the installer, and a
\* restart does not find it otherwise.
InstallerAttemptIsBound ==
  \A j \in JobId : BoundToLease(jobs[j]) /\ BoundToLease(disk[j])

DistinctLeases(js) ==
  \A j, k \in JobId :
    js[j].lease # NoLease /\ js[j].lease = js[k].lease => j = k

\* A lease id belongs to one job, so the lease of one attempt never opens
\* another job.
LeaseBelongsToOneJob == DistinctLeases(jobs) /\ DistinctLeases(disk)

\* A succeeded or cancelled job only ever leaves by being removed: late agent
\* calls, late installer callbacks, retries and claims do not bring it back.
TerminalStaysTerminal ==
  [][\A j \in JobId :
       up /\ up' /\ jobs[j].state \in Terminal
         => jobs'[j] \in {jobs[j], NoJob}]_repositoryVars

\* Once a Linux job runs, it keeps its lease and never moves back a stage until
\* it stops running, and it only stops running as succeeded or failed: the
\* handoff is one way, whoever calls.
InstallerHandoffIsOneWay ==
  [][\A j \in JobId :
       up /\ up' /\ IsLinux(jobs[j]) /\ jobs[j].state = "running" =>
         \/ /\ jobs'[j].state = "running"
            /\ jobs'[j].lease = jobs[j].lease
            /\ StageRank(jobs'[j].stage) >= StageRank(jobs[j].stage)
         \/ jobs'[j].state \in {"succeeded", "failed"}]_repositoryVars

\* An installer attempt that stopped running never runs again under its lease:
\* the operator's retry keeps the old lease id on the job, and only a new guard,
\* with a new lease, starts the job again.
EndedAttemptNeverResumes ==
  [][\A j \in JobId, l \in 1..issued :
       ( /\ up /\ up' /\ IsLinux(jobs[j])
         /\ ~(jobs[j].state = "running" /\ jobs[j].lease = l) )
       => ~(jobs'[j].state = "running" /\ jobs'[j].lease = l)]_repositoryVars

\* A job moves from one lease to another only when the first has expired and
\* the job was still running: no live attempt and no paused one is ever taken
\* over.
LiveLeaseIsNeverTakenOver ==
  [][\A j \in JobId :
       ( /\ up /\ up' /\ jobs[j].state \in {"running", "paused"}
         /\ jobs[j].lease # NoLease
         /\ jobs'[j].lease \notin {jobs[j].lease, NoLease} )
       => jobs[j].state = "running" /\ LeaseExpired(jobs[j])]_repositoryVars
------------------------------------------------------------------------------
(* The promise of DeviceAssignment, kept by what a restart would find. *)

\* The jobs that survive: the list in memory while the process runs, and the
\* manifest while it does not.
Surviving == IF up THEN jobs ELSE disk

JobOf(js, d) ==
  IF \E j \in JobId : IsActive(js[j]) /\ js[j].device = d
  THEN CHOOSE j \in JobId : IsActive(js[j]) /\ js[j].device = d
  ELSE None

Assignment ==
  INSTANCE DeviceAssignment WITH
    Nobody   <- None,
    MayLoseStore <- StorageFaults,
    assigned <- [d \in DeviceId |-> JobOf(Surviving, d)],
    drawn    <- spent

\* The repository implements DeviceAssignment: through every failed write,
\* crash and restart a device keeps its one job until that job is over.
KeepsAssignments == Assignment!AssignmentSpec
==============================================================================
