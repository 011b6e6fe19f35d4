------------------------- MODULE JobRepositoryProofs -------------------------
(***************************************************************************)
(* Theorems about JobRepository, for any sets of jobs, devices and images, *)
(* any lease lengths, and with or without storage faults.                  *)
(*                                                                         *)
(* The argument.  ListInv says what is true of every job list the code     *)
(* ever holds, in memory or in the manifest.  It is inductive because      *)
(* every operation changes one slot: UpdateKeepsListInv covers the ones    *)
(* that neither create a job nor issue a lease, and Insert and the two     *)
(* lease operations have lemmas of their own.  CommitOutcome then reduces  *)
(* the outcomes of a write to the lists already known to satisfy ListInv.  *)
(***************************************************************************)
EXTENDS JobRepository, TLAPS

\* What holds of a job list when ids are the job ids drawn and n leases have
\* been issued.
ListInv(js, ids, n) ==
  /\ js \in [JobId -> Job]
  /\ OneActive(js)
  /\ DistinctLeases(js)
  /\ \A j \in JobId : /\ Present(js[j]) => j \in ids
                      /\ js[j].lease <= n
                      /\ BoundToLease(js[j])
                      /\ LeaseIsWhole(js[j])

\* The inductive invariant.
RepositoryInv ==
  /\ JobsTypeOK
  /\ ListInv(jobs, spent, issued)
  /\ ListInv(disk, spent, issued)
  /\ MemoryMatchesManifest
  /\ ~up => jobs = NoJobs
  /\ ~intact => StorageFaults /\ disk = NoJobs

\* The empty list satisfies ListInv, whatever was drawn.
LEMMA EmptyListInv ==
  ASSUME NEW ids, NEW n \in Nat
  PROVE  ListInv(NoJobs, ids, n)
  BY DEF ListInv, NoJobs, NoJob, OneActive, DistinctLeases, BoundToLease, LeaseIsWhole, Job,
         JobState, Operation, DeploymentStage, IsActive, IsLinux, Present, Terminal,
         Absent, NoLease, None

\* ListInv survives drawing more ids and issuing more leases.
LEMMA ListInvGrows ==
  ASSUME NEW js, NEW ids, NEW n \in Nat, NEW more, NEW m \in Nat,
         ListInv(js, ids, n), ids \subseteq more, n <= m
  PROVE  ListInv(js, more, m)
  BY DEF ListInv, Job

\* A slot may be updated freely as long as it keeps its device, does not come
\* back to life, takes no other lease and stays bound.
LEMMA UpdateKeepsListInv ==
  ASSUME NEW js, NEW ids, NEW n \in Nat, ListInv(js, ids, n),
         NEW j \in JobId, NEW job \in Job,
         IsActive(job) => IsActive(js[j]) /\ job.device = js[j].device,
         Present(job) => Present(js[j]),
         job.lease \in {NoLease, js[j].lease},
         BoundToLease(job), LeaseIsWhole(job)
  PROVE  ListInv([js EXCEPT ![j] = job], ids, n)
  BY DEF ListInv, OneActive, DistinctLeases, Job, NoLease

\* What a write can leave behind.
LEMMA CommitOutcome ==
  ASSUME NEW next, Commit(next)
  PROVE  /\ up
         /\ jobs' \in {jobs, next, NoJobs}
         /\ disk' \in {next, NoJobs}
         /\ up' /\ intact' => disk' = jobs'
         /\ ~up' => jobs' = NoJobs
         /\ ~intact' => StorageFaults /\ disk' = NoJobs
         /\ intact' \in BOOLEAN /\ up' \in BOOLEAN
  BY DEF Commit, Written, WriteFailed, DiedWriting

------------------------------------------------------------------------------
(* Each operation offers Commit a list that satisfies ListInv. *)

\* A step that commits a good list, and only draws ids and leases, keeps the
\* invariant.
LEMMA CommitKeepsInv ==
  ASSUME RepositoryInv, NEW next, Commit(next),
         spent' \in SUBSET JobId, spent \subseteq spent',
         issued' \in Nat, issued <= issued', now' = now,
         ListInv(next, spent', issued')
  PROVE  RepositoryInv'
<1>1. /\ jobs' \in {jobs, next, NoJobs}
      /\ disk' \in {next, NoJobs}
      /\ up' /\ intact' => disk' = jobs'
      /\ ~up' => jobs' = NoJobs
      /\ ~intact' => StorageFaults /\ disk' = NoJobs
      /\ intact' \in BOOLEAN /\ up' \in BOOLEAN
  BY CommitOutcome
<1>2. issued \in Nat /\ now \in Nat
  BY DEF RepositoryInv, JobsTypeOK
<1>3. ListInv(jobs, spent', issued')
  BY <1>2, ListInvGrows DEF RepositoryInv
<1>4. ListInv(NoJobs, spent', issued')
  BY EmptyListInv
<1>5. ListInv(jobs', spent', issued') /\ ListInv(disk', spent', issued')
  BY <1>1, <1>3, <1>4
<1>6. /\ jobs' \in [JobId -> Job] /\ \A j \in JobId : LeaseIsWhole(jobs'[j])
      /\ disk' \in [JobId -> Job] /\ \A j \in JobId : LeaseIsWhole(disk'[j])
  BY <1>5 DEF ListInv
<1>7. JobsTypeOK'
  BY <1>1, <1>2, <1>6 DEF JobsTypeOK
<1> QED
  BY <1>1, <1>5, <1>7 DEF RepositoryInv, MemoryMatchesManifest

\* The same for a step that draws nothing: one slot is replaced.
LEMMA UpdateStep ==
  ASSUME RepositoryInv, NEW j \in JobId, NEW job \in Job,
         IsActive(job) => IsActive(jobs[j]) /\ job.device = jobs[j].device,
         Present(job) => Present(jobs[j]),
         job.lease \in {NoLease, jobs[j].lease},
         BoundToLease(job), LeaseIsWhole(job),
         Commit([jobs EXCEPT ![j] = job]),
         UNCHANGED <<spent, issued, now>>
  PROVE  RepositoryInv'
<1>1. issued \in Nat /\ spent \in SUBSET JobId
  BY DEF RepositoryInv, JobsTypeOK
<1>2. ListInv([jobs EXCEPT ![j] = job], spent, issued)
  BY <1>1, UpdateKeepsListInv DEF RepositoryInv
<1> QED
  BY <1>1, <1>2, CommitKeepsInv

LEMMA InsertKeepsInv ==
  ASSUME RepositoryInv, NEW j \in JobId, NEW op \in Operation, NEW d \in DeviceId,
         NEW i \in ImageId, NEW state \in {"draft", "waiting"},
         Insert(j, op, d, i, state)
  PROVE  RepositoryInv'
<1> DEFINE job  == [NoJob EXCEPT !.state = state, !.op = op, !.device = d, !.image = i]
           next == [jobs EXCEPT ![j] = job]
<1>1. issued \in Nat /\ spent \in SUBSET JobId /\ ListInv(jobs, spent, issued)
  BY DEF RepositoryInv, JobsTypeOK
<1>2. /\ job \in Job /\ job.device = d /\ job.lease = NoLease
      /\ BoundToLease(job) /\ LeaseIsWhole(job)
  BY DEF NoJob, Job, JobState, DeploymentStage, Operation, BoundToLease, IsLinux,
         LeaseIsWhole, NoLease, Absent
<1>3. /\ next \in [JobId -> Job]
      /\ next[j] = job
      /\ \A k \in JobId \ {j} : next[k] = jobs[k]
  BY <1>1, <1>2 DEF ListInv
<1>4. \A k \in JobId : IsActive(jobs[k]) => jobs[k].device # d
  BY DEF Insert, DeviceIsFree
<1>5. OneActive(next)
  BY <1>1, <1>2, <1>3, <1>4 DEF ListInv, OneActive
<1>6. DistinctLeases(next)
  BY <1>1, <1>2, <1>3 DEF ListInv, DistinctLeases
<1>7. \A k \in JobId : /\ Present(next[k]) => k \in spent \cup {j}
                       /\ next[k].lease <= issued
                       /\ BoundToLease(next[k]) /\ LeaseIsWhole(next[k])
  BY <1>1, <1>2, <1>3 DEF ListInv, NoLease
<1>8. ListInv(next, spent \cup {j}, issued)
  BY <1>3, <1>5, <1>6, <1>7 DEF ListInv
<1> QED
  BY <1>1, <1>8, CommitKeepsInv DEF Insert

\* A claim or a handoff binds an active job to the next lease id.
LEMMA LeaseKeepsInv ==
  ASSUME RepositoryInv, NEW j \in JobId, NEW stage \in DeploymentStage,
         NEW length \in Nat,
         IsActive(jobs[j]),
         issued' = issued + 1,
         Commit([jobs EXCEPT ![j] = Leased(jobs[j], stage, length)]),
         UNCHANGED <<spent, now>>
  PROVE  RepositoryInv'
<1> DEFINE job  == Leased(jobs[j], stage, length)
           next == [jobs EXCEPT ![j] = job]
<1>1. /\ issued \in Nat /\ now \in Nat /\ spent \in SUBSET JobId
      /\ ListInv(jobs, spent, issued)
  BY DEF RepositoryInv, JobsTypeOK
<1>2. /\ job \in Job /\ job.device = jobs[j].device /\ job.lease = issued + 1
      /\ BoundToLease(job) /\ LeaseIsWhole(job) /\ Present(jobs[j])
  <2>1. jobs[j] \in Job /\ issued + 1 \in Nat /\ now + length \in Nat
    BY <1>1 DEF ListInv
  <2>2. /\ job \in Job /\ job.device = jobs[j].device
        /\ job.lease = issued + 1 /\ job.state = "running"
    BY <2>1 DEF Leased, Job, JobState
  <2>3. BoundToLease(job) /\ LeaseIsWhole(job)
    BY <1>1, <2>2 DEF BoundToLease, LeaseIsWhole, NoLease
  <2>4. Present(jobs[j])
    BY DEF IsActive, Present
  <2> QED
    BY <2>2, <2>3, <2>4
<1>3. /\ next \in [JobId -> Job]
      /\ next[j] = job
      /\ \A k \in JobId \ {j} : next[k] = jobs[k]
  BY <1>1, <1>2 DEF ListInv
<1>4. OneActive(next)
  BY <1>1, <1>2, <1>3 DEF ListInv, OneActive
<1>5. DistinctLeases(next)
  <2>1. \A k \in JobId \ {j} : next[k].lease # next[j].lease
    BY <1>1, <1>2, <1>3 DEF ListInv, Job
  <2>2. \A k, m \in JobId \ {j} : 
          next[k].lease # NoLease /\ next[k].lease = next[m].lease => k = m
    BY <1>1, <1>3 DEF ListInv, DistinctLeases
  <2> QED
    BY <2>1, <2>2 DEF DistinctLeases
<1>6. \A k \in JobId : /\ Present(next[k]) => k \in spent
                       /\ next[k].lease <= issued + 1
                       /\ BoundToLease(next[k]) /\ LeaseIsWhole(next[k])
  BY <1>1, <1>2, <1>3 DEF ListInv, Job
<1>7. ListInv(next, spent, issued + 1)
  BY <1>3, <1>4, <1>5, <1>6 DEF ListInv
<1> QED
  BY <1>1, <1>7, CommitKeepsInv
------------------------------------------------------------------------------
(* Every action keeps the invariant. *)

\* The states a transition starts from are not terminal.
LEMMA TransitionFromActive ==
  ASSUME NEW job \in Job, NEW next, CanTransition(job, next)
  PROVE  IsActive(job) /\ Present(job) /\ next \in JobState
  BY DEF CanTransition, Transitions, IsActive, Present, Terminal, Absent, JobState

LEMMA TransitionKeepsInv ==
  ASSUME RepositoryInv, NEW j \in JobId, NEW next, Transition(j, next)
  PROVE  RepositoryInv'
<1> DEFINE job == [jobs[j] EXCEPT !.state = next]
<1>1. /\ jobs \in [JobId -> Job] /\ jobs[j] \in Job
      /\ BoundToLease(jobs[j]) /\ LeaseIsWhole(jobs[j])
  BY DEF RepositoryInv, ListInv
<1>2. IsActive(jobs[j]) /\ Present(jobs[j]) /\ next \in JobState
  BY <1>1, TransitionFromActive DEF Transition
<1>3. /\ job \in Job /\ job.device = jobs[j].device /\ job.lease = jobs[j].lease
      /\ job.op = jobs[j].op /\ job.state = next /\ LeaseIsWhole(job)
  BY <1>1, <1>2 DEF Job, LeaseIsWhole
<1>4. BoundToLease(job)
  <2>1. ASSUME IsLinux(jobs[j])
        PROVE  next # "paused" /\ next # "running"
    BY <1>1, <2>1 DEF Transition, InstallerForbids, CanTransition, Transitions,
                      BoundToLease
  <2> QED
    BY <1>3, <2>1 DEF BoundToLease, IsLinux
<1>5. [jobs EXCEPT ![j].state = next] = [jobs EXCEPT ![j] = job]
  BY <1>1
<1> QED
  BY <1>2, <1>3, <1>4, <1>5, UpdateStep DEF Transition

LEMMA RemoveKeepsInv ==
  ASSUME RepositoryInv, NEW j \in JobId, Remove(j)
  PROVE  RepositoryInv'
<1>1. /\ NoJob \in Job /\ ~IsActive(NoJob) /\ ~Present(NoJob)
      /\ NoJob.lease = NoLease /\ BoundToLease(NoJob) /\ LeaseIsWhole(NoJob)
  BY DEF NoJob, Job, IsActive, Present, BoundToLease, LeaseIsWhole, IsLinux, Operation,
         DeploymentStage, NoLease
<1> QED
  BY <1>1, UpdateStep DEF Remove

LEMMA ClaimKeepsInv ==
  ASSUME RepositoryInv, NEW j \in JobId, NEW d \in DeviceId, LeaseForDevice(j, d)
  PROVE  RepositoryInv'
<1>1. IsActive(jobs[j])
  BY DEF LeaseForDevice, Claimable, IsActive, Terminal, Absent
<1>2. "Preflight" \in DeploymentStage /\ AgentLease \in Nat
  BY RepositoryAssumption DEF DeploymentStage
<1> QED
  BY <1>1, <1>2, LeaseKeepsInv DEF LeaseForDevice

LEMMA HandoffKeepsInv ==
  ASSUME RepositoryInv, NEW j \in JobId, NEW d \in DeviceId, NEW i \in ImageId,
         LeaseInstallerJob(j, d, i)
  PROVE  RepositoryInv'
<1>1. IsActive(jobs[j])
  BY DEF LeaseInstallerJob, HandoffAvailable, IsActive, Terminal, Absent
<1>2. "ValidatingTarget" \in DeploymentStage /\ InstallerLease \in Nat
  BY RepositoryAssumption DEF DeploymentStage
<1> QED
  BY <1>1, <1>2, LeaseKeepsInv DEF LeaseInstallerJob

\* A change of stage and expiry alone touches nothing the invariant is about.
LEMMA TouchKeepsInv ==
  ASSUME RepositoryInv, NEW j \in JobId, NEW stage \in DeploymentStage,
         NEW expires \in Nat,
         jobs[j].lease = NoLease => expires = 0,
         Commit([jobs EXCEPT ![j] =
                   [jobs[j] EXCEPT !.stage = stage, !.expires = expires]]),
         UNCHANGED <<spent, issued, now>>
  PROVE  RepositoryInv'
<1> DEFINE job == [jobs[j] EXCEPT !.stage = stage, !.expires = expires]
<1>1. jobs[j] \in Job /\ BoundToLease(jobs[j])
  BY DEF RepositoryInv, ListInv
<1>2. /\ job \in Job /\ job.device = jobs[j].device /\ job.lease = jobs[j].lease
      /\ job.op = jobs[j].op /\ job.state = jobs[j].state
  BY <1>1 DEF Job
<1>3. BoundToLease(job) /\ (IsActive(job) <=> IsActive(jobs[j]))
                       /\ (Present(job) <=> Present(jobs[j]))
  BY <1>1, <1>2 DEF BoundToLease, IsLinux, IsActive, Present
<1>4. LeaseIsWhole(job)
  BY <1>1, <1>2 DEF Job, LeaseIsWhole
<1> QED
  BY <1>2, <1>3, <1>4, UpdateStep

LEMMA AgentCallKeepsInv ==
  ASSUME RepositoryInv, NEW j \in JobId, NEW d \in DeviceId, NEW l \in 1..issued,
         \/ \E stage \in AgentStage : ReportProgress(j, d, l, stage)
         \/ \E succeeded \in BOOLEAN : Complete(j, d, l, succeeded)
         \/ RenewControlLease(j, d, l)
  PROVE  RepositoryInv'
<1>1. /\ jobs \in [JobId -> Job] /\ jobs[j] \in Job /\ now \in Nat
      /\ AgentLease \in Nat
  BY RepositoryAssumption DEF RepositoryInv, JobsTypeOK
<1>2. ASSUME NEW stage \in AgentStage, ReportProgress(j, d, l, stage)
      PROVE  RepositoryInv'
  <2> DEFINE expires == Later(jobs[j].expires, now + AgentLease)
  <2>1. stage \in DeploymentStage /\ expires \in Nat
    BY <1>1, RepositoryAssumption DEF Later, Job
  <2>2. [jobs EXCEPT ![j].stage = stage, ![j].expires = Later(@, now + AgentLease)]
        = [jobs EXCEPT ![j] = [jobs[j] EXCEPT !.stage = stage, !.expires = expires]]
    BY <1>1 DEF Job
  <2> QED
    BY <1>2, <2>1, <2>2, TouchKeepsInv DEF ReportProgress, HoldsLiveLease, HoldsLease
<1>3. ASSUME NEW succeeded \in BOOLEAN, Complete(j, d, l, succeeded)
      PROVE  RepositoryInv'
  <2> DEFINE job == Finished(jobs[j], succeeded)
  <2>1. /\ job \in Job /\ job.device = jobs[j].device /\ job.lease = NoLease
        /\ job.op = jobs[j].op /\ job.state \in {"succeeded", "failed"}
    BY <1>1 DEF Finished, Job, JobState, NoLease
  <2>2. BoundToLease(job) /\ LeaseIsWhole(job)
    BY <1>1, <2>1 DEF BoundToLease, LeaseIsWhole, Finished, Job
  <2>3. IsActive(jobs[j]) /\ Present(jobs[j])
    BY <1>3 DEF Complete, HoldsLiveLease, HoldsLease, IsActive, Present, Terminal, Absent
  <2> QED
    BY <1>3, <2>1, <2>2, <2>3, UpdateStep DEF Complete
<1>4. ASSUME RenewControlLease(j, d, l)
      PROVE  RepositoryInv'
  <2>1. jobs[j].stage \in DeploymentStage /\ now + AgentLease \in Nat
    BY <1>1 DEF Job
  <2>2. [jobs EXCEPT ![j].expires = now + AgentLease]
        = [jobs EXCEPT ![j] = [jobs[j] EXCEPT !.stage = jobs[j].stage,
                                              !.expires = now + AgentLease]]
    BY <1>1 DEF Job
  <2> QED
    BY <1>4, <2>1, <2>2, TouchKeepsInv DEF RenewControlLease, HoldsLease
<1> QED
  BY <1>2, <1>3, <1>4

LEMMA InstallerCallKeepsInv ==
  ASSUME RepositoryInv, NEW j \in JobId, NEW d \in DeviceId, NEW l \in 1..issued,
         \/ \E stage \in InstallerEventStage : ReportInstallerProgress(j, d, l, stage)
         \/ \E succeeded \in BOOLEAN : CompleteInstaller(j, d, l, succeeded)
  PROVE  RepositoryInv'
<1>1. /\ jobs \in [JobId -> Job] /\ jobs[j] \in Job /\ now \in Nat
      /\ InstallerLease \in Nat
  BY RepositoryAssumption DEF RepositoryInv, JobsTypeOK
<1>2. ASSUME NEW stage \in InstallerEventStage, ReportInstallerProgress(j, d, l, stage)
      PROVE  RepositoryInv'
  <2> DEFINE expires == Later(jobs[j].expires, now + InstallerLease)
  <2>1. stage \in DeploymentStage /\ expires \in Nat
    BY <1>1 DEF Later, Job, InstallerEventStage, DeploymentStage
  <2>2. [jobs EXCEPT ![j].stage = stage, ![j].expires = Later(@, now + InstallerLease)]
        = [jobs EXCEPT ![j] = [jobs[j] EXCEPT !.stage = stage, !.expires = expires]]
    BY <1>1 DEF Job
  <2> QED
    BY <1>2, <2>1, <2>2, TouchKeepsInv DEF ReportInstallerProgress, HoldsInstallerLease
<1>3. ASSUME NEW succeeded \in BOOLEAN, CompleteInstaller(j, d, l, succeeded)
      PROVE  RepositoryInv'
  <2> DEFINE job == [Finished(jobs[j], succeeded) EXCEPT
                       !.stage = IF succeeded THEN "Finalizing" ELSE @]
  <2>1. /\ job \in Job /\ job.device = jobs[j].device /\ job.lease = NoLease
        /\ job.op = jobs[j].op /\ job.state \in {"succeeded", "failed"}
    BY <1>1 DEF Finished, Job, JobState, NoLease, DeploymentStage
  <2>2. BoundToLease(job) /\ LeaseIsWhole(job)
    BY <1>1, <2>1 DEF BoundToLease, LeaseIsWhole, Finished, Job
  <2>3. IsActive(jobs[j]) /\ Present(jobs[j])
    BY <1>3 DEF CompleteInstaller, HoldsInstallerLease, IsActive, Present, Terminal, Absent
  <2> QED
    BY <1>3, <2>1, <2>2, <2>3, UpdateStep DEF CompleteInstaller
<1> QED
  BY <1>2, <1>3

LEMMA BootingKeepsInv ==
  ASSUME RepositoryInv, NEW j \in JobId, NEW d \in DeviceId, NEW i \in ImageId,
         MarkInstallerBooting(j, d, i)
  PROVE  RepositoryInv'
<1> DEFINE stage   == "BootingInstaller"
           expires == jobs[j].expires
<1>1. /\ jobs \in [JobId -> Job] /\ jobs[j] \in Job
      /\ stage \in DeploymentStage
  BY DEF RepositoryInv, JobsTypeOK, DeploymentStage
<1>2. expires \in Nat /\ (jobs[j].lease = NoLease => expires = 0)
  BY <1>1 DEF Job, RepositoryInv, ListInv, LeaseIsWhole
<1>3. [jobs EXCEPT ![j].stage = stage]
      = [jobs EXCEPT ![j] = [jobs[j] EXCEPT !.stage = stage, !.expires = expires]]
  BY <1>1 DEF Job
<1>4. /\ Commit([jobs EXCEPT ![j] =
                   [jobs[j] EXCEPT !.stage = stage, !.expires = expires]])
      /\ UNCHANGED <<spent, issued, now>>
  BY <1>3 DEF MarkInstallerBooting
<1> HIDE DEF stage, expires
<1> QED
  BY <1>1, <1>2, <1>4, TouchKeepsInv

LEMMA EnvironmentKeepsInv ==
  ASSUME RepositoryInv, Environment
  PROVE  RepositoryInv'
<1>1. issued \in Nat /\ ListInv(NoJobs, spent, issued)
  BY EmptyListInv DEF RepositoryInv, JobsTypeOK
<1>2. CASE Tick
  <2>1. now' \in Nat
    BY <1>2 DEF Tick, RepositoryInv, JobsTypeOK
  <2> QED
    BY <1>2, <2>1 DEF Tick, RepositoryInv, JobsTypeOK, MemoryMatchesManifest
<1>3. CASE Crash
  <2>1. NoJobs \in [JobId -> Job] /\ \A j \in JobId : LeaseIsWhole(NoJobs[j])
    BY <1>1 DEF ListInv
  <2> QED
    BY <1>1, <1>3, <2>1 DEF Crash, RepositoryInv, JobsTypeOK, MemoryMatchesManifest
<1>4. CASE Open
  BY <1>4 DEF Open, RepositoryInv, JobsTypeOK, MemoryMatchesManifest
<1> QED
  BY <1>2, <1>3, <1>4 DEF Environment

------------------------------------------------------------------------------
(* The theorems. *)

\* RepositoryInv is inductive: it holds of the empty repository, and every
\* operator, agent and installer call, tick, crash and restart keeps it.
THEOREM RepositoryInvariant == JobsSpec => []RepositoryInv
<1>1. JobsInit => RepositoryInv
  <2> SUFFICES ASSUME JobsInit PROVE RepositoryInv
    OBVIOUS
  <2>1. ListInv(NoJobs, spent, issued) /\ issued = 0
    BY EmptyListInv DEF JobsInit
  <2>2. NoJobs \in [JobId -> Job] /\ \A j \in JobId : LeaseIsWhole(NoJobs[j])
    BY <2>1 DEF ListInv
  <2> QED
    BY <2>1, <2>2 DEF JobsInit, RepositoryInv, JobsTypeOK, MemoryMatchesManifest
<1>2. RepositoryInv /\ [JobsNext]_repositoryVars => RepositoryInv'
  <2> SUFFICES ASSUME RepositoryInv, [JobsNext]_repositoryVars
               PROVE  RepositoryInv'
    OBVIOUS
  <2>1. CASE OperatorCall
    BY <2>1, InsertKeepsInv, TransitionKeepsInv, RemoveKeepsInv DEF OperatorCall
  <2>2. CASE AgentCall
    BY <2>2, ClaimKeepsInv, AgentCallKeepsInv DEF AgentCall
  <2>3. CASE InstallerCall
    BY <2>3, BootingKeepsInv, HandoffKeepsInv, InstallerCallKeepsInv DEF InstallerCall
  <2>4. CASE Environment
    BY <2>4, EnvironmentKeepsInv
  <2>5. CASE UNCHANGED repositoryVars
    BY <2>5 DEF repositoryVars, RepositoryInv, JobsTypeOK, MemoryMatchesManifest
  <2> QED
    BY <2>1, <2>2, <2>3, <2>4, <2>5 DEF JobsNext
<1> QED
  BY <1>1, <1>2, PTL DEF JobsSpec

\* The variables keep their types.
THEOREM TypeCorrect == JobsSpec => []JobsTypeOK
<1>1. RepositoryInv => JobsTypeOK
  BY DEF RepositoryInv
<1> QED
  BY <1>1, RepositoryInvariant, PTL

\* No two jobs that are not terminal target one device, in memory or in the
\* manifest.
THEOREM OneActiveJob == JobsSpec => []OneActiveJobPerDevice
<1>1. RepositoryInv => OneActiveJobPerDevice
  BY DEF RepositoryInv, ListInv, OneActiveJobPerDevice
<1> QED
  BY <1>1, RepositoryInvariant, PTL

\* While the process runs, an intact manifest is the list in memory.
THEOREM ManifestCorrect == JobsSpec => []MemoryMatchesManifest
<1>1. RepositoryInv => MemoryMatchesManifest
  BY DEF RepositoryInv
<1> QED
  BY <1>1, RepositoryInvariant, PTL

\* A Linux job is never paused, and runs only bound to a lease.
THEOREM InstallerBound == JobsSpec => []InstallerAttemptIsBound
<1>1. RepositoryInv => InstallerAttemptIsBound
  BY DEF RepositoryInv, ListInv, InstallerAttemptIsBound
<1> QED
  BY <1>1, RepositoryInvariant, PTL

\* A lease id belongs to one job.
THEOREM LeasesDistinct == JobsSpec => []LeaseBelongsToOneJob
<1>1. RepositoryInv => LeaseBelongsToOneJob
  BY DEF RepositoryInv, ListInv, LeaseBelongsToOneJob
<1> QED
  BY <1>1, RepositoryInvariant, PTL

------------------------------------------------------------------------------
(* The steps: what no call, tick, crash or restart may do to a job.        *)
(*                                                                         *)
(* The argument.  Every call that is not an insertion replaces one slot,   *)
(* and SlotUpdate lists the five ways the code has of replacing one.       *)
(* CallShape goes through the actions once; the action properties and the  *)
(* refinement then only look at those five ways.                           *)

Deleted(old, new) == old.state \in Removable /\ new = NoJob

Moved(old, new) ==
  /\ CanTransition(old, new.state)
  /\ ~InstallerForbids(old, new.state)
  /\ new.op = old.op /\ new.device = old.device
  /\ new.lease = old.lease /\ new.stage = old.stage

Touched(old, new) ==
  /\ IsActive(old)
  /\ new.state = old.state /\ new.op = old.op
  /\ new.device = old.device /\ new.lease = old.lease
  /\ IsLinux(old) /\ old.state = "running"
       => StageRank(new.stage) >= StageRank(old.stage)

Bound(old, new) ==
  /\ IsActive(old)
  /\ new.state = "running" /\ new.op = old.op
  /\ new.device = old.device /\ new.lease = issued + 1
  /\ IsLinux(old) => old.state = "waiting"
  /\ old.state # "waiting" => old.state = "running" /\ LeaseExpired(old)

Ended(old, new) ==
  /\ old.state \in {"running", "paused"}
  /\ new.state \in {"succeeded", "failed"}
  /\ new.op = old.op /\ new.device = old.device /\ new.lease = NoLease

\* The ways a call replaces the slot of a job that exists.
SlotUpdate(old, new) ==
  \/ Deleted(old, new)
  \/ Moved(old, new)
  \/ Touched(old, new)
  \/ Bound(old, new)
  \/ Ended(old, new)

\* A call on a job that exists.
Replaces(j, job) ==
  /\ SlotUpdate(jobs[j], job)
  /\ Commit([jobs EXCEPT ![j] = job])
  /\ spent' = spent

\* An insertion.
Adds(j, job) ==
  /\ j \notin spent
  /\ job.state \in {"draft", "waiting"} /\ job.lease = NoLease
  /\ job.device \in DeviceId /\ DeviceIsFree(job.device)
  /\ Commit([jobs EXCEPT ![j] = job])
  /\ spent' = spent \cup {j}

------------------------------------------------------------------------------
(* Every call has one of the two shapes. *)

LEMMA InsertShape ==
  ASSUME NEW j \in JobId, NEW op \in Operation, NEW d \in DeviceId,
         NEW i \in ImageId, NEW state \in {"draft", "waiting"},
         Insert(j, op, d, i, state)
  PROVE  \E job \in Job : Adds(j, job)
<1> DEFINE job == [NoJob EXCEPT !.state = state, !.op = op, !.device = d, !.image = i]
<1>1. /\ job \in Job /\ job.state = state /\ job.lease = NoLease /\ job.device = d
  BY DEF NoJob, Job, JobState, DeploymentStage, Operation, NoLease, Absent
<1>2. Adds(j, job)
  BY <1>1 DEF Insert, Adds
<1> QED
  BY <1>1, <1>2

LEMMA TransitionShape ==
  ASSUME RepositoryInv, NEW j \in JobId, NEW next, Transition(j, next)
  PROVE  \E job \in Job : Replaces(j, job)
<1> DEFINE job == [jobs[j] EXCEPT !.state = next]
<1>1. jobs \in [JobId -> Job] /\ jobs[j] \in Job
  BY DEF RepositoryInv, ListInv
<1>2. next \in JobState
  BY <1>1, TransitionFromActive DEF Transition
<1>3. /\ job \in Job /\ job.device = jobs[j].device /\ job.lease = jobs[j].lease
      /\ job.op = jobs[j].op /\ job.state = next /\ job.stage = jobs[j].stage
  BY <1>1, <1>2 DEF Job
<1>4. [jobs EXCEPT ![j].state = next] = [jobs EXCEPT ![j] = job]
  BY <1>1
<1>5. Moved(jobs[j], job)
  BY <1>3 DEF Moved, Transition
<1>6. Commit([jobs EXCEPT ![j] = job]) /\ spent' = spent
  BY <1>4 DEF Transition
<1>7. Replaces(j, job)
  BY <1>5, <1>6 DEF Replaces, SlotUpdate
<1> QED
  BY <1>3, <1>7

LEMMA RemoveShape ==
  ASSUME NEW j \in JobId, Remove(j)
  PROVE  \E job \in Job : Replaces(j, job)
<1>1. NoJob \in Job
  BY DEF NoJob, Job, Operation, DeploymentStage, NoLease
<1> QED
  BY <1>1 DEF Remove, Replaces, SlotUpdate, Deleted

\* A change of stage and expiry.
LEMMA TouchShape ==
  ASSUME RepositoryInv, NEW j \in JobId, NEW stage \in DeploymentStage,
         NEW expires \in Nat, IsActive(jobs[j]),
         IsLinux(jobs[j]) /\ jobs[j].state = "running"
           => StageRank(stage) >= StageRank(jobs[j].stage),
         Commit([jobs EXCEPT ![j] =
                   [jobs[j] EXCEPT !.stage = stage, !.expires = expires]]),
         spent' = spent
  PROVE  \E job \in Job : Replaces(j, job)
<1> DEFINE job == [jobs[j] EXCEPT !.stage = stage, !.expires = expires]
<1>1. jobs[j] \in Job
  BY DEF RepositoryInv, ListInv
<1>2. /\ job \in Job /\ job.device = jobs[j].device /\ job.lease = jobs[j].lease
      /\ job.op = jobs[j].op /\ job.state = jobs[j].state /\ job.stage = stage
  BY <1>1 DEF Job
<1>3. Replaces(j, job)
  BY <1>2 DEF Replaces, SlotUpdate, Touched
<1> QED
  BY <1>2, <1>3

\* A claim or a handoff.
LEMMA LeaseShape ==
  ASSUME RepositoryInv, NEW j \in JobId, NEW stage \in DeploymentStage,
         NEW length \in Nat, IsActive(jobs[j]),
         IsLinux(jobs[j]) => jobs[j].state = "waiting",
         jobs[j].state # "waiting"
           => jobs[j].state = "running" /\ LeaseExpired(jobs[j]),
         Commit([jobs EXCEPT ![j] = Leased(jobs[j], stage, length)]),
         spent' = spent
  PROVE  \E job \in Job : Replaces(j, job)
<1> DEFINE job == Leased(jobs[j], stage, length)
<1>1. jobs[j] \in Job /\ issued + 1 \in Nat /\ now + length \in Nat
  BY DEF RepositoryInv, ListInv, JobsTypeOK
<1>2. /\ job \in Job /\ job.device = jobs[j].device /\ job.op = jobs[j].op
      /\ job.lease = issued + 1 /\ job.state = "running"
  BY <1>1 DEF Leased, Job, JobState
<1>3. Replaces(j, job)
  BY <1>2 DEF Replaces, SlotUpdate, Bound
<1> QED
  BY <1>2, <1>3

LEMMA AgentCallShape ==
  ASSUME RepositoryInv, AgentCall
  PROVE  \E j \in JobId, job \in Job : Replaces(j, job)
<1>1. PICK j \in JobId, d \in DeviceId :
        \/ LeaseForDevice(j, d)
        \/ \E l \in 1..issued :
              \/ \E stage \in AgentStage : ReportProgress(j, d, l, stage)
              \/ \E succeeded \in BOOLEAN : Complete(j, d, l, succeeded)
              \/ RenewControlLease(j, d, l)
  BY DEF AgentCall
<1>2. /\ jobs \in [JobId -> Job] /\ jobs[j] \in Job /\ now \in Nat
      /\ AgentLease \in Nat
  BY RepositoryAssumption DEF RepositoryInv, JobsTypeOK
<1>3. ASSUME LeaseForDevice(j, d)
      PROVE  \E job \in Job : Replaces(j, job)
  <2>1. /\ ~IsLinux(jobs[j]) /\ IsActive(jobs[j])
        /\ jobs[j].state # "waiting"
             => jobs[j].state = "running" /\ LeaseExpired(jobs[j])
    BY <1>3 DEF LeaseForDevice, Claimable, IsActive, Terminal, Absent
  <2>2. "Preflight" \in DeploymentStage
    BY DEF DeploymentStage
  <2> QED
    BY <1>2, <1>3, <2>1, <2>2, LeaseShape DEF LeaseForDevice
<1>4. ASSUME NEW l \in 1..issued, HoldsLease(j, d, l)
      PROVE  IsActive(jobs[j]) /\ ~IsLinux(jobs[j])
  BY <1>4 DEF HoldsLease, IsActive, Terminal, Absent
<1>5. ASSUME NEW l \in 1..issued, NEW stage \in AgentStage,
             ReportProgress(j, d, l, stage)
      PROVE  \E job \in Job : Replaces(j, job)
  <2> DEFINE expires == Later(jobs[j].expires, now + AgentLease)
  <2>1. stage \in DeploymentStage /\ expires \in Nat
    BY <1>2, RepositoryAssumption DEF Later, Job
  <2>2. [jobs EXCEPT ![j].stage = stage, ![j].expires = Later(@, now + AgentLease)]
        = [jobs EXCEPT ![j] = [jobs[j] EXCEPT !.stage = stage, !.expires = expires]]
    BY <1>2 DEF Job
  <2>3. IsActive(jobs[j]) /\ ~IsLinux(jobs[j])
    BY <1>4, <1>5 DEF ReportProgress, HoldsLiveLease
  <2>4. /\ Commit([jobs EXCEPT ![j] =
                     [jobs[j] EXCEPT !.stage = stage, !.expires = expires]])
        /\ spent' = spent
    BY <1>5, <2>2 DEF ReportProgress
  <2> HIDE DEF expires
  <2> QED
    BY <2>1, <2>3, <2>4, TouchShape
<1>6. ASSUME NEW l \in 1..issued, NEW succeeded \in BOOLEAN,
             Complete(j, d, l, succeeded)
      PROVE  \E job \in Job : Replaces(j, job)
  <2> DEFINE job == Finished(jobs[j], succeeded)
  <2>1. /\ job \in Job /\ job.device = jobs[j].device /\ job.lease = NoLease
        /\ job.op = jobs[j].op /\ job.state \in {"succeeded", "failed"}
    BY <1>2 DEF Finished, Job, JobState, NoLease
  <2>2. jobs[j].state \in {"running", "paused"}
    BY <1>6 DEF Complete, HoldsLiveLease, HoldsLease
  <2>3. Replaces(j, job)
    BY <1>6, <2>1, <2>2 DEF Complete, Replaces, SlotUpdate, Ended
  <2> QED
    BY <2>1, <2>3
<1>7. ASSUME NEW l \in 1..issued, RenewControlLease(j, d, l)
      PROVE  \E job \in Job : Replaces(j, job)
  <2> DEFINE stage   == jobs[j].stage
             expires == now + AgentLease
  <2>1. stage \in DeploymentStage /\ expires \in Nat
    BY <1>2 DEF Job
  <2>2. [jobs EXCEPT ![j].expires = expires]
        = [jobs EXCEPT ![j] = [jobs[j] EXCEPT !.stage = stage, !.expires = expires]]
    BY <1>2 DEF Job
  <2>3. IsActive(jobs[j]) /\ ~IsLinux(jobs[j])
    BY <1>4, <1>7 DEF RenewControlLease
  <2>4. /\ Commit([jobs EXCEPT ![j] =
                     [jobs[j] EXCEPT !.stage = stage, !.expires = expires]])
        /\ spent' = spent
    BY <1>7, <2>2 DEF RenewControlLease
  <2> HIDE DEF stage, expires
  <2> QED
    BY <2>1, <2>3, <2>4, TouchShape
<1> QED
  BY <1>1, <1>3, <1>5, <1>6, <1>7

\* The ranks of the stages are numbers.
LEMMA StageRankType ==
  ASSUME NEW stage
  PROVE  StageRank(stage) \in Nat
  BY DEF StageRank

LEMMA InstallerCallShape ==
  ASSUME RepositoryInv, InstallerCall
  PROVE  \E j \in JobId, job \in Job : Replaces(j, job)
<1>1. PICK j \in JobId, d \in DeviceId :
        \/ \E i \in ImageId : MarkInstallerBooting(j, d, i)
        \/ \E i \in ImageId : LeaseInstallerJob(j, d, i)
        \/ \E l \in 1..issued :
              \/ \E stage \in InstallerEventStage :
                    ReportInstallerProgress(j, d, l, stage)
              \/ \E succeeded \in BOOLEAN : CompleteInstaller(j, d, l, succeeded)
  BY DEF InstallerCall
<1>2. /\ jobs \in [JobId -> Job] /\ jobs[j] \in Job /\ now \in Nat
      /\ InstallerLease \in Nat
  BY RepositoryAssumption DEF RepositoryInv, JobsTypeOK
<1>3. ASSUME NEW i \in ImageId, HandoffAvailable(j, d, i)
      PROVE  jobs[j].state = "waiting" /\ IsActive(jobs[j])
  BY <1>3 DEF HandoffAvailable, IsActive, Terminal, Absent
<1>4. ASSUME NEW i \in ImageId, MarkInstallerBooting(j, d, i)
      PROVE  \E job \in Job : Replaces(j, job)
  <2> DEFINE stage   == "BootingInstaller"
             expires == jobs[j].expires
  <2>1. stage \in DeploymentStage /\ expires \in Nat
    BY <1>2 DEF DeploymentStage, Job
  <2>2. [jobs EXCEPT ![j].stage = stage]
        = [jobs EXCEPT ![j] = [jobs[j] EXCEPT !.stage = stage, !.expires = expires]]
    BY <1>2 DEF Job
  <2>3. jobs[j].state = "waiting" /\ IsActive(jobs[j])
    BY <1>3, <1>4 DEF MarkInstallerBooting
  <2>4. /\ Commit([jobs EXCEPT ![j] =
                     [jobs[j] EXCEPT !.stage = stage, !.expires = expires]])
        /\ spent' = spent
    BY <1>4, <2>2 DEF MarkInstallerBooting
  <2> HIDE DEF stage, expires
  <2> QED
    BY <2>1, <2>3, <2>4, TouchShape
<1>5. ASSUME NEW i \in ImageId, LeaseInstallerJob(j, d, i)
      PROVE  \E job \in Job : Replaces(j, job)
  <2>1. jobs[j].state = "waiting" /\ IsActive(jobs[j])
    BY <1>3, <1>5 DEF LeaseInstallerJob
  <2>2. "ValidatingTarget" \in DeploymentStage
    BY DEF DeploymentStage
  <2> QED
    BY <1>2, <1>5, <2>1, <2>2, LeaseShape DEF LeaseInstallerJob
<1>6. ASSUME NEW l \in 1..issued, NEW stage \in InstallerEventStage,
             ReportInstallerProgress(j, d, l, stage)
      PROVE  \E job \in Job : Replaces(j, job)
  <2> DEFINE expires == Later(jobs[j].expires, now + InstallerLease)
  <2>1. stage \in DeploymentStage /\ expires \in Nat
    BY <1>2 DEF Later, Job, InstallerEventStage, DeploymentStage
  <2>2. [jobs EXCEPT ![j].stage = stage, ![j].expires = Later(@, now + InstallerLease)]
        = [jobs EXCEPT ![j] = [jobs[j] EXCEPT !.stage = stage, !.expires = expires]]
    BY <1>2 DEF Job
  <2>3. IsActive(jobs[j]) /\ StageRank(stage) >= StageRank(jobs[j].stage)
    BY <1>6 DEF ReportInstallerProgress, HoldsInstallerLease, IsActive, Terminal, Absent
  <2>4. /\ Commit([jobs EXCEPT ![j] =
                     [jobs[j] EXCEPT !.stage = stage, !.expires = expires]])
        /\ spent' = spent
    BY <1>6, <2>2 DEF ReportInstallerProgress
  <2> HIDE DEF expires
  <2> QED
    BY <2>1, <2>3, <2>4, TouchShape
<1>7. ASSUME NEW l \in 1..issued, NEW succeeded \in BOOLEAN,
             CompleteInstaller(j, d, l, succeeded)
      PROVE  \E job \in Job : Replaces(j, job)
  <2> DEFINE job == [Finished(jobs[j], succeeded) EXCEPT
                       !.stage = IF succeeded THEN "Finalizing" ELSE @]
  <2>1. /\ job \in Job /\ job.device = jobs[j].device /\ job.lease = NoLease
        /\ job.op = jobs[j].op /\ job.state \in {"succeeded", "failed"}
    BY <1>2 DEF Finished, Job, JobState, NoLease, DeploymentStage
  <2>2. jobs[j].state \in {"running", "paused"}
    BY <1>7 DEF CompleteInstaller, HoldsInstallerLease
  <2>3. Replaces(j, job)
    BY <1>7, <2>1, <2>2 DEF CompleteInstaller, Replaces, SlotUpdate, Ended
  <2> QED
    BY <2>1, <2>3
<1> QED
  BY <1>1, <1>4, <1>5, <1>6, <1>7

\* Every step is a tick, a crash, a restart, a call on one job, or a stutter.
LEMMA CallShape ==
  ASSUME RepositoryInv, [JobsNext]_repositoryVars
  PROVE  \/ Environment
         \/ UNCHANGED repositoryVars
         \/ \E j \in JobId, job \in Job : Replaces(j, job) \/ Adds(j, job)
<1>1. ASSUME OperatorCall
      PROVE  \E j \in JobId, job \in Job : Replaces(j, job) \/ Adds(j, job)
  BY <1>1, InsertShape, TransitionShape, RemoveShape DEF OperatorCall
<1> QED
  BY <1>1, AgentCallShape, InstallerCallShape DEF JobsNext

------------------------------------------------------------------------------
(* What no step does to a job. *)

\* While the process keeps running, a job's slot changes in one of the ways
\* above or is filled by an insertion under a fresh id.
LEMMA SlotStep ==
  ASSUME RepositoryInv, [JobsNext]_repositoryVars, up, up', NEW k \in JobId
  PROVE  \/ jobs'[k] = jobs[k]
         \/ SlotUpdate(jobs[k], jobs'[k])
         \/ /\ ~Present(jobs[k])
            /\ jobs'[k].state \in {"draft", "waiting"} /\ jobs'[k].lease = NoLease
<1>1. CASE Environment
  BY <1>1 DEF Environment, Tick, Crash, Open
<1>2. CASE UNCHANGED repositoryVars
  BY <1>2 DEF repositoryVars
<1>3. ASSUME NEW j \in JobId, NEW job \in Job, Commit([jobs EXCEPT ![j] = job])
      PROVE  jobs'[k] = jobs[k] \/ (k = j /\ jobs'[k] = job)
  <2> DEFINE next == [jobs EXCEPT ![j] = job]
  <2>1. jobs' = jobs \/ jobs' = next
    BY <1>3 DEF Commit, Written, WriteFailed, DiedWriting
  <2>2. /\ next[j] = job
        /\ k # j => next[k] = jobs[k]
    BY DEF RepositoryInv, JobsTypeOK
  <2> HIDE DEF next
  <2> QED
    BY <2>1, <2>2
<1>4. CASE \E j \in JobId, job \in Job : Replaces(j, job)
  BY <1>3, <1>4 DEF Replaces
<1>5. CASE \E j \in JobId, job \in Job : Adds(j, job)
  <2>1. PICK j \in JobId, job \in Job : Adds(j, job)
    BY <1>5
  <2>2. jobs'[k] = jobs[k] \/ (k = j /\ jobs'[k] = job)
    BY <1>3, <2>1 DEF Adds
  <2>3. ~Present(jobs[j])
    BY <2>1 DEF Adds, RepositoryInv, ListInv
  <2> QED
    BY <2>1, <2>2, <2>3 DEF Adds
<1> QED
  BY <1>1, <1>2, <1>4, <1>5, CallShape

\* A succeeded or cancelled job only ever leaves by being removed.
THEOREM TerminalIsFinal == JobsSpec => TerminalStaysTerminal
<1>1. ASSUME RepositoryInv, [JobsNext]_repositoryVars, up, up',
             NEW j \in JobId, jobs[j].state \in Terminal
      PROVE  jobs'[j] \in {jobs[j], NoJob}
  <2>1. Present(jobs[j]) /\ ~IsActive(jobs[j])
    BY <1>1 DEF Present, IsActive, Terminal, Absent
  <2>2. ASSUME SlotUpdate(jobs[j], jobs'[j])
        PROVE  jobs'[j] = NoJob
    BY <1>1, <2>1, <2>2 DEF SlotUpdate, Deleted, Moved, Touched, Bound, Ended,
         CanTransition, Transitions, Terminal
  <2> QED
    BY <1>1, <2>1, <2>2, SlotStep
<1>2. RepositoryInv /\ [JobsNext]_repositoryVars
      => [\A j \in JobId :
            up /\ up' /\ jobs[j].state \in Terminal
              => jobs'[j] \in {jobs[j], NoJob}]_repositoryVars
  BY <1>1
<1> QED
  BY <1>2, RepositoryInvariant, PTL DEF JobsSpec, TerminalStaysTerminal

\* A running Linux job keeps its lease and never moves back a stage until it
\* succeeds or fails.
THEOREM HandoffIsOneWay == JobsSpec => InstallerHandoffIsOneWay
<1> DEFINE Onward(old, new) ==
      \/ /\ new.state = "running" /\ new.lease = old.lease
         /\ StageRank(new.stage) >= StageRank(old.stage)
      \/ new.state \in {"succeeded", "failed"}
<1>1. ASSUME RepositoryInv, [JobsNext]_repositoryVars, up, up',
             NEW j \in JobId, IsLinux(jobs[j]), jobs[j].state = "running"
      PROVE  Onward(jobs[j], jobs'[j])
  <2>1. CASE jobs'[j] = jobs[j]
    BY <1>1, <2>1, StageRankType
  <2>2. CASE SlotUpdate(jobs[j], jobs'[j])
    BY <1>1, <2>2 DEF SlotUpdate, Deleted, Moved, Touched, Bound, Ended, Removable,
         CanTransition, Transitions, InstallerForbids
  <2>3. Present(jobs[j])
    BY <1>1 DEF Present, Absent
  <2> QED
    BY <1>1, <2>1, <2>2, <2>3, SlotStep
<1>2. RepositoryInv /\ [JobsNext]_repositoryVars
      => [\A j \in JobId :
            up /\ up' /\ IsLinux(jobs[j]) /\ jobs[j].state = "running" =>
              \/ /\ jobs'[j].state = "running"
                 /\ jobs'[j].lease = jobs[j].lease
                 /\ StageRank(jobs'[j].stage) >= StageRank(jobs[j].stage)
              \/ jobs'[j].state \in {"succeeded", "failed"}]_repositoryVars
  BY <1>1
<1> QED
  BY <1>2, RepositoryInvariant, PTL DEF JobsSpec, InstallerHandoffIsOneWay

\* An installer attempt that stopped running never runs again under its lease.
THEOREM AttemptsEnd == JobsSpec => EndedAttemptNeverResumes
<1>1. ASSUME RepositoryInv, [JobsNext]_repositoryVars, up, up',
             NEW j \in JobId, NEW l \in 1..issued, IsLinux(jobs[j]),
             ~(jobs[j].state = "running" /\ jobs[j].lease = l)
      PROVE  ~(jobs'[j].state = "running" /\ jobs'[j].lease = l)
  <2>1. /\ issued \in Nat
        /\ jobs[j].state # "paused"
    BY <1>1 DEF RepositoryInv, JobsTypeOK, ListInv, BoundToLease
  <2>2. CASE SlotUpdate(jobs[j], jobs'[j])
    <3>1. CASE Deleted(jobs[j], jobs'[j])
      BY <3>1 DEF Deleted, NoJob, Absent
    <3>2. CASE Moved(jobs[j], jobs'[j])
      BY <1>1, <2>1, <3>2 DEF Moved, CanTransition, Transitions, InstallerForbids
    <3>3. CASE Touched(jobs[j], jobs'[j])
      BY <1>1, <3>3 DEF Touched
    <3>4. CASE Bound(jobs[j], jobs'[j])
      BY <1>1, <2>1, <3>4 DEF Bound
    <3>5. CASE Ended(jobs[j], jobs'[j])
      BY <3>5 DEF Ended
    <3> QED
      BY <2>2, <3>1, <3>2, <3>3, <3>4, <3>5 DEF SlotUpdate
  <2> QED
    BY <1>1, <2>2, SlotStep
<1>2. RepositoryInv /\ [JobsNext]_repositoryVars
      => [\A j \in JobId, l \in 1..issued :
            ( /\ up /\ up' /\ IsLinux(jobs[j])
              /\ ~(jobs[j].state = "running" /\ jobs[j].lease = l) )
            => ~(jobs'[j].state = "running" /\ jobs'[j].lease = l)]_repositoryVars
  BY <1>1
<1> QED
  BY <1>2, RepositoryInvariant, PTL DEF JobsSpec, EndedAttemptNeverResumes

\* A running or paused job takes another lease only when it was running and its
\* lease had expired.
THEOREM NoTakeover == JobsSpec => LiveLeaseIsNeverTakenOver
<1>1. ASSUME RepositoryInv, [JobsNext]_repositoryVars, up, up',
             NEW j \in JobId, jobs[j].state \in {"running", "paused"},
             jobs'[j].lease \notin {jobs[j].lease, NoLease}
      PROVE  jobs[j].state = "running" /\ LeaseExpired(jobs[j])
  <2>1. SlotUpdate(jobs[j], jobs'[j])
    BY <1>1, SlotStep
  <2>2. ~Deleted(jobs[j], jobs'[j])
    BY <1>1 DEF Deleted, Removable
  <2>3. Bound(jobs[j], jobs'[j])
    BY <1>1, <2>1, <2>2 DEF SlotUpdate, Moved, Touched, Ended
  <2> QED
    BY <1>1, <2>3 DEF Bound
<1>2. RepositoryInv /\ [JobsNext]_repositoryVars
      => [\A j \in JobId :
            ( /\ up /\ up' /\ jobs[j].state \in {"running", "paused"}
              /\ jobs[j].lease # NoLease
              /\ jobs'[j].lease \notin {jobs[j].lease, NoLease} )
            => jobs[j].state = "running" /\ LeaseExpired(jobs[j])]_repositoryVars
  BY <1>1
<1> QED
  BY <1>2, RepositoryInvariant, PTL DEF JobsSpec, LiveLeaseIsNeverTakenOver

------------------------------------------------------------------------------
(* The refinement.  The job repository implements DeviceAssignment: the    *)
(* device of each job that would survive a restart is an assignment,       *)
(* insert assigns or turns down, whatever ends or deletes a job releases   *)
(* its device, and only a write cut short loses the store.                 *)
(*                                                                         *)
(* The argument.  OneActive makes JobOf a function of the list, so an      *)
(* update that leaves a job active maps to a stutter, one that ends it to  *)
(* Release, and an insertion to Assign.  CommitSurvivors says which list   *)
(* survives a write.                                                       *)

\* The refinement mapping: the job each device is to run, by the list js.
Map(js) == [d \in DeviceId |-> JobOf(js, d)]

\* The list next assigns what js does, but for one device it has released.
Releases(js, next) ==
  \E d \in DeviceId :
    /\ JobOf(js, d) \in JobId
    /\ Map(next) = [Map(js) EXCEPT ![d] = None]

\* The one active job of a device is the one JobOf finds.
LEMMA JobOfIsUnique ==
  ASSUME NEW js, OneActive(js), NEW d \in DeviceId, NEW j \in JobId,
         IsActive(js[j]), js[j].device = d
  PROVE  JobOf(js, d) = j
<1>1. \E k \in JobId : IsActive(js[k]) /\ js[k].device = d
  OBVIOUS
<1>2. \A k \in JobId : IsActive(js[k]) /\ js[k].device = d => k = j
  BY DEF OneActive
<1> DEFINE found == CHOOSE k \in JobId : IsActive(js[k]) /\ js[k].device = d
<1>3. found \in JobId /\ IsActive(js[found]) /\ js[found].device = d
  BY <1>1
<1>4. JobOf(js, d) = found
  BY <1>1 DEF JobOf
<1> HIDE DEF found
<1> QED
  BY <1>2, <1>3, <1>4

\* A device without an active job has none by JobOf.
LEMMA JobOfIsNone ==
  ASSUME NEW js, NEW d \in DeviceId,
         \A j \in JobId : ~(IsActive(js[j]) /\ js[j].device = d)
  PROVE  JobOf(js, d) = None
  BY DEF JobOf

\* Lists whose active jobs are the same, on the same devices, map to the same
\* assignment of a device.
LEMMA JobOfAgrees ==
  ASSUME NEW js, NEW next, OneActive(js), OneActive(next), NEW d \in DeviceId,
         \A j \in JobId : IsActive(js[j]) /\ js[j].device = d
                          <=> IsActive(next[j]) /\ next[j].device = d
  PROVE  JobOf(next, d) = JobOf(js, d)
<1>1. CASE \E j \in JobId : IsActive(js[j]) /\ js[j].device = d
  <2>1. PICK j \in JobId : IsActive(js[j]) /\ js[j].device = d
    BY <1>1
  <2>2. JobOf(js, d) = j
    BY <2>1, JobOfIsUnique
  <2>3. JobOf(next, d) = j
    BY <2>1, JobOfIsUnique
  <2> QED
    BY <2>2, <2>3
<1>2. CASE \A j \in JobId : ~(IsActive(js[j]) /\ js[j].device = d)
  BY <1>2, JobOfIsNone
<1> QED
  BY <1>1, <1>2

\* The list that survives a write: the old one, the new one, or none.
LEMMA CommitSurvivors ==
  ASSUME RepositoryInv, NEW next, Commit(next)
  PROVE  /\ Surviving = jobs
         /\ \/ Surviving' \in {jobs, next}
            \/ StorageFaults /\ Surviving' = NoJobs
<1>1. up /\ Surviving = jobs
  BY DEF Commit, Surviving
<1>2. CASE Written(next)
  BY <1>1, <1>2 DEF Written, Surviving
<1>3. CASE WriteFailed
  BY <1>1, <1>3 DEF WriteFailed, Surviving
<1>4. CASE DiedWriting(next)
  BY <1>1, <1>4 DEF DiedWriting, Surviving
<1> QED
  BY <1>1, <1>2, <1>3, <1>4 DEF Commit

------------------------------------------------------------------------------
(* Steps of the mapped list. *)

\* The empty list assigns nothing.
LEMMA NothingAssigned == Map(NoJobs) = [d \in DeviceId |-> None]
<1>1. ASSUME NEW d \in DeviceId
      PROVE  JobOf(NoJobs, d) = None
  <2>1. \A j \in JobId : ~IsActive(NoJobs[j])
    BY DEF NoJobs, NoJob, IsActive, Absent
  <2> QED
    BY <2>1, JobOfIsNone
<1> QED
  BY <1>1 DEF Map

\* An update either changes no assignment or releases the device of its job.
LEMMA UpdateMaps ==
  ASSUME NEW js, NEW j \in JobId, NEW job \in Job,
         js \in [JobId -> Job], OneActive(js),
         IsActive(job) => IsActive(js[j]) /\ job.device = js[j].device
  PROVE  \/ Map([js EXCEPT ![j] = job]) = Map(js)
         \/ Releases(js, [js EXCEPT ![j] = job])
<1> DEFINE next == [js EXCEPT ![j] = job]
<1>1. next[j] = job /\ \A k \in JobId \ {j} : next[k] = js[k]
  OBVIOUS
<1> HIDE DEF next
<1>2. OneActive(next)
  BY <1>1 DEF OneActive
<1>3. CASE IsActive(js[j]) <=> IsActive(job)
  <2>1. ASSUME NEW d \in DeviceId
        PROVE  JobOf(next, d) = JobOf(js, d)
    BY <1>1, <1>2, <1>3, JobOfAgrees
  <2>2. Map(next) = Map(js)
    BY <2>1 DEF Map
  <2> QED
    BY <2>2 DEF next
<1>4. CASE IsActive(js[j]) /\ ~IsActive(job)
  <2>1. ASSUME NEW d \in DeviceId, d # js[j].device
        PROVE  JobOf(next, d) = JobOf(js, d)
    BY <1>1, <1>2, <1>4, <2>1, JobOfAgrees
  <2>2. CASE js[j].device \in DeviceId
    <3> DEFINE e == js[j].device
    <3>1. JobOf(js, e) = j
      BY <1>4, <2>2, JobOfIsUnique
    <3>2. \A k \in JobId : ~(IsActive(next[k]) /\ next[k].device = e)
      BY <1>1, <1>4 DEF OneActive
    <3>3. JobOf(next, e) = None
      BY <2>2, <3>2, JobOfIsNone
    <3>4. Map(next) = [Map(js) EXCEPT ![e] = None]
      BY <2>1, <2>2, <3>3 DEF Map
    <3> QED
      BY <2>2, <3>1, <3>4 DEF next, Releases
  <2>3. CASE js[j].device \notin DeviceId
    <3>1. Map(next) = Map(js)
      BY <2>1, <2>3 DEF Map
    <3> QED
      BY <3>1 DEF next
  <2> QED
    BY <2>2, <2>3
<1> QED
  BY <1>3, <1>4

\* An insertion assigns the device to the new job.
LEMMA InsertMaps ==
  ASSUME NEW js, NEW j \in JobId, NEW job \in Job, NEW e \in DeviceId,
         js \in [JobId -> Job], OneActive(js),
         ~IsActive(js[j]), IsActive(job), job.device = e,
         \A k \in JobId : ~(IsActive(js[k]) /\ js[k].device = e)
  PROVE  /\ JobOf(js, e) = None
         /\ Map([js EXCEPT ![j] = job]) = [Map(js) EXCEPT ![e] = j]
<1> DEFINE next == [js EXCEPT ![j] = job]
<1>1. next[j] = job /\ \A k \in JobId \ {j} : next[k] = js[k]
  OBVIOUS
<1> HIDE DEF next
<1>2. OneActive(next)
  BY <1>1 DEF OneActive
<1>3. JobOf(next, e) = j
  BY <1>1, <1>2, JobOfIsUnique
<1>4. ASSUME NEW d \in DeviceId, d # e
      PROVE  JobOf(next, d) = JobOf(js, d)
  BY <1>1, <1>2, <1>4, JobOfAgrees
<1>5. Map(next) = [Map(js) EXCEPT ![e] = j]
  BY <1>3, <1>4 DEF Map
<1> QED
  BY <1>5, JobOfIsNone DEF next

------------------------------------------------------------------------------
(* Every step of the repository is a step of DeviceAssignment, or none. *)

\* The store was lost, or the list that survives assigns what it did before.
LEMMA SameOrLost ==
  ASSUME spent' = spent,
         \/ Map(Surviving)' = Map(Surviving)
         \/ StorageFaults /\ Surviving' = NoJobs
  PROVE  [Assignment!AssignmentNext]_(Assignment!assignmentVars)
<1>1. CASE Map(Surviving)' = Map(Surviving)
  BY <1>1 DEF Map, Assignment!assignmentVars
<1>2. CASE StorageFaults /\ Surviving' = NoJobs
  <2>1. Map(Surviving)' = [d \in DeviceId |-> None]
    BY <1>2, NothingAssigned DEF Map
  <2>2. Assignment!LoseStore
    BY <1>2, <2>1 DEF Map, Assignment!LoseStore
  <2> QED
    BY <2>2 DEF Assignment!AssignmentNext
<1> QED
  BY <1>1, <1>2

LEMMA ReplaceRefines ==
  ASSUME RepositoryInv, NEW j \in JobId, NEW job \in Job, Replaces(j, job)
  PROVE  [Assignment!AssignmentNext]_(Assignment!assignmentVars)
<1> DEFINE next == [jobs EXCEPT ![j] = job]
<1>1. /\ Surviving = jobs
      /\ \/ Surviving' \in {jobs, next}
         \/ StorageFaults /\ Surviving' = NoJobs
  BY CommitSurvivors DEF Replaces
<1>2. /\ jobs \in [JobId -> Job] /\ OneActive(jobs) /\ jobs[j] \in Job
  BY DEF RepositoryInv, ListInv
<1>3. IsActive(job) => IsActive(jobs[j]) /\ job.device = jobs[j].device
  <2>1. CASE Deleted(jobs[j], job)
    BY <2>1 DEF Deleted, NoJob, IsActive
  <2>2. CASE Moved(jobs[j], job)
    BY <1>2, <2>2, TransitionFromActive DEF Moved
  <2>3. CASE Touched(jobs[j], job) \/ Bound(jobs[j], job)
    BY <2>3 DEF Touched, Bound
  <2>4. CASE Ended(jobs[j], job)
    BY <2>4 DEF Ended, IsActive, Terminal, Absent
  <2> QED
    BY <2>1, <2>2, <2>3, <2>4 DEF Replaces, SlotUpdate
<1>4. spent' = spent
  BY DEF Replaces
<1>5. CASE Surviving' = next
  <2>1. CASE Map(next) = Map(jobs)
    BY <1>1, <1>4, <1>5, <2>1, SameOrLost DEF Map
  <2>2. CASE Releases(jobs, next)
    <3>1. PICK d \in DeviceId : /\ JobOf(jobs, d) \in JobId
                                /\ Map(next) = [Map(jobs) EXCEPT ![d] = None]
      BY <2>2 DEF Releases
    <3>2. JobOf(Surviving, d) # None
      BY <1>1, <3>1, RepositoryAssumption
    <3>3. Map(Surviving)' = [Map(Surviving) EXCEPT ![d] = None]
      BY <1>1, <1>5, <3>1 DEF Map
    <3>4. Assignment!Release(d)
      BY <1>4, <3>2, <3>3 DEF Map, Assignment!Release
    <3> QED
      BY <3>4 DEF Assignment!AssignmentNext
  <2>3. Map(next) = Map(jobs) \/ Releases(jobs, next)
    BY <1>2, <1>3, UpdateMaps
  <2> QED
    BY <2>1, <2>2, <2>3
<1>6. CASE Surviving' = jobs \/ (StorageFaults /\ Surviving' = NoJobs)
  BY <1>1, <1>4, <1>6, SameOrLost DEF Map
<1> QED
  BY <1>1, <1>5, <1>6

LEMMA AddRefines ==
  ASSUME RepositoryInv, NEW j \in JobId, NEW job \in Job, Adds(j, job)
  PROVE  [Assignment!AssignmentNext]_(Assignment!assignmentVars)
<1> DEFINE next == [jobs EXCEPT ![j] = job]
           e    == job.device
<1>1. /\ Surviving = jobs
      /\ \/ Surviving' \in {jobs, next}
         \/ StorageFaults /\ Surviving' = NoJobs
  BY CommitSurvivors DEF Adds
<1>2. /\ jobs \in [JobId -> Job] /\ OneActive(jobs) /\ ~IsActive(jobs[j])
      /\ IsActive(job) /\ e \in DeviceId
      /\ \A k \in JobId : ~(IsActive(jobs[k]) /\ jobs[k].device = e)
  <2>1. jobs \in [JobId -> Job] /\ OneActive(jobs) /\ ~IsActive(jobs[j])
    BY DEF Adds, RepositoryInv, ListInv, IsActive, Present
  <2>2. IsActive(job) /\ e \in DeviceId
    BY DEF Adds, IsActive, Terminal, Absent
  <2> QED
    BY <2>1, <2>2 DEF Adds, DeviceIsFree
<1>3. j \in JobId \ spent /\ spent' = spent \cup {j}
  BY DEF Adds
<1>4. /\ JobOf(jobs, e) = None
      /\ Map(next) = [Map(jobs) EXCEPT ![e] = j]
  BY <1>2, InsertMaps
<1> HIDE DEF next, e
<1>5. CASE Surviving' = next
  <2>1. Map(Surviving)' = [Map(Surviving) EXCEPT ![e] = j]
    BY <1>1, <1>4, <1>5 DEF Map
  <2>2. Assignment!Assign(e, j)
    BY <1>1, <1>2, <1>3, <1>4, <2>1 DEF Map, Assignment!Assign
  <2> QED
    BY <1>2, <2>2 DEF Assignment!AssignmentNext
<1>6. CASE Surviving' = jobs
  <2>1. Assignment!TurnDown(j)
    BY <1>1, <1>3, <1>6 DEF Assignment!TurnDown
  <2> QED
    BY <2>1 DEF Assignment!AssignmentNext
<1>7. CASE StorageFaults /\ Surviving' = NoJobs
  <2>1. Map(Surviving)' = [d \in DeviceId |-> None]
    BY <1>7, NothingAssigned DEF Map
  <2>2. Assignment!LoseStore
    BY <1>3, <1>7, <2>1 DEF Map, Assignment!LoseStore
  <2> QED
    BY <2>2 DEF Assignment!AssignmentNext
<1> QED
  BY <1>1, <1>5, <1>6, <1>7

LEMMA EnvironmentRefines ==
  ASSUME RepositoryInv, Environment
  PROVE  [Assignment!AssignmentNext]_(Assignment!assignmentVars)
<1>1. spent' = spent
  BY DEF Environment, Tick, Crash, Open
<1>2. CASE Tick \/ Open
  <2>1. Surviving' = Surviving
    BY <1>2 DEF Tick, Open, Surviving
  <2> QED
    BY <1>1, <2>1, SameOrLost DEF Map
<1>3. CASE Crash
  <2>1. Surviving = jobs /\ Surviving' = disk
    BY <1>3 DEF Crash, Surviving
  <2>2. disk = jobs \/ (StorageFaults /\ disk = NoJobs)
    BY <1>3 DEF Crash, RepositoryInv, MemoryMatchesManifest
  <2> QED
    BY <1>1, <2>1, <2>2, SameOrLost DEF Map
<1> QED
  BY <1>2, <1>3 DEF Environment

\* The repository implements DeviceAssignment, for every set of jobs, devices
\* and images, and with or without storage faults.
THEOREM RefinesAssignment == JobsSpec => KeepsAssignments
<1>1. JobsInit => Assignment!AssignmentInit
  BY NothingAssigned DEF JobsInit, Surviving, Map, Assignment!AssignmentInit
<1>2. RepositoryInv /\ [JobsNext]_repositoryVars
      => [Assignment!AssignmentNext]_(Assignment!assignmentVars)
  <2> SUFFICES ASSUME RepositoryInv, [JobsNext]_repositoryVars
               PROVE  [Assignment!AssignmentNext]_(Assignment!assignmentVars)
    OBVIOUS
  <2>1. CASE UNCHANGED repositoryVars
    BY <2>1 DEF repositoryVars, Surviving, JobOf, Assignment!assignmentVars
  <2> QED
    BY <2>1, CallShape, EnvironmentRefines, ReplaceRefines, AddRefines
<1> QED
  BY <1>1, <1>2, RepositoryInvariant, PTL
     DEF JobsSpec, KeepsAssignments, Assignment!AssignmentSpec
==============================================================================
