------------------------ MODULE DeploymentClaimsProofs ------------------------
(***************************************************************************)
(* Theorems about DeploymentClaims, for any sets of jobs, devices, images, *)
(* commands and claims, and with or without storage faults; and about      *)
(* AgentPresence, for any machines, adapters and number of late calls.     *)
(*                                                                         *)
(* The argument.  Every step of the host is a step of the job repository   *)
(* or leaves it alone, so what JobRepositoryProofs shows of the repository *)
(* holds inside the host.  Names(j, i) says that job j has image i in      *)
(* memory or in the manifest: only Enqueue makes it true, only a restart   *)
(* moves it from one list to the other, and the holder of the mutation     *)
(* lock is either the one command that is about to enqueue an image it has *)
(* found or the one that is about to remove an image nobody names.         *)
(*                                                                         *)
(* Both use the list of machines. A heartbeat changes a record only under  *)
(* the token on it, and register puts a new record in place of the one the *)
(* device had, so the list has one record per device, each with what the   *)
(* holder of its token reported.                                           *)
(***************************************************************************)
EXTENDS DeploymentClaims, AgentPresence, JobRepositoryProofs, SequenceTheorems

Names(j, i) ==
  \/ Present(jobs[j]) /\ jobs[j].image = i
  \/ Present(disk[j]) /\ disk[j].image = i

Holds(c) == commands[c].at \in {"preparing", "enqueuing", "removingImage"}

\* Commands are well typed, and one that creates a job has all of its arguments.
CommandsOK ==
  /\ commands \in [Command -> CommandRecord]
  /\ \A c \in Command :
       commands[c].at \in {"preparing", "enqueuing"} =>
         commands[c].device \in DeviceId /\ commands[c].image \in ImageId

\* A claim in progress names a device, and candidates are jobs.
ClaimOK(r) ==
  /\ r \in [at : {"idle", "listing", "validating", "leasing"},
            device : DeviceId \cup {None}, disks : {r.disks}, candidates : SUBSET JobId]
  /\ r.at # "idle" => r.device \in DeviceId

ClaimsOK ==
  /\ claims = [q \in Claim |-> claims[q]]
  /\ \A q \in Claim : ClaimOK(claims[q])

\* The inductive invariant of the commands, beside that of the repository.
ClaimsInv ==
  /\ CommandsOK
  /\ \A c, d \in Command : Holds(c) /\ Holds(d) => c = d
  /\ ~up => commands = [c \in Command |-> NoCommand]
  /\ \A j \in JobId, i \in ImageId \cup {None} : Names(j, i) => i \in library
  /\ \A c \in Command :
       commands[c].at = "enqueuing" => commands[c].image \in library
  /\ \A c \in Command : commands[c].at = "removingImage" =>
       \A j \in JobId : ~Names(j, commands[c].image)

------------------------------------------------------------------------------
(* The host runs the repository. *)

LEMMA NoCommandType == NoCommand \in CommandRecord /\ NoCommand.at = "idle"
  BY DEF NoCommand, CommandRecord, Operation

\* Every step of the host keeps the commands well typed.
LEMMA CommandsKeepType ==
  ASSUME CommandsOK, [ClaimsNext]_claimVars
  PROVE  CommandsOK'
<1>1. ASSUME NEW c \in Command, NEW r \in CommandRecord,
             r.at \in {"preparing", "enqueuing"} =>
               r.device \in DeviceId /\ r.image \in ImageId,
             commands' = [commands EXCEPT ![c] = r]
      PROVE  CommandsOK'
  BY <1>1 DEF CommandsOK
<1>2. ASSUME commands' = [c \in Command |-> NoCommand]
      PROVE  CommandsOK'
  BY <1>2, NoCommandType DEF CommandsOK
<1>3. ASSUME commands' = commands
      PROVE  CommandsOK'
  BY <1>3 DEF CommandsOK
<1>4. ASSUME NEW c \in Command, commands' = [commands EXCEPT ![c] = NoCommand]
      PROVE  CommandsOK'
  BY <1>1, <1>4, NoCommandType
<1>5. ASSUME ThenCommands(commands) PROVE CommandsOK'
  BY <1>2, <1>3, <1>5 DEF ThenCommands
<1>6. ASSUME NEW c \in Command, CommandStep(c) PROVE CommandsOK'
  <2>1. ASSUME NEW op \in Operation, NEW id \in DeviceId, NEW i \in ImageId,
               NEW wanted \in Disk, CreateJob(c, op, id, i, wanted)
        PROVE  CommandsOK'
    <3> DEFINE r == [at |-> "preparing", op |-> op, device |-> id, image |-> i,
                     disk |-> wanted]
    <3>1. r \in CommandRecord /\ r.device \in DeviceId /\ r.image \in ImageId
      BY DEF CommandRecord
    <3>2. commands' = [commands EXCEPT ![c] = r]
      BY <2>1 DEF CreateJob
    <3> HIDE DEF r
    <3> QED
      BY <1>1, <3>1, <3>2
  <2>2. ASSUME PrepareImage(c) PROVE CommandsOK'
    <3> DEFINE r == [commands[c] EXCEPT !.at = "enqueuing"]
    <3>1. CASE Done(c)
      BY <1>4, <3>1 DEF Done
    <3>2. CASE commands' = [commands EXCEPT ![c].at = "enqueuing"]
      <4>1. /\ r \in CommandRecord /\ r.device \in DeviceId /\ r.image \in ImageId
            /\ commands' = [commands EXCEPT ![c] = r]
        BY <2>2, <3>2 DEF CommandsOK, CommandRecord, PrepareImage, CommandAt
      <4> HIDE DEF r
      <4> QED
        BY <1>1, <4>1
    <3> QED
      BY <2>2, <3>1, <3>2 DEF PrepareImage
  <2>3. ASSUME Enqueue(c) PROVE CommandsOK'
    BY <1>2, <1>4, <2>3 DEF Enqueue, ThenCommands, Done
  <2>4. ASSUME NEW i \in ImageId, RemoveImage(c, i) PROVE CommandsOK'
    <3> DEFINE r == [NoCommand EXCEPT !.at = "removingImage", !.image = i]
    <3>1. r \in CommandRecord /\ r.at = "removingImage"
      BY DEF NoCommand, CommandRecord, Operation
    <3>2. commands' = [commands EXCEPT ![c] = r]
      BY <2>4 DEF RemoveImage
    <3> HIDE DEF r
    <3> QED
      BY <1>1, <3>1, <3>2
  <2>5. ASSUME ImageRemoved(c) PROVE CommandsOK'
    BY <1>4, <2>5 DEF ImageRemoved, Done
  <2>6. ASSUME NEW id \in DeviceId, CheckDevice(c, id) PROVE CommandsOK'
    <3> DEFINE r == [NoCommand EXCEPT !.at = "removingDevice", !.device = id]
    <3>1. r \in CommandRecord /\ r.at = "removingDevice"
      BY DEF NoCommand, CommandRecord, Operation
    <3>2. commands' = [commands EXCEPT ![c] = r]
      BY <2>6 DEF CheckDevice
    <3> HIDE DEF r
    <3> QED
      BY <1>1, <3>1, <3>2
  <2>7. ASSUME DeviceRemoved(c) PROVE CommandsOK'
    BY <1>4, <2>7 DEF DeviceRemoved, Done
  <2> QED
    BY <1>6, <2>1, <2>2, <2>3, <2>4, <2>5, <2>6, <2>7 DEF CommandStep
<1>7. ASSUME NEW q \in Claim, ClaimStep(q) PROVE CommandsOK'
  BY <1>3, <1>5, <1>7 DEF ClaimStep, BeginClaim, ListCandidates, ValidateImages,
                          LeaseJob, LeaseNothing
<1>8. CASE OperateJob \/ LeasedCall \/ Surroundings
  BY <1>5, <1>8 DEF OperateJob, LeasedCall, Surroundings
<1>9. CASE Report \/ \E i \in ImageId : Import(i)
  BY <1>3, <1>9 DEF Report, Import
<1>10. CASE UNCHANGED claimVars
  BY <1>3, <1>10 DEF claimVars, hostVars
<1> QED
  BY <1>6, <1>7, <1>8, <1>9, <1>10 DEF ClaimsNext

\* Every step of the host keeps the claims well typed.
LEMMA ClaimsKeepType ==
  ASSUME ClaimsOK, [ClaimsNext]_claimVars
  PROVE  ClaimsOK'
<1>1. ASSUME NEW q \in Claim, NEW r, ClaimOK(r), claims' = [claims EXCEPT ![q] = r]
      PROVE  ClaimsOK'
  <2>1. claims' = [p \in Claim |-> IF p = q THEN r ELSE claims[p]]
    BY <1>1 DEF ClaimsOK
  <2> QED
    BY <1>1, <2>1 DEF ClaimsOK
<1>2. ClaimOK(NoClaim)
  BY DEF ClaimOK, NoClaim
<1>3. ASSUME claims' = [q \in Claim |-> NoClaim]
      PROVE  ClaimsOK'
  BY <1>2, <1>3 DEF ClaimsOK
<1>4. ASSUME claims' = claims
      PROVE  ClaimsOK'
  BY <1>4 DEF ClaimsOK
<1>5. ASSUME ThenClaims(claims) PROVE ClaimsOK'
  BY <1>3, <1>4, <1>5 DEF ThenClaims
<1>6. ASSUME NEW c \in Command, CommandStep(c) PROVE ClaimsOK'
  BY <1>4, <1>5, <1>6 DEF CommandStep, CreateJob, PrepareImage, Enqueue, RemoveImage,
                          ImageRemoved, CheckDevice, DeviceRemoved
<1>7. ASSUME NEW q \in Claim, ClaimStep(q) PROVE ClaimsOK'
  <2>1. ASSUME NEW id \in DeviceId, BeginClaim(q, id) PROVE ClaimsOK'
    <3> DEFINE shots == [at : {"idle", "listing"}, device : DeviceId \cup {None},
                         disks : {{}, RecordOf(id).disks}, candidates : {{}}]
               r == [NoClaim EXCEPT !.at = "listing", !.device = id,
                                    !.disks = RecordOf(id).disks]
    <3>1. NoClaim \in shots
      BY DEF NoClaim
    <3>2. r \in shots /\ r.at = "listing" /\ r.device = id /\ r.candidates = {}
      BY <3>1
    <3>3. r \in [at : {"idle", "listing", "validating", "leasing"},
                device : DeviceId \cup {None}, disks : {r.disks},
                candidates : SUBSET JobId]
      BY <3>2
    <3>4. ClaimOK(r)
      BY <3>2, <3>3 DEF ClaimOK
    <3>5. claims' = [claims EXCEPT ![q] = r]
      BY <2>1 DEF BeginClaim
    <3> HIDE DEF r
    <3> QED
      BY <1>1, <3>4, <3>5
  <2>2. ASSUME NEW place \in {"validating", "leasing"}, NEW next \in SUBSET JobId, ~ClaimAt(q, "idle"),
               claims' = [claims EXCEPT ![q].at = place, ![q].candidates = next]
        PROVE  ClaimsOK'
    <3> DEFINE r == [claims[q] EXCEPT !.at = place, !.candidates = next]
    <3>1. claims' = [claims EXCEPT ![q] = r]
      BY <2>2 DEF ClaimsOK
    <3>2. ClaimOK(claims[q]) /\ claims[q].at # "idle"
      BY <2>2 DEF ClaimsOK, ClaimAt
    <3>3. r.disks = claims[q].disks
      BY <3>2 DEF ClaimOK
    <3>4. ClaimOK(r)
      BY <3>2, <3>3 DEF ClaimOK
    <3> HIDE DEF r
    <3> QED
      BY <1>1, <3>1, <3>4
  <2>3. ASSUME ListCandidates(q) PROVE ClaimsOK'
    <3>1. Candidates(q) \in SUBSET JobId
      BY DEF Candidates
    <3> QED
      BY <2>2, <2>3, <3>1 DEF ListCandidates, ClaimAt
  <2>4. ASSUME NEW eligible \in SUBSET claims[q].candidates, ValidateImages(q, eligible)
        PROVE  ClaimsOK'
    <3>1. eligible \in SUBSET JobId
      BY <2>4 DEF ClaimsOK, ClaimOK
    <3> QED
      BY <2>2, <2>4, <3>1 DEF ValidateImages, ClaimAt
  <2>5. ASSUME claims' = [claims EXCEPT ![q] = NoClaim] PROVE ClaimsOK'
    BY <1>1, <1>2, <2>5
  <2>6. ASSUME LeaseJob(q) PROVE ClaimsOK'
    BY <1>3, <2>5, <2>6 DEF LeaseJob, ThenClaims
  <2>7. ASSUME LeaseNothing(q) PROVE ClaimsOK'
    BY <2>5, <2>7 DEF LeaseNothing, Answered
  <2> QED
    BY <1>7, <2>1, <2>3, <2>4, <2>6, <2>7 DEF ClaimStep
<1>8. CASE OperateJob \/ LeasedCall \/ Surroundings
  BY <1>5, <1>8 DEF OperateJob, LeasedCall, Surroundings
<1>9. CASE Report \/ \E i \in ImageId : Import(i)
  BY <1>4, <1>9 DEF Report, Import
<1>10. CASE UNCHANGED claimVars
  BY <1>4, <1>10 DEF claimVars, hostVars
<1> QED
  BY <1>6, <1>7, <1>8, <1>9, <1>10 DEF ClaimsNext

\* Every step of the host is a step of the repository or leaves it alone.
LEMMA HostStep ==
  ASSUME CommandsOK, ClaimsOK, [ClaimsNext]_claimVars
  PROVE  [JobsNext]_repositoryVars
<1>1. ASSUME NEW c \in Command, CommandStep(c) PROVE [JobsNext]_repositoryVars
  <2>1. ASSUME Enqueue(c) PROVE [JobsNext]_repositoryVars
    <3>1. /\ commands[c].op \in Operation /\ commands[c].device \in DeviceId
          /\ commands[c].image \in ImageId
      BY <2>1 DEF CommandsOK, CommandRecord, Enqueue, CommandAt
    <3>2. CASE \E j \in JobId : Insert(j, commands[c].op, commands[c].device,
                                       commands[c].image, "waiting")
      BY <3>1, <3>2 DEF JobsNext, OperatorCall
    <3> QED
      BY <2>1, <3>2 DEF Enqueue
  <2>2. ASSUME ~Enqueue(c) PROVE UNCHANGED repositoryVars
    BY <1>1, <2>2 DEF CommandStep, CreateJob, PrepareImage, RemoveImage, ImageRemoved,
                      CheckDevice, DeviceRemoved
  <2> QED
    BY <2>1, <2>2
<1>2. ASSUME NEW q \in Claim, ClaimStep(q) PROVE [JobsNext]_repositoryVars
  <2>1. ASSUME LeaseJob(q) PROVE [JobsNext]_repositoryVars
    <3>1. PICK j \in JobId : LeaseForDevice(j, claims[q].device)
      BY <2>1 DEF LeaseJob, ClaimsOK, ClaimOK
    <3>2. claims[q].device \in DeviceId
      BY <2>1 DEF LeaseJob, ClaimAt, ClaimsOK, ClaimOK
    <3> QED
      BY <3>1, <3>2 DEF JobsNext, AgentCall
  <2>2. ASSUME ~LeaseJob(q) PROVE UNCHANGED repositoryVars
    BY <1>2, <2>2 DEF ClaimStep, BeginClaim, ListCandidates, ValidateImages, LeaseNothing
  <2> QED
    BY <2>1, <2>2
<1>3. CASE OperateJob
  BY <1>3 DEF OperateJob, JobsNext, OperatorCall
<1>4. CASE LeasedCall
  BY <1>4 DEF LeasedCall, JobsNext, AgentCall, InstallerCall
<1>5. CASE Surroundings
  BY <1>5 DEF Surroundings, JobsNext
<1>6. CASE Report \/ \E i \in ImageId : Import(i)
  BY <1>6 DEF Report, Import
<1>7. CASE UNCHANGED claimVars
  BY <1>7 DEF claimVars
<1> QED
  BY <1>1, <1>2, <1>3, <1>4, <1>5, <1>6, <1>7 DEF ClaimsNext

\* The types of commands and claims are invariant.
LEMMA HostTypes == ClaimsSpec => [](CommandsOK /\ ClaimsOK)
<1>1. ClaimsInit => CommandsOK /\ ClaimsOK
  BY NoCommandType DEF ClaimsInit, CommandsOK, ClaimsOK, ClaimOK, NoClaim
<1>2. CommandsOK /\ ClaimsOK /\ [ClaimsNext]_claimVars => CommandsOK' /\ ClaimsOK'
  BY CommandsKeepType, ClaimsKeepType
<1> QED
  BY <1>1, <1>2, PTL DEF ClaimsSpec

\* The host runs the repository as its specification says, so every theorem about
\* JobsSpec is one about the host.
THEOREM HostRunsTheRepository == ClaimsSpec => JobsSpec
<1>1. ClaimsInit => JobsInit
  BY DEF ClaimsInit
<1>2. CommandsOK /\ ClaimsOK /\ [ClaimsNext]_claimVars => [JobsNext]_repositoryVars
  BY HostStep
<1> QED
  BY <1>1, <1>2, HostTypes, PTL DEF ClaimsSpec, JobsSpec

------------------------------------------------------------------------------
(* No call but an insertion names an image. *)

\* A commit that replaces a slot by a job with the same image, or empties it.
LEMMA CommitNames ==
  ASSUME RepositoryInv, NEW j \in JobId, NEW job,
         Present(job) => Present(jobs[j]) /\ job.image = jobs[j].image,
         Commit([jobs EXCEPT ![j] = job]),
         NEW k \in JobId, NEW i, Names(k, i)'
  PROVE  Names(k, i)
<1> DEFINE next == [jobs EXCEPT ![j] = job]
<1>1. next[k] = IF k = j THEN job ELSE jobs[k]
  BY DEF RepositoryInv, JobsTypeOK
<1>2. ~Present(NoJobs[k])
  BY DEF NoJobs, NoJob, Present
<1>3. jobs' \in {jobs, next, NoJobs} /\ disk' \in {next, NoJobs}
  BY CommitOutcome
<1> HIDE DEF next
<1> QED
  BY <1>1, <1>2, <1>3 DEF Names

LEMMA TransitionNames ==
  ASSUME RepositoryInv, NEW j \in JobId, NEW state, Transition(j, state),
         NEW k \in JobId, NEW i, Names(k, i)'
  PROVE  Names(k, i)
<1> DEFINE job == [jobs[j] EXCEPT !.state = state]
<1>1. jobs \in [JobId -> Job] /\ jobs[j] \in Job
  BY DEF RepositoryInv, JobsTypeOK
<1>2. Present(jobs[j]) /\ state \in JobState
  BY <1>1, TransitionFromActive DEF Transition
<1>3. job.image = jobs[j].image
  BY <1>1 DEF Job
<1>4. [jobs EXCEPT ![j].state = state] = [jobs EXCEPT ![j] = job]
  BY <1>1
<1> HIDE DEF job
<1> QED
  BY <1>2, <1>3, <1>4, CommitNames DEF Transition

LEMMA RemoveNames ==
  ASSUME RepositoryInv, NEW j \in JobId, Remove(j),
         NEW k \in JobId, NEW i, Names(k, i)'
  PROVE  Names(k, i)
<1>1. ~Present(NoJob)
  BY DEF NoJob, Present
<1> QED
  BY <1>1, CommitNames DEF Remove

LEMMA LeasedNames ==
  ASSUME RepositoryInv, NEW j \in JobId, NEW stage \in DeploymentStage,
         NEW length \in Nat, Present(jobs[j]),
         Commit([jobs EXCEPT ![j] = Leased(jobs[j], stage, length)]),
         NEW k \in JobId, NEW i, Names(k, i)'
  PROVE  Names(k, i)
<1>1. jobs[j] \in Job
  BY DEF RepositoryInv, JobsTypeOK
<1>2. Leased(jobs[j], stage, length).image = jobs[j].image
  BY <1>1 DEF Leased, Job
<1> QED
  BY <1>2, CommitNames

LEMMA LeasedCallNames ==
  ASSUME RepositoryInv, LeasedCall, NEW k \in JobId, NEW i, Names(k, i)'
  PROVE  Names(k, i)
<1>1. jobs \in [JobId -> Job]
  BY DEF RepositoryInv, JobsTypeOK
<1>2. PICK j \in JobId, d \in DeviceId :
        \/ \E image \in ImageId : LeaseInstallerJob(j, d, image)
        \/ \E l \in 1..issued :
             \/ RenewControlLease(j, d, l)
             \/ \E succeeded \in BOOLEAN : \/ Complete(j, d, l, succeeded)
                                            \/ CompleteInstaller(j, d, l, succeeded)
  BY DEF LeasedCall
<1>3. jobs[j] \in Job
  BY <1>1
<1>4. ASSUME NEW image \in ImageId, LeaseInstallerJob(j, d, image)
      PROVE  Names(k, i)
  <2>1. Present(jobs[j]) /\ "ValidatingTarget" \in DeploymentStage /\ InstallerLease \in Nat
    BY <1>4, RepositoryAssumption DEF LeaseInstallerJob, HandoffAvailable, Present,
                                      Absent, DeploymentStage
  <2> QED
    BY <1>4, <2>1, LeasedNames DEF LeaseInstallerJob
<1>5. ASSUME NEW l \in 1..issued, RenewControlLease(j, d, l)
      PROVE  Names(k, i)
  <2> DEFINE job == [jobs[j] EXCEPT !.expires = now + AgentLease]
  <2>1. Present(jobs[j])
    BY <1>5 DEF RenewControlLease, HoldsLease, Present, Absent
  <2>2. job.image = jobs[j].image
    BY <1>3 DEF Job
  <2>3. [jobs EXCEPT ![j].expires = now + AgentLease] = [jobs EXCEPT ![j] = job]
    BY <1>1
  <2> HIDE DEF job
  <2> QED
    BY <1>5, <2>1, <2>2, <2>3, CommitNames DEF RenewControlLease
<1>6. ASSUME NEW l \in 1..issued, NEW succeeded \in BOOLEAN, Complete(j, d, l, succeeded)
      PROVE  Names(k, i)
  <2>1. Present(jobs[j])
    BY <1>6 DEF Complete, HoldsLiveLease, HoldsLease, Present, Absent
  <2>2. Finished(jobs[j], succeeded).image = jobs[j].image
    BY <1>3 DEF Finished, Job
  <2> QED
    BY <1>6, <2>1, <2>2, CommitNames DEF Complete
<1>7. ASSUME NEW l \in 1..issued, NEW succeeded \in BOOLEAN,
             CompleteInstaller(j, d, l, succeeded)
      PROVE  Names(k, i)
  <2> DEFINE job == [Finished(jobs[j], succeeded) EXCEPT
                       !.stage = IF succeeded THEN "Finalizing" ELSE @]
  <2>1. Present(jobs[j])
    BY <1>7 DEF CompleteInstaller, HoldsInstallerLease, Present, Absent
  <2>2. Finished(jobs[j], succeeded) \in Job
        /\ Finished(jobs[j], succeeded).image = jobs[j].image
    BY <1>3 DEF Finished, Job, JobState, NoLease
  <2>3. job.image = jobs[j].image
    BY <2>2 DEF Job
  <2>4. Commit([jobs EXCEPT ![j] = job])
    BY <1>7 DEF CompleteInstaller
  <2> HIDE DEF job
  <2> QED
    BY <2>1, <2>3, <2>4, CommitNames
<1> QED
  BY <1>2, <1>4, <1>5, <1>6, <1>7

\* Nothing the repository does but inserting a job names an image: not the
\* operator, the agents and installers, a write that fails, a crash or a restart.
LEMMA OperateNames ==
  ASSUME RepositoryInv, OperateJob \/ LeasedCall \/ Surroundings,
         NEW k \in JobId, NEW i, Names(k, i)'
  PROVE  Names(k, i)
<1>1. CASE OperateJob
  BY <1>1, TransitionNames, RemoveNames DEF OperateJob
<1>2. CASE LeasedCall
  BY <1>2, LeasedCallNames
<1>3. CASE Surroundings
  <2>1. ~Present(NoJobs[k])
    BY DEF NoJobs, NoJob, Present
  <2> QED
    BY <1>3, <2>1 DEF Surroundings, Environment, Tick, Crash, Open, Names
<1> QED
  BY <1>1, <1>2, <1>3

LEMMA LeaseJobNames ==
  ASSUME RepositoryInv, ClaimsOK, NEW q \in Claim, LeaseJob(q),
         NEW k \in JobId, NEW i, Names(k, i)'
  PROVE  Names(k, i)
<1>1. PICK j \in JobId : LeaseForDevice(j, claims[q].device)
  BY DEF LeaseJob, ClaimsOK, ClaimOK
<1>2. Present(jobs[j]) /\ "Preflight" \in DeploymentStage /\ AgentLease \in Nat
  BY <1>1, RepositoryAssumption DEF LeaseForDevice, Claimable, Present, Absent,
                                    DeploymentStage
<1> QED
  BY <1>1, <1>2, LeasedNames DEF LeaseForDevice

------------------------------------------------------------------------------
(* The invariant of the commands. *)

\* A step that names nothing new, keeps the library or adds to it, and leaves the
\* commands alone unless the process dies.
LEMMA QuietStepKeepsInv ==
  ASSUME ClaimsInv, CommandsOK',
         \A k \in JobId, i \in ImageId \cup {None} : Names(k, i)' => Names(k, i),
         library' = library,
         \/ commands' = commands /\ (up' = up \/ up')
         \/ commands' = [c \in Command |-> NoCommand]
  PROVE  ClaimsInv'
<1>1. CASE commands' = commands
  <2>1. \A c \in Command : commands[c].image \in ImageId \cup {None}
    BY DEF ClaimsInv, CommandsOK, CommandRecord
  <2>2. \A c \in Command : commands'[c] = commands[c]
    BY <1>1
  <2>3. ~up' => commands' = [c \in Command |-> NoCommand]
    BY <1>1 DEF ClaimsInv
  <2> QED
    BY <2>1, <2>2, <2>3 DEF ClaimsInv, Holds
<1>2. CASE commands' = [c \in Command |-> NoCommand]
  <2>1. \A c \in Command : commands'[c].at = "idle"
    BY <1>2, NoCommandType
  <2> QED
    BY <1>2, <2>1 DEF ClaimsInv, Holds
<1> QED
  BY <1>1, <1>2

\* A command moves on, and takes the mutation lock only when it is free.
LEMMA CommandMoves ==
  ASSUME ClaimsInv, CommandsOK', up, UNCHANGED <<repositoryVars, library>>,
         NEW c \in Command, NEW r, commands' = [commands EXCEPT ![c] = r],
         r.at \in {"preparing", "enqueuing", "removingImage"} => ~Locked \/ Holds(c),
         r.at = "enqueuing" => r.image \in library,
         r.at = "removingImage" => \A j \in JobId : ~Names(j, r.image)
  PROVE  ClaimsInv'
<1>1. \A d \in Command : commands'[d] = IF d = c THEN r ELSE commands[d]
  BY DEF ClaimsInv, CommandsOK
<1>2. jobs' = jobs /\ disk' = disk /\ up' = up
  BY DEF repositoryVars
<1>3. \A j \in JobId : \A i : Names(j, i)' = Names(j, i)
  BY <1>2 DEF Names
<1>4. ASSUME NEW d \in Command, NEW e \in Command, Holds(d)', Holds(e)'
      PROVE  d = e
  <2>1. Holds(c)' => ~Locked \/ Holds(c)
    BY <1>1 DEF Holds
  <2>2. \A a \in Command : a # c /\ Holds(a)' => Holds(a) /\ Locked
    BY <1>1 DEF Holds, Locked
  <2> QED
    BY <1>4, <2>1, <2>2 DEF ClaimsInv
<1>5. \A d \in Command :
        commands'[d].at = "enqueuing" => commands'[d].image \in library'
  BY <1>1 DEF ClaimsInv
<1>6. \A d \in Command : commands'[d].at = "removingImage" =>
        \A j \in JobId : ~Names(j, commands[d].image)'
  <2>1. ASSUME NEW d \in Command, commands'[d].at = "removingImage", NEW j \in JobId,
               Names(j, commands[d].image)'
        PROVE  FALSE
    <3>1. Names(j, commands'[d].image)
      BY <1>2, <2>1 DEF Names
    <3> QED
      BY <1>1, <2>1, <3>1 DEF ClaimsInv
  <2> QED
    BY <2>1
<1>7. \A j \in JobId, i \in ImageId \cup {None} : Names(j, i)' => i \in library'
  BY <1>2 DEF ClaimsInv, Names
<1> QED
  BY <1>2, <1>4, <1>5, <1>6, <1>7 DEF ClaimsInv

\* Only a running host has commands in progress.
LEMMA BusyMeansUp ==
  ASSUME ClaimsInv, NEW c \in Command, commands[c].at # "idle"
  PROVE  up
  BY NoCommandType DEF ClaimsInv

LEMMA EnqueueKeepsInv ==
  ASSUME RepositoryInv, ClaimsInv, CommandsOK', NEW c \in Command, Enqueue(c)
  PROVE  ClaimsInv'
<1> DEFINE image == commands[c].image
<1>1. CommandAt(c, "enqueuing") /\ Holds(c) /\ image \in library /\ library' = library
  BY DEF Enqueue, CommandAt, Holds, ClaimsInv
<1>2. up
  BY <1>1, BusyMeansUp DEF CommandAt
<1>3. CASE Done(c) /\ UNCHANGED repositoryVars
  BY <1>1, <1>2, <1>3, CommandMoves, NoCommandType DEF Done
<1>4. CASE /\ \E j \in JobId : Insert(j, commands[c].op, commands[c].device, image, "waiting")
           /\ ThenCommands([commands EXCEPT ![c] = NoCommand])
  <2>1. PICK j \in JobId : Insert(j, commands[c].op, commands[c].device, image, "waiting")
    BY <1>4
  <2> DEFINE job  == [NoJob EXCEPT !.state = "waiting", !.op = commands[c].op,
                                   !.device = commands[c].device, !.image = image]
             next == [jobs EXCEPT ![j] = job]
  <2>2. /\ jobs' \in {jobs, next, NoJobs} /\ disk' \in {next, NoJobs}
        /\ ~up' => jobs' = NoJobs
    BY <2>1, CommitOutcome DEF Insert
  <2>3. job.image = image
    BY DEF NoJob
  <2>4. \A k \in JobId : next[k] = IF k = j THEN job ELSE jobs[k]
    BY DEF RepositoryInv, JobsTypeOK
  <2>5. \A k \in JobId : ~Present(NoJobs[k])
    BY DEF NoJobs, NoJob, Present
  <2> HIDE DEF next, job
  <2>6. ASSUME NEW k \in JobId, NEW i, Names(k, i)' PROVE Names(k, i) \/ i = image
    BY <2>2, <2>3, <2>4, <2>5, <2>6 DEF Names
  <2>7. \A d \in Command : ~Holds(d)'
    <3>1. CASE up'
      <4>1. commands' = [commands EXCEPT ![c] = NoCommand]
        BY <1>4, <3>1 DEF ThenCommands
      <4>2. \A d \in Command : commands'[d] = IF d = c THEN NoCommand ELSE commands[d]
        BY <4>1 DEF ClaimsInv, CommandsOK
      <4> QED
        BY <1>1, <4>2, NoCommandType DEF Holds, ClaimsInv
    <3>2. CASE ~up'
      BY <1>4, <3>2, NoCommandType DEF ThenCommands, Holds
    <3> QED
      BY <3>1, <3>2
  <2>8. ~up' => commands' = [d \in Command |-> NoCommand]
    BY <1>4 DEF ThenCommands
  <2>9. \A k \in JobId, i \in ImageId \cup {None} : Names(k, i)' => i \in library'
    BY <1>1, <2>6 DEF ClaimsInv
  <2> QED
    BY <2>7, <2>8, <2>9 DEF ClaimsInv, Holds
<1> QED
  BY <1>3, <1>4 DEF Enqueue

LEMMA ImageRemovedKeepsInv ==
  ASSUME ClaimsInv, CommandsOK', NEW c \in Command, ImageRemoved(c)
  PROVE  ClaimsInv'
<1>1. /\ commands[c].at = "removingImage"
      /\ \A d \in Command : commands'[d] = IF d = c THEN NoCommand ELSE commands[d]
      /\ jobs' = jobs /\ disk' = disk /\ up' = up
  BY DEF ImageRemoved, CommandAt, Done, repositoryVars, ClaimsInv, CommandsOK
<1>2. up
  BY <1>1, BusyMeansUp
<1>3. \A d \in Command : ~Holds(d)'
  BY <1>1, NoCommandType DEF Holds, ClaimsInv
<1>4. ASSUME NEW k \in JobId, NEW i \in ImageId \cup {None}, Names(k, i)'
      PROVE  i \in library'
  <2>1. Names(k, i)
    BY <1>1, <1>4 DEF Names
  <2>2. i \in library /\ i # commands[c].image
    BY <1>1, <2>1 DEF ClaimsInv
  <2> QED
    BY <2>2 DEF ImageRemoved
<1> QED
  BY <1>1, <1>2, <1>3, <1>4 DEF ClaimsInv, Holds

\* The holder of the lock looked at the list in memory; the manifest is the same
\* list, or does not parse and holds nothing.
LEMMA RemoveImageKeepsInv ==
  ASSUME RepositoryInv, ClaimsInv, CommandsOK', NEW c \in Command, NEW i \in ImageId,
         RemoveImage(c, i)
  PROVE  ClaimsInv'
<1> DEFINE r == [NoCommand EXCEPT !.at = "removingImage", !.image = i]
<1>1. r.at = "removingImage" /\ r.image = i
  BY DEF NoCommand
<1>2. \A j \in JobId : ~Names(j, i)
  <2>1. up /\ (\A j \in JobId : ~(Present(jobs[j]) /\ jobs[j].image = i))
    BY DEF RemoveImage, References
  <2>2. disk = jobs \/ disk = NoJobs
    BY <2>1 DEF RepositoryInv, MemoryMatchesManifest, JobsTypeOK
  <2>3. \A j \in JobId : ~Present(NoJobs[j])
    BY DEF NoJobs, NoJob, Present
  <2> QED
    BY <2>1, <2>2, <2>3 DEF Names
<1>3. /\ commands' = [commands EXCEPT ![c] = r] /\ ~Locked /\ up
      /\ UNCHANGED <<repositoryVars, library>>
  BY DEF RemoveImage
<1> HIDE DEF r
<1> QED
  BY <1>1, <1>2, <1>3, CommandMoves

LEMMA CommandKeepsInv ==
  ASSUME RepositoryInv, ClaimsInv, CommandsOK', NEW c \in Command, CommandStep(c)
  PROVE  ClaimsInv'
<1>1. ASSUME NEW op \in Operation, NEW id \in DeviceId, NEW i \in ImageId,
             NEW wanted \in Disk, CreateJob(c, op, id, i, wanted)
      PROVE  ClaimsInv'
  <2> DEFINE r == [at |-> "preparing", op |-> op, device |-> id, image |-> i,
                   disk |-> wanted]
  <2>1. /\ commands' = [commands EXCEPT ![c] = r] /\ ~Locked /\ up
        /\ UNCHANGED <<repositoryVars, library>> /\ r.at = "preparing"
    BY <1>1 DEF CreateJob
  <2> HIDE DEF r
  <2> QED
    BY <2>1, CommandMoves
<1>2. ASSUME PrepareImage(c) PROVE ClaimsInv'
  <2>1. up /\ Holds(c) /\ UNCHANGED <<repositoryVars, library>>
    BY <1>2, BusyMeansUp DEF PrepareImage, CommandAt, Holds
  <2>2. CASE Done(c)
    BY <2>1, <2>2, CommandMoves, NoCommandType DEF Done
  <2>3. CASE /\ commands[c].image \in library
             /\ commands' = [commands EXCEPT ![c].at = "enqueuing"]
    <3> DEFINE r == [commands[c] EXCEPT !.at = "enqueuing"]
    <3>1. /\ r.at = "enqueuing" /\ r.image = commands[c].image
          /\ commands' = [commands EXCEPT ![c] = r]
      BY <2>3 DEF ClaimsInv, CommandsOK, CommandRecord
    <3> HIDE DEF r
    <3> QED
      BY <2>1, <2>3, <3>1, CommandMoves
  <2> QED
    BY <1>2, <2>2, <2>3 DEF PrepareImage
<1>3. ASSUME NEW id \in DeviceId, CheckDevice(c, id) PROVE ClaimsInv'
  <2> DEFINE r == [NoCommand EXCEPT !.at = "removingDevice", !.device = id]
  <2>1. /\ commands' = [commands EXCEPT ![c] = r] /\ up
        /\ UNCHANGED <<repositoryVars, library>>
    BY <1>3 DEF CheckDevice
  <2>2. r.at = "removingDevice"
    BY DEF NoCommand
  <2> HIDE DEF r
  <2> QED
    BY <2>1, <2>2, CommandMoves
<1>4. ASSUME DeviceRemoved(c) PROVE ClaimsInv'
  <2>1. up /\ Done(c) /\ UNCHANGED <<repositoryVars, library>>
    BY <1>4, BusyMeansUp DEF DeviceRemoved, CommandAt
  <2> QED
    BY <2>1, CommandMoves, NoCommandType DEF Done
<1> QED
  BY <1>1, <1>2, <1>3, <1>4, EnqueueKeepsInv, RemoveImageKeepsInv, ImageRemovedKeepsInv
     DEF CommandStep

\* ClaimsInv is inductive beside the repository's invariant.
LEMMA ClaimsStep ==
  ASSUME RepositoryInv, ClaimsOK, ClaimsInv, [ClaimsNext]_claimVars
  PROVE  ClaimsInv'
<1>1. CommandsOK'
  BY CommandsKeepType DEF ClaimsInv
<1>2. ASSUME NEW c \in Command, CommandStep(c) PROVE ClaimsInv'
  BY <1>1, <1>2, CommandKeepsInv
<1>3. ASSUME UNCHANGED <<jobs, disk, up, library, commands>> PROVE ClaimsInv'
  BY <1>1, <1>3, QuietStepKeepsInv DEF Names
<1>4. ASSUME NEW q \in Claim, ClaimStep(q) PROVE ClaimsInv'
  <2>1. CASE LeaseJob(q)
    <3>1. /\ library' = library
          /\ \/ commands' = commands /\ up'
             \/ commands' = [c \in Command |-> NoCommand]
      BY <2>1 DEF LeaseJob, ThenCommands
    <3> QED
      BY <1>1, <2>1, <3>1, LeaseJobNames, QuietStepKeepsInv
  <2>2. CASE ~LeaseJob(q)
    BY <1>3, <1>4, <2>2 DEF ClaimStep, BeginClaim, ListCandidates, ValidateImages,
                            LeaseNothing, repositoryVars
  <2> QED
    BY <2>1, <2>2
<1>5. CASE OperateJob \/ LeasedCall \/ Surroundings
  <2>1. /\ library' = library
        /\ \/ commands' = commands /\ up'
           \/ commands' = [c \in Command |-> NoCommand]
    BY <1>5 DEF OperateJob, LeasedCall, Surroundings, ThenCommands
  <2> QED
    BY <1>1, <1>5, <2>1, OperateNames, QuietStepKeepsInv
<1>6. CASE Report
  BY <1>3, <1>6 DEF Report, repositoryVars
<1>7. ASSUME NEW i \in ImageId, Import(i) PROVE ClaimsInv'
  <2>1. /\ UNCHANGED <<jobs, disk, up, commands>> /\ library \subseteq library'
    BY <1>7 DEF Import, repositoryVars
  <2>2. \A j \in JobId : \A image : Names(j, image)' = Names(j, image)
    BY <2>1 DEF Names
  <2>3. \A c \in Command : commands[c].image \in ImageId \cup {None}
    BY DEF ClaimsInv, CommandsOK, CommandRecord
  <2>4. \A c \in Command : commands'[c] = commands[c]
    BY <2>1
  <2> QED
    BY <1>1, <2>1, <2>2, <2>3, <2>4 DEF ClaimsInv, Holds
<1>8. CASE UNCHANGED claimVars
  BY <1>3, <1>8 DEF claimVars, hostVars, repositoryVars
<1> QED
  BY <1>2, <1>4, <1>5, <1>6, <1>7, <1>8 DEF ClaimsNext

------------------------------------------------------------------------------
(* The theorems. *)

\* The invariant of the repository and that of the commands, together.
THEOREM HostInvariant == ClaimsSpec => [](RepositoryInv /\ ClaimsInv)
<1>1. ClaimsInit => ClaimsInv
  <2> SUFFICES ASSUME ClaimsInit PROVE ClaimsInv
    OBVIOUS
  <2>1. \A j \in JobId : \A i : ~Names(j, i)
    BY DEF ClaimsInit, JobsInit, NoJobs, NoJob, Names, Present
  <2> QED
    BY <2>1, NoCommandType DEF ClaimsInit, JobsInit, ClaimsInv, CommandsOK, Holds
<1>2. RepositoryInv /\ ClaimsOK /\ ClaimsInv /\ [ClaimsNext]_claimVars => ClaimsInv'
  BY ClaimsStep
<1> QED
  BY <1>1, <1>2, HostTypes, HostRunsTheRepository, RepositoryInvariant, PTL
     DEF ClaimsSpec

\* In any run of the host, every job in the repository has its image in the
\* library: what create_job validated is still there when it enqueues, and
\* remove_image never deletes what a job names.
THEOREM ImagesStay == ClaimsSpec => []EveryJobHasItsImage
<1>1. RepositoryInv /\ ClaimsInv => EveryJobHasItsImage
  <2> SUFFICES ASSUME RepositoryInv, ClaimsInv, NEW j \in JobId, Present(jobs[j])
               PROVE  jobs[j].image \in library
    BY DEF EveryJobHasItsImage
  <2>1. jobs[j].image \in ImageId \cup {None}
    BY DEF RepositoryInv, JobsTypeOK, Job
  <2> QED
    BY <2>1 DEF ClaimsInv, Names
<1> QED
  BY <1>1, HostInvariant, PTL

------------------------------------------------------------------------------
(* Only claim_job leases a Windows job, and it has just compared the disks. *)

\* The lease of a job stays, goes, or is an installer's.
NoAgentLease(j) ==
  jobs'[j].lease \in {jobs[j].lease, NoLease} \/ IsLinux(jobs'[j])

LEMMA CommitOneSlot ==
  ASSUME RepositoryInv, NEW j \in JobId, NEW job, Commit([jobs EXCEPT ![j] = job]), up',
         NEW k \in JobId
  PROVE  jobs'[k] = jobs[k] \/ (k = j /\ jobs'[k] = job)
<1>1. jobs' = jobs \/ jobs' = [jobs EXCEPT ![j] = job]
  BY DEF Commit, Written, WriteFailed, DiedWriting
<1> QED
  BY <1>1 DEF RepositoryInv, JobsTypeOK

LEMMA OperateLeases ==
  ASSUME RepositoryInv, OperateJob, up', NEW k \in JobId
  PROVE  NoAgentLease(k)
<1>1. jobs \in [JobId -> Job]
  BY DEF RepositoryInv, JobsTypeOK
<1>2. PICK j \in JobId : Remove(j) \/ \E next \in JobState : Transition(j, next)
  BY DEF OperateJob
<1>3. CASE Remove(j)
  BY <1>3, CommitOneSlot DEF Remove, NoAgentLease, NoJob
<1>4. ASSUME NEW next \in JobState, Transition(j, next) PROVE NoAgentLease(k)
  <2> DEFINE job == [jobs[j] EXCEPT !.state = next]
  <2>1. job.lease = jobs[j].lease /\ Commit([jobs EXCEPT ![j] = job])
    BY <1>1, <1>4 DEF Transition, Job
  <2> HIDE DEF job
  <2> QED
    BY <2>1, CommitOneSlot DEF NoAgentLease
<1> QED
  BY <1>2, <1>3, <1>4

LEMMA LeasedCallLeases ==
  ASSUME RepositoryInv, LeasedCall, up', NEW k \in JobId
  PROVE  NoAgentLease(k)
<1>1. jobs \in [JobId -> Job]
  BY DEF RepositoryInv, JobsTypeOK
<1>2. PICK j \in JobId, d \in DeviceId :
        \/ \E image \in ImageId : LeaseInstallerJob(j, d, image)
        \/ \E l \in 1..issued :
             \/ RenewControlLease(j, d, l)
             \/ \E succeeded \in BOOLEAN : \/ Complete(j, d, l, succeeded)
                                            \/ CompleteInstaller(j, d, l, succeeded)
  BY DEF LeasedCall
<1>3. jobs[j] \in Job
  BY <1>1
<1>4. ASSUME NEW image \in ImageId, LeaseInstallerJob(j, d, image)
      PROVE  NoAgentLease(k)
  <2> DEFINE job == Leased(jobs[j], "ValidatingTarget", InstallerLease)
  <2>1. IsLinux(job) /\ Commit([jobs EXCEPT ![j] = job])
    BY <1>3, <1>4 DEF LeaseInstallerJob, HandoffAvailable, IsLinux, Leased, Job
  <2> HIDE DEF job
  <2> QED
    BY <2>1, CommitOneSlot DEF NoAgentLease
<1>5. ASSUME NEW l \in 1..issued, RenewControlLease(j, d, l)
      PROVE  NoAgentLease(k)
  <2> DEFINE job == [jobs[j] EXCEPT !.expires = now + AgentLease]
  <2>1. job.lease = jobs[j].lease /\ Commit([jobs EXCEPT ![j] = job])
    BY <1>1, <1>5 DEF RenewControlLease, Job
  <2> HIDE DEF job
  <2> QED
    BY <2>1, CommitOneSlot DEF NoAgentLease
<1>6. ASSUME NEW l \in 1..issued, NEW succeeded \in BOOLEAN, Complete(j, d, l, succeeded)
      PROVE  NoAgentLease(k)
  <2>1. Finished(jobs[j], succeeded).lease = NoLease
    BY <1>3 DEF Finished, Job
  <2> QED
    BY <1>6, <2>1, CommitOneSlot DEF Complete, NoAgentLease
<1>7. ASSUME NEW l \in 1..issued, NEW succeeded \in BOOLEAN,
             CompleteInstaller(j, d, l, succeeded)
      PROVE  NoAgentLease(k)
  <2> DEFINE job == [Finished(jobs[j], succeeded) EXCEPT
                       !.stage = IF succeeded THEN "Finalizing" ELSE @]
  <2>1. Finished(jobs[j], succeeded) \in Job
        /\ Finished(jobs[j], succeeded).lease = NoLease
    BY <1>3 DEF Finished, Job, JobState, NoLease
  <2>2. job.lease = NoLease /\ Commit([jobs EXCEPT ![j] = job])
    BY <1>7, <2>1 DEF Job, CompleteInstaller
  <2> HIDE DEF job
  <2> QED
    BY <2>2, CommitOneSlot DEF NoAgentLease
<1> QED
  BY <1>2, <1>4, <1>5, <1>6, <1>7

\* A claim that leases a job leases it for a disk of the record it is compared
\* with, under the registry's lock.
LEMMA LeaseJobMatches ==
  ASSUME RepositoryInv, ClaimsOK, NEW q \in Claim, LeaseJob(q), up', NEW k \in JobId
  PROVE  \/ NoAgentLease(k)
         \/ Known(jobs[k].device) /\ target[k] \in RecordOf(jobs[k].device).disks
<1>1. PICK j \in JobId : /\ MatchesCurrentDisk(q, j)
                         /\ LeaseForDevice(j, claims[q].device)
  BY DEF LeaseJob, ClaimsOK, ClaimOK
<1>2. jobs'[k] = jobs[k] \/ k = j
  BY <1>1, CommitOneSlot DEF LeaseForDevice
<1>3. jobs[j].device = claims[q].device
  BY <1>1 DEF LeaseForDevice, Claimable
<1> QED
  BY <1>1, <1>2, <1>3 DEF MatchesCurrentDisk, NoAgentLease

\* In any run of the host, a Windows job gets a lease only when its device is
\* registered and its last report has the disk the job is for: a report or a
\* removal during the validation of the image is seen.
THEOREM LeasesMatchDisks == ClaimsSpec => LeasedOnCurrentDisk
<1>1. ASSUME RepositoryInv, ClaimsOK, CommandsOK, [ClaimsNext]_claimVars, up, up',
             NEW k \in JobId
      PROVE  \/ NoAgentLease(k)
             \/ Known(jobs[k].device) /\ target[k] \in RecordOf(jobs[k].device).disks
  <2>1. ASSUME jobs' = jobs PROVE NoAgentLease(k)
    BY <2>1 DEF NoAgentLease
  <2>2. ASSUME NEW c \in Command, CommandStep(c) PROVE NoAgentLease(k)
    <3>1. CASE Enqueue(c)
      <4>1. CASE UNCHANGED repositoryVars
        BY <2>1, <4>1 DEF repositoryVars
      <4>2. ASSUME NEW j \in JobId, Insert(j, commands[c].op, commands[c].device,
                                           commands[c].image, "waiting")
            PROVE  NoAgentLease(k)
        <5> DEFINE job == [NoJob EXCEPT !.state = "waiting", !.op = commands[c].op,
                           !.device = commands[c].device, !.image = commands[c].image]
        <5>1. job.lease = NoLease
          BY DEF NoJob
        <5>2. Commit([jobs EXCEPT ![j] = job])
          BY <4>2 DEF Insert
        <5> HIDE DEF job
        <5> QED
          BY <1>1, <5>1, <5>2, CommitOneSlot DEF NoAgentLease
      <4> QED
        BY <3>1, <4>1, <4>2 DEF Enqueue
    <3>2. CASE ~Enqueue(c)
      BY <2>1, <2>2, <3>2 DEF CommandStep, CreateJob, PrepareImage, RemoveImage,
                              ImageRemoved, CheckDevice, DeviceRemoved, repositoryVars
    <3> QED
      BY <3>1, <3>2
  <2>3. ASSUME NEW q \in Claim, ClaimStep(q), ~LeaseJob(q) PROVE NoAgentLease(k)
    BY <2>1, <2>3 DEF ClaimStep, BeginClaim, ListCandidates, ValidateImages,
                      LeaseNothing, repositoryVars
  <2>4. CASE Surroundings
    BY <1>1, <2>1, <2>4 DEF Surroundings, Environment, Tick, Crash, Open
  <2>5. CASE Report \/ \E i \in ImageId : Import(i)
    BY <2>1, <2>5 DEF Report, Import, repositoryVars
  <2>6. CASE UNCHANGED claimVars
    BY <2>1, <2>6 DEF claimVars, repositoryVars
  <2> QED
    BY <1>1, <2>2, <2>3, <2>4, <2>5, <2>6, OperateLeases, LeasedCallLeases,
       LeaseJobMatches DEF ClaimsNext
<1>2. RepositoryInv /\ CommandsOK /\ ClaimsOK /\ [ClaimsNext]_claimVars
        => [\A j \in JobId :
             ( /\ ~IsLinux(jobs'[j]) /\ jobs'[j].lease # NoLease
               /\ up /\ up' /\ jobs'[j].lease # jobs[j].lease )
             => /\ Known(jobs[j].device)
                /\ target[j] \in RecordOf(jobs[j].device).disks]_claimVars
  BY <1>1 DEF NoAgentLease
<1> QED
  BY <1>2, HostInvariant, HostTypes, PTL DEF ClaimsSpec, LeasedOnCurrentDisk

------------------------------------------------------------------------------
(* The list of machines, and the agents that keep theirs on it.            *)

RegistryInv == RegistryTypeOK /\ InventoryIsCurrent

\* The place of a device, if it has one.
LEMMA PlaceKnown ==
  ASSUME NEW id, Known(id)
  PROVE  PlaceOf(id) \in DOMAIN devices /\ devices[PlaceOf(id)].id = id
BY DEF Known, PlaceOf

\* The list without a device: the others, each once.
LEMMA WithoutDevice ==
  ASSUME RegistryInv, NEW id
  PROVE  /\ Without(id) \in Seq(DeviceRecord)
         /\ \A k \in DOMAIN Without(id) :
              /\ Without(id)[k].id # id
              /\ Without(id)[k].reporter = Without(id)[k].token
              /\ \A n \in DOMAIN Without(id) :
                   Without(id)[k].id = Without(id)[n].id => k = n
<1>1. /\ devices \in Seq(DeviceRecord) /\ DOMAIN devices = 1..Len(devices)
      /\ Len(devices) \in Nat
      /\ \A k, n \in DOMAIN devices : devices[k].id = devices[n].id => k = n
      /\ \A k \in DOMAIN devices : devices[k].reporter = devices[k].token
  BY DEF RegistryInv, RegistryTypeOK, InventoryIsCurrent
<1>2. CASE ~Known(id)
  BY <1>1, <1>2 DEF Without, Known
<1>3. CASE Known(id)
  <2> DEFINE at == PlaceOf(id)
             before == SubSeq(devices, 1, at - 1)
             after == SubSeq(devices, at + 1, Len(devices))
             rest == before \o after
             from(k) == IF k < at THEN k ELSE k + 1
  <2>1. at \in 1..Len(devices) /\ devices[at].id = id
    BY <1>1, <1>3, PlaceKnown
  <2> HIDE DEF at
  <2>2. /\ before \in Seq(DeviceRecord) /\ Len(before) = at - 1
        /\ \A k \in 1..(at - 1) : before[k] = devices[k]
    BY <1>1, <2>1
  <2>3. /\ after \in Seq(DeviceRecord) /\ Len(after) = Len(devices) - at
        /\ \A k \in 1..(Len(devices) - at) : after[k] = devices[at + k]
    <3>1. /\ at + 1 \in 1..(Len(devices) + 1) /\ Len(devices) \in at..Len(devices)
          /\ at + 1 - 1 = at /\ Len(devices) - (at + 1) + 1 = Len(devices) - at
          /\ \A k \in 1..(Len(devices) - at) : at + 1 + k - 1 = at + k
      BY <1>1, <2>1
    <3> QED
      BY <1>1, <3>1, SubSeqProperties
  <2> HIDE DEF before, after
  <2>4. /\ rest \in Seq(DeviceRecord) /\ Len(rest) = Len(devices) - 1
        /\ DOMAIN rest = 1..(Len(devices) - 1)
    <3>1. rest \in Seq(DeviceRecord) /\ Len(rest) = Len(before) + Len(after)
      BY <2>2, <2>3, ConcatProperties, Zenon
    <3> HIDE DEF rest
    <3>3. DOMAIN rest = 1..Len(rest)
      BY <3>1
    <3>2. Len(before) + Len(after) = Len(devices) - 1
      BY <1>1, <2>1, <2>2, <2>3
    <3> QED
      BY <3>1, <3>2, <3>3
  <2>5. ASSUME NEW k \in DOMAIN rest
        PROVE  /\ from(k) \in 1..Len(devices) /\ from(k) # at
               /\ rest[k] = devices[from(k)]
    <3>1. k \in 1..(Len(devices) - 1)
      BY <2>4
    <3>4. /\ k \in Nat /\ k >= 1 /\ k <= Len(devices) - 1 /\ at \in Nat
          /\ k \in 1..(Len(before) + Len(after))
      BY <1>1, <2>1, <2>2, <2>3, <3>1
    <3>5. rest[k] = IF k <= Len(before) THEN before[k] ELSE after[k - Len(before)]
      BY <2>2, <2>3, <3>4, ConcatProperties, Zenon
    <3> HIDE DEF rest
    <3>2. CASE k < at
      <4>1. k <= Len(before) /\ k \in 1..(at - 1)
        BY <2>1, <2>2, <3>2, <3>4
      <4> QED
        BY <1>1, <2>1, <2>2, <3>1, <3>2, <3>5, <4>1
    <3>3. CASE ~(k < at)
      <4>1. /\ ~(k <= Len(before)) /\ k - Len(before) \in 1..(Len(devices) - at)
            /\ at + (k - Len(before)) = k + 1
        BY <1>1, <2>1, <2>2, <3>3, <3>4
      <4>2. rest[k] = devices[k + 1]
        BY <2>3, <3>5, <4>1, Zenon
      <4>3. from(k) = k + 1
        BY <3>3
      <4> QED
        BY <1>1, <2>1, <3>3, <3>4, <4>2, <4>3
    <3> QED
      BY <3>2, <3>3
  <2>6. ASSUME NEW k \in DOMAIN rest, NEW n \in DOMAIN rest, from(k) = from(n)
        PROVE  k = n
    <3>1. k \in Nat /\ n \in Nat /\ at \in Nat
      <4> HIDE DEF rest, from
      <4> QED
        BY <1>1, <2>1, <2>4
    <3> QED
      BY <2>6, <3>1
  <2> HIDE DEF from, rest
  <2>7. \A k \in DOMAIN rest :
          /\ rest[k].id # id /\ rest[k].reporter = rest[k].token
          /\ \A n \in DOMAIN rest : rest[k].id = rest[n].id => k = n
    BY <1>1, <2>1, <2>5, <2>6
  <2>8. Without(id) = rest
    BY <1>3 DEF Without, rest, before, after, at
  <2> QED
    BY <2>4, <2>7, <2>8
<1> QED
  BY <1>2, <1>3

\* register: one record per device, whoever had the address before.
LEMMA RegisterKeepsList ==
  ASSUME RegistryInv, NEW id \in DeviceId, NEW token \in Token, NEW mac \in Mac,
         NEW disks \in Inventory, Register(id, token, mac, disks)
  PROVE  RegistryInv'
<1> DEFINE record == [id |-> id, mac |-> mac, disks |-> disks,
                      token |-> token, reporter |-> token]
           rest == Without(id)
<1>1. record \in DeviceRecord /\ record.id = id /\ record.reporter = record.token
  BY DEF DeviceRecord
<1>2. devices' = Append(rest, record)
  BY DEF Register, Replaced
<1>3. /\ rest \in Seq(DeviceRecord)
      /\ \A k \in DOMAIN rest :
           /\ rest[k].id # id /\ rest[k].reporter = rest[k].token
           /\ \A n \in DOMAIN rest : rest[k].id = rest[n].id => k = n
  BY WithoutDevice
<1> HIDE DEF record, rest
<1>4. /\ devices' \in Seq(DeviceRecord) /\ Len(rest) \in Nat
      /\ DOMAIN devices' = 1..(Len(rest) + 1) /\ DOMAIN rest = 1..Len(rest)
      /\ \A k \in 1..Len(rest) : devices'[k] = rest[k]
      /\ devices'[Len(rest) + 1] = record
  BY <1>1, <1>2, <1>3
<1>5. \A k \in DOMAIN devices' : k = Len(rest) + 1 \/ k \in DOMAIN rest
  BY <1>4
<1>6. \A k, n \in DOMAIN devices' : devices'[k].id = devices'[n].id => k = n
  BY <1>1, <1>3, <1>4, <1>5
<1>7. \A k \in DOMAIN devices' : devices'[k].reporter = devices'[k].token
  BY <1>1, <1>3, <1>4, <1>5
<1> QED
  BY <1>4, <1>6, <1>7 DEF RegistryInv, RegistryTypeOK, InventoryIsCurrent

\* heartbeat: only the holder of the token on record changes a record.
LEMMA HeartbeatKeepsList ==
  ASSUME RegistryInv, NEW id, NEW token, NEW mac \in Mac,
         NEW disks \in Inventory, Heartbeat(id, token, mac, disks)
  PROVE  RegistryInv'
<1>1. /\ devices \in Seq(DeviceRecord) /\ DOMAIN devices = 1..Len(devices)
      /\ Len(devices) \in Nat
      /\ \A k, n \in DOMAIN devices : devices[k].id = devices[n].id => k = n
      /\ \A k \in DOMAIN devices : devices[k].reporter = devices[k].token
  BY DEF RegistryInv, RegistryTypeOK, InventoryIsCurrent
<1>2. Known(id) /\ RecordOf(id).token = token
  BY DEF Heartbeat, Authenticates
<1>3. \A k \in DOMAIN devices : devices[k].id = id => devices[k].token = token
  BY <1>1, <1>2, PlaceKnown DEF RecordOf
<1>4. devices' = [k \in DOMAIN devices |->
        IF devices[k].id = id
        THEN [devices[k] EXCEPT !.mac = mac, !.disks = disks, !.reporter = token]
        ELSE devices[k]]
  BY DEF Heartbeat
<1>5. ASSUME NEW k \in DOMAIN devices
      PROVE  /\ devices'[k] \in DeviceRecord /\ devices'[k].id = devices[k].id
             /\ devices'[k].reporter = devices'[k].token
  <2>1. devices[k] \in DeviceRecord
    BY <1>1
  <2>2. CASE devices[k].id = id
    BY <1>1, <1>3, <1>4, <2>1, <2>2 DEF DeviceRecord
  <2>3. CASE devices[k].id # id
    BY <1>1, <1>4, <2>1, <2>3
  <2> QED
    BY <2>2, <2>3
<1>6. devices' \in Seq(DeviceRecord) /\ DOMAIN devices' = DOMAIN devices
  <2>1. DOMAIN devices' = 1..Len(devices)
    BY <1>1, <1>4
  <2>2. devices' \in [1..Len(devices) -> DeviceRecord]
    BY <1>1, <1>4, <1>5, <2>1
  <2> QED
    BY <1>1, <2>1, <2>2
<1> QED
  BY <1>1, <1>5, <1>6 DEF RegistryInv, RegistryTypeOK, InventoryIsCurrent

LEMMA RemoveKeepsList ==
  ASSUME RegistryInv, NEW id, RemoveDevice(id)
  PROVE  RegistryInv'
<1>1. devices' = Without(id)
  BY DEF RemoveDevice
<1> QED
  BY <1>1, WithoutDevice DEF RegistryInv, RegistryTypeOK, InventoryIsCurrent

\* A call reports an address and disks of its machine.
CallOK(c) ==
  /\ c \in Call
  /\ c.kind \in {"register", "heartbeat"} => c.mac \in Mac /\ c.disks \in Inventory

\* An agent that registers makes no other call, and is answered with what it is
\* to present from then on.
AgentOK(a) ==
  /\ a \in AgentRecord /\ CallOK(a.call)
  /\ a.at = "registering" =>
       /\ a.call.kind \in {"none", "register"}
       /\ a.answer = "ok" => a.granted # <<>>

PresenceInv ==
  /\ RegistryInv
  /\ synced \in BOOLEAN
  /\ machine = [m \in Machine |-> machine[m]] /\ \A m \in Machine : AgentOK(machine[m])
  /\ \A c \in late : CallOK(c)

LEMMA StartedOK ==
  /\ CallOK(NoCall) /\ NoCall.kind = "none" /\ AgentOK([Started(FALSE) EXCEPT !.at = "off"])
  /\ \A enrolls \in BOOLEAN : AgentOK(Started(enrolls))
<1>1. CallOK(NoCall) /\ NoCall \in Call /\ NoCall.kind = "none"
  BY DEF CallOK, Call, NoCall
<1>2. \A enrolls \in BOOLEAN : AgentOK(Started(enrolls))
  BY <1>1 DEF AgentOK, AgentRecord, Started
<1>3. AgentOK([Started(FALSE) EXCEPT !.at = "off"])
  BY <1>1 DEF AgentOK, AgentRecord, Started
<1> QED
  BY <1>1, <1>2, <1>3

LEMMA InitPresence == PresenceInit => PresenceInv
<1> SUFFICES ASSUME PresenceInit PROVE PresenceInv
  OBVIOUS
<1>1. RegistryInv
  BY DEF PresenceInit, RegistryInit, RegistryInv, RegistryTypeOK, InventoryIsCurrent
<1>2. machine = [m \in Machine |-> machine[m]] /\ \A m \in Machine : AgentOK(machine[m])
  BY StartedOK DEF PresenceInit
<1> QED
  BY <1>1, <1>2 DEF PresenceInv, PresenceInit

\* What the host does with a call that reached it.
LEMMA CallKeepsList ==
  ASSUME RegistryInv, NEW c, CallOK(c)
  PROVE  /\ \A id \in DeviceId, token \in Token : Registers(c, id, token) => RegistryInv'
         /\ Beats(c) => RegistryInv'
         /\ Refuses(c) => RegistryInv'
<1>1. ASSUME NEW id \in DeviceId, NEW token \in Token, Registers(c, id, token)
      PROVE  RegistryInv'
  <2>1. c.mac \in Mac /\ c.disks \in Inventory /\ Register(id, token, c.mac, c.disks)
    BY <1>1 DEF CallOK, Registers
  <2> QED
    BY <2>1, RegisterKeepsList
<1>2. ASSUME Beats(c) PROVE RegistryInv'
  <2>1. c.mac \in Mac /\ c.disks \in Inventory /\ Heartbeat(c.id, c.token, c.mac, c.disks)
    BY <1>2 DEF CallOK, Beats
  <2> QED
    BY <2>1, HeartbeatKeepsList
<1>3. ASSUME Refuses(c) PROVE RegistryInv'
  BY <1>3 DEF Refuses, RegistryInv, RegistryTypeOK, InventoryIsCurrent
<1> QED
  BY <1>1, <1>2, <1>3

LEMMA ServeKeepsInv ==
  ASSUME PresenceInv, NEW m \in Machine, Serve(m)
  PROVE  PresenceInv'
<1>1. /\ AgentOK(machine[m]) /\ CallOK(machine[m].call) /\ late' = late
      /\ machine = [n \in Machine |-> machine[n]] /\ RegistryInv
      /\ synced \in BOOLEAN /\ synced' = synced /\ NoCall \in Call
  BY StartedOK DEF PresenceInv, AgentOK, CallOK, Serve
<1>2. ASSUME NEW a, AgentOK(a), machine' = [machine EXCEPT ![m] = a], RegistryInv'
      PROVE  PresenceInv'
  BY <1>1, <1>2 DEF PresenceInv
<1>3. ASSUME NEW id \in DeviceId, NEW token \in Token,
             Registers(machine[m].call, id, token),
             machine' = [machine EXCEPT ![m].call = NoCall, ![m].answer = "ok",
                                        ![m].granted = <<id, token>>]
      PROVE  PresenceInv'
  <2> DEFINE a == [machine[m] EXCEPT !.call = NoCall, !.answer = "ok",
                                     !.granted = <<id, token>>]
  <2>1. machine' = [machine EXCEPT ![m] = a]
    BY <1>1, <1>3
  <2>2. AgentOK(a)
    BY <1>1, StartedOK DEF AgentOK, AgentRecord
  <2> HIDE DEF a
  <2> QED
    BY <1>1, <1>2, <1>3, <2>1, <2>2, CallKeepsList
<1>4. ASSUME Beats(machine[m].call),
             machine' = [machine EXCEPT ![m].call = NoCall, ![m].answer = "ok"]
      PROVE  PresenceInv'
  <2> DEFINE a == [machine[m] EXCEPT !.call = NoCall, !.answer = "ok"]
  <2>1. machine' = [machine EXCEPT ![m] = a]
    BY <1>1, <1>4
  <2>2. AgentOK(a)
    BY <1>1, <1>4, StartedOK DEF AgentOK, AgentRecord, Beats
  <2> HIDE DEF a
  <2> QED
    BY <1>1, <1>2, <1>4, <2>1, <2>2, CallKeepsList
<1>5. ASSUME Refuses(machine[m].call),
             machine' = [machine EXCEPT ![m].call = NoCall, ![m].answer = "refused"]
      PROVE  PresenceInv'
  <2> DEFINE a == [machine[m] EXCEPT !.call = NoCall, !.answer = "refused"]
  <2>1. machine' = [machine EXCEPT ![m] = a]
    BY <1>1, <1>5
  <2>2. AgentOK(a)
    BY <1>1, StartedOK DEF AgentOK, AgentRecord
  <2> HIDE DEF a
  <2> QED
    BY <1>1, <1>2, <1>5, <2>1, <2>2, CallKeepsList
<1> QED
  BY <1>3, <1>4, <1>5 DEF Serve

\* The list changes only when the host serves a call or the operator removes a
\* machine; elsewhere one agent goes on, or calls are given up or lost.
LEMMA AgentsKeepInv ==
  ASSUME PresenceInv, UNCHANGED <<devices, synced>>, NEW m \in Machine, NEW a, AgentOK(a),
         machine' = [machine EXCEPT ![m] = a],
         \A c \in late' : c \in late \/ c = machine[m].call
  PROVE  PresenceInv'
BY DEF PresenceInv, RegistryInv, RegistryTypeOK, InventoryIsCurrent, AgentOK

LEMMA AgentStepKeepsInv ==
  ASSUME PresenceInv, NEW m \in Machine, AgentStep(m)
  PROVE  PresenceInv'
<1>1. /\ AgentOK(machine[m]) /\ machine = [n \in Machine |-> machine[n]]
      /\ synced \in BOOLEAN /\ machine[m].enrolls \in BOOLEAN
      /\ UNCHANGED <<devices, synced, late>>
  BY DEF PresenceInv, AgentOK, AgentRecord, AgentStep, PowerOn, Send, Registered, BeatsOn
<1>2. ASSUME NEW a, AgentOK(a), machine' = [machine EXCEPT ![m] = a]
      PROVE  PresenceInv'
  BY <1>1, <1>2, AgentsKeepInv
<1>3. CASE PowerOn(m)
  BY <1>1, <1>2, <1>3, StartedOK DEF PowerOn
<1>4. CASE Send(m)
  <2>1. PICK mac \in Adapter[m], disks \in Inventory :
          machine' = [machine EXCEPT ![m].call =
            IF machine[m].at = "registering"
            THEN [NoCall EXCEPT !.kind = "register", !.enrolls = machine[m].enrolls,
                                !.mac = mac, !.disks = disks]
            ELSE [NoCall EXCEPT !.kind = "heartbeat", !.id = machine[m].id,
                                !.token = machine[m].token,
                                !.mac = mac, !.disks = disks]]
    BY <1>4 DEF Send
  <2> DEFINE c == IF machine[m].at = "registering"
                  THEN [NoCall EXCEPT !.kind = "register", !.enrolls = machine[m].enrolls,
                                      !.mac = mac, !.disks = disks]
                  ELSE [NoCall EXCEPT !.kind = "heartbeat", !.id = machine[m].id,
                                      !.token = machine[m].token,
                                      !.mac = mac, !.disks = disks]
             a == [machine[m] EXCEPT !.call = c]
  <2>2. mac \in Mac
    BY PresenceAssumption
  <2>3. CallOK(c) /\ (machine[m].at = "registering" => c.kind = "register")
    BY <1>1, <2>2 DEF CallOK, Call, NoCall, AgentOK, AgentRecord
  <2>4. machine' = [machine EXCEPT ![m] = a]
    BY <1>1, <2>1
  <2> HIDE DEF c
  <2>5. AgentOK(a)
    BY <1>1, <2>3 DEF AgentOK, AgentRecord, CallOK
  <2> HIDE DEF a
  <2> QED
    BY <1>2, <2>4, <2>5
<1>5. CASE Registered(m)
  <2> DEFINE a == [Started(machine[m].enrolls) EXCEPT !.at = "beating",
                     !.id = machine[m].granted[1], !.token = machine[m].granted[2]]
  <2>1. machine[m].granted \in DeviceId \X Token
    BY <1>1, <1>5 DEF Registered, AgentOK, AgentRecord
  <2>2. AgentOK(a)
    BY <1>1, <2>1, StartedOK DEF AgentOK, AgentRecord, Started
  <2>3. machine' = [machine EXCEPT ![m] = a]
    BY <1>5 DEF Registered
  <2> HIDE DEF a
  <2> QED
    BY <1>2, <2>2, <2>3
<1>6. CASE BeatsOn(m)
  <2>1. CASE machine' = [machine EXCEPT ![m] = Started(machine[m].enrolls)]
    BY <1>1, <1>2, <2>1, StartedOK
  <2>2. CASE /\ machine[m].at = "beating"
             /\ machine' = [machine EXCEPT ![m].answer = "none"]
    <3> DEFINE a == [machine[m] EXCEPT !.answer = "none"]
    <3>1. machine' = [machine EXCEPT ![m] = a]
      BY <1>1, <2>2
    <3>2. AgentOK(a)
      BY <1>1, <2>2, StartedOK DEF AgentOK, AgentRecord, CallOK
    <3> HIDE DEF a
    <3> QED
      BY <1>2, <3>1, <3>2
  <2> QED
    BY <1>6, <2>1, <2>2 DEF BeatsOn
<1> QED
  BY <1>3, <1>4, <1>5, <1>6 DEF AgentStep

LEMMA DisturbanceKeepsInv ==
  ASSUME PresenceInv, Disturbance
  PROVE  PresenceInv'
<1>1. ASSUME NEW m \in Machine, GiveUp(m) PROVE PresenceInv'
  <2> DEFINE a == Started(machine[m].enrolls)
  <2>1. machine' = [machine EXCEPT ![m] = a]
    BY <1>1 DEF GiveUp
  <2>2. AgentOK(a)
    BY StartedOK DEF PresenceInv, AgentOK, AgentRecord
  <2>3. UNCHANGED <<devices, synced>> /\ \A c \in late' : c \in late \/ c = machine[m].call
    BY <1>1 DEF GiveUp, MayLinger
  <2> HIDE DEF a
  <2> QED
    BY <2>1, <2>2, <2>3, AgentsKeepInv
<1>2. ASSUME NEW m \in Machine, PowerOff(m) PROVE PresenceInv'
  <2>1. UNCHANGED <<devices, synced>> /\ \A c \in late' : c \in late \/ c = machine[m].call
    BY <1>2 DEF PowerOff, MayLinger
  <2>2. machine' = [machine EXCEPT ![m] = [Started(FALSE) EXCEPT !.at = "off"]]
    BY <1>2 DEF PowerOff
  <2> QED
    BY <2>1, <2>2, StartedOK, AgentsKeepInv
<1>3. ASSUME LoseLate PROVE PresenceInv'
  BY <1>3 DEF LoseLate, PresenceInv, RegistryInv, RegistryTypeOK, InventoryIsCurrent
<1>4. ASSUME ServeLate PROVE PresenceInv'
  <2>1. PICK c \in late :
          /\ \/ \E id \in DeviceId, token \in Token : Registers(c, id, token)
             \/ Beats(c) \/ Refuses(c)
          /\ late' = late \ {c} /\ machine' = machine /\ synced' = synced
    BY <1>4 DEF ServeLate
  <2>2. RegistryInv'
    BY <2>1, CallKeepsList DEF PresenceInv
  <2> QED
    BY <2>1, <2>2 DEF PresenceInv
<1>5. ASSUME OperatorRemoves PROVE PresenceInv'
  <2>1. PICK id \in DeviceId : RemoveDevice(id) /\ UNCHANGED <<synced, machine, late>>
    BY <1>5 DEF OperatorRemoves
  <2>2. RegistryInv'
    BY <2>1, RemoveKeepsList DEF PresenceInv
  <2> QED
    BY <2>1, <2>2 DEF PresenceInv
<1>6. ASSUME StartControlPlane PROVE PresenceInv'
  <2> DEFINE Outdated(a) == [a EXCEPT !.enrolls = FALSE, !.call.enrolls = FALSE]
  <2>1. \A c : CallOK(c) => CallOK([c EXCEPT !.enrolls = FALSE])
    BY DEF CallOK, Call
  <2>2. ASSUME NEW m \in Machine
        PROVE  AgentOK(machine'[m])
    <3>1. AgentOK(machine[m]) /\ CallOK(machine[m].call)
      BY DEF PresenceInv, AgentOK
    <3>2. machine'[m] = Outdated(machine[m])
      BY <1>6 DEF StartControlPlane
    <3>3. Outdated(machine[m]) = [machine[m] EXCEPT !.enrolls = FALSE,
            !.call = [machine[m].call EXCEPT !.enrolls = FALSE]]
      BY <3>1 DEF AgentOK, AgentRecord
    <3>4. CallOK([machine[m].call EXCEPT !.enrolls = FALSE])
      BY <2>1, <3>1
    <3> QED
      BY <3>1, <3>2, <3>3, <3>4 DEF AgentOK, AgentRecord, CallOK, Call
  <2>3. \A c \in late' : CallOK(c)
    BY <1>6, <2>1 DEF StartControlPlane, PresenceInv
  <2>4. machine' = [m \in Machine |-> machine'[m]] /\ synced' \in BOOLEAN
    BY <1>6 DEF StartControlPlane
  <2>5. RegistryInv'
    BY <1>6 DEF StartControlPlane, PresenceInv, RegistryInv, RegistryTypeOK,
                InventoryIsCurrent
  <2> QED
    BY <2>2, <2>3, <2>4, <2>5 DEF PresenceInv
<1> QED
  BY <1>1, <1>2, <1>3, <1>4, <1>5, <1>6 DEF Disturbance

LEMMA SyncKeepsInv ==
  ASSUME PresenceInv, SyncBootImage
  PROVE  PresenceInv'
BY DEF SyncBootImage, PresenceInv, RegistryInv, RegistryTypeOK, InventoryIsCurrent

\* register, heartbeat and remove keep one record per machine, whatever calls
\* reach DeviceRegistry and however late; an agent is granted an id and a token
\* before it beats.
THEOREM PresenceInvariant == PresenceSpec => []PresenceInv
<1>1. PresenceInv /\ [PresenceNext]_presenceVars => PresenceInv'
  <2> SUFFICES ASSUME PresenceInv, [PresenceNext]_presenceVars PROVE PresenceInv'
    OBVIOUS
  <2>1. CASE UNCHANGED presenceVars
    BY <2>1 DEF presenceVars, PresenceInv, RegistryInv, RegistryTypeOK, InventoryIsCurrent
  <2>2. CASE PresenceNext
    BY <2>2, ServeKeepsInv, AgentStepKeepsInv, SyncKeepsInv, DisturbanceKeepsInv
       DEF PresenceNext
  <2> QED
    BY <2>1, <2>2
<1> QED
  BY <1>1, InitPresence, PTL DEF PresenceSpec

\* The list and the agents are well typed, and no two records of the list have
\* one id.
THEOREM PresenceTypes == PresenceSpec => []PresenceTypeOK
<1>1. PresenceInv => PresenceTypeOK
  <2> SUFFICES ASSUME PresenceInv PROVE PresenceTypeOK
    OBVIOUS
  <2>1. machine \in [Machine -> AgentRecord]
    BY DEF PresenceInv, AgentOK
  <2> QED
    BY <2>1 DEF PresenceInv, PresenceTypeOK, RegistryInv, CallOK
<1> QED
  BY <1>1, PresenceInvariant, PTL

\* A heartbeat that was sent before the last registration never overwrites what
\* that registration reported, for any machines, adapters, tokens and number of
\* late calls: heartbeat compares the token before it replaces the inventory.
THEOREM InventoryStaysCurrent == PresenceSpec => []InventoryIsCurrent
<1>1. PresenceInv => InventoryIsCurrent
  BY DEF PresenceInv, RegistryInv
<1> QED
  BY <1>1, PresenceInvariant, PTL
==============================================================================
