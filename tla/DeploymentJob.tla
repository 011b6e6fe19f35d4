---------------------------- MODULE DeploymentJob ----------------------------
(***************************************************************************)
(* The deployment job of crates/core: its lifecycle, the stages a running  *)
(* job reports, and the record the job repository keeps of it.  The module *)
(* has no variables; the state machines that store and drive jobs build on *)
(* it.                                                                     *)
(*                                                                         *)
(* Abstractions: a job's name, disk fingerprint, options, messages and     *)
(* percentage are left out (the percentage an installer event reports is a *)
(* function of its stage).  The Windows operations behave alike in the     *)
(* repository, which only asks whether a job is InstallLinux.              *)
(***************************************************************************)
EXTENDS Naturals

CONSTANTS DeviceId, ImageId

JobState ==
  {"draft", "waiting", "running", "paused", "succeeded", "failed", "cancelled"}

\* What the slot of a job that was never created, or was removed, holds.
Absent == "absent"

\* JobState::transition: the pairs the guarded transition admits.
Transitions ==
  { <<"draft", "waiting">>,    <<"draft", "cancelled">>,
    <<"waiting", "running">>,  <<"waiting", "cancelled">>,
    <<"running", "paused">>,   <<"running", "succeeded">>,
    <<"running", "failed">>,   <<"running", "cancelled">>,
    <<"paused", "running">>,   <<"paused", "succeeded">>,
    <<"paused", "failed">>,    <<"paused", "cancelled">>,
    <<"failed", "waiting">> }

\* JobState::is_terminal.  A failed job is not terminal: it can be retried.
Terminal == {"succeeded", "cancelled"}

\* The states JobRepository::remove accepts.
Removable == {"succeeded", "failed", "cancelled"}

Operation == {"DeployWindows", "InstallLinux"}

\* The stages, with "none" for a job that has reported nothing.
DeploymentStage ==
  {"none", "Preflight", "BootingInstaller", "ValidatingTarget", "Partitioning",
   "DownloadingImage", "ApplyingImage", "InstallingSystem", "ConfiguringBoot",
   "Finalizing", "AwaitingFirstBoot", "Rebooting"}

\* installer_stage_rank; "none" ranks as 0 (unwrap_or(0)).
StageRank(stage) ==
  CASE stage = "BootingInstaller"                    -> 1
    [] stage = "DownloadingImage"                    -> 2
    [] stage = "ValidatingTarget"                    -> 3
    [] stage = "Partitioning"                        -> 4
    [] stage \in {"ApplyingImage", "InstallingSystem"} -> 5
    [] stage = "ConfiguringBoot"                     -> 6
    [] stage = "Finalizing"                          -> 7
    [] stage = "Rebooting"                           -> 8
    [] stage = "AwaitingFirstBoot"                   -> 9
    [] OTHER                                         -> 0

\* Lease ids are fresh UUIDs; here the n-th one issued is n.  The id and its
\* expiry are set together and cleared together, so NoLease stands for both
\* options being None.
NoLease == 0

\* The device and image of an empty slot.
None == "none"

Job == [state   : JobState \cup {Absent},
        op      : Operation,
        device  : DeviceId \cup {None},
        image   : ImageId \cup {None},
        stage   : DeploymentStage,
        lease   : Nat,
        expires : Nat]

NoJob == [state |-> Absent, op |-> "DeployWindows", device |-> None,
          image |-> None, stage |-> "none", lease |-> NoLease, expires |-> 0]

IsLinux(job)  == job.op = "InstallLinux"
Present(job)  == job.state # Absent
IsActive(job) == job.state \notin Terminal \cup {Absent}

CanTransition(job, next) == <<job.state, next>> \in Transitions
==============================================================================
