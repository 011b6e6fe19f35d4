--------------------------- MODULE DeploymentClaims ---------------------------
(***************************************************************************)
(* The host as a whole around a Windows job: the desktop commands that     *)
(* create jobs and remove images, jobs and devices                         *)
(* (DeploymentMutationCoordinator and remove_device in                     *)
(* apps/desktop/src-tauri/src/lib.rs), and claim_job of the control plane, *)
(* over the device registry, the image library and the job repository.     *)
(*                                                                         *)
(* Each of the three stores has its own lock and every command or request  *)
(* takes them one after the other, so between its steps the others act:    *)
(* only the mutation lock of the coordinator, held across the validation   *)
(* of an image, spans several steps.                                       *)
(*                                                                         *)
(* Abstractions: an image is in the library or not, and its validation may *)
(* fail for any reason; a job's target disk matches a reported disk or     *)
(* not; plans are accepted.  The registry's agents present their current   *)
(* token and report any inventory.                                         *)
(***************************************************************************)
EXTENDS JobRepository, DeviceRegistry

CONSTANTS
  Command,     \* the desktop commands in progress at a time
  Claim        \* the claim requests in progress at a time

VARIABLES
  target,      \* the disk each job targets (a field of the job in the code)
  library,     \* the images in the library
  imported,    \* the image ids drawn so far
  known,       \* the device ids drawn so far
  commands,    \* the desktop commands in progress
  claims       \* the claim requests in progress

hostVars  == <<target, library, imported, known, commands, claims>>
claimVars == <<repositoryVars, devices, hostVars>>

Disk == UNION Inventory

\* A desktop command: where it is and its arguments.
CommandRecord ==
  [at : {"idle", "preparing", "enqueuing", "removingImage", "removingDevice"},
   op : Operation, device : DeviceId \cup {None}, image : ImageId \cup {None},
   disk : Disk \cup {None}]

NoCommand == [at |-> "idle", op |-> "DeployWindows", device |-> None,
              image |-> None, disk |-> None]

\* A claim: the device, the disks of its snapshot and the jobs read or validated.
NoClaim == [at |-> "idle", device |-> None, disks |-> {}, candidates |-> {}]

ClaimsInit ==
  /\ JobsInit /\ RegistryInit
  /\ target = [j \in JobId |-> None]
  /\ library = {} /\ imported = {} /\ known = {}
  /\ commands = [c \in Command |-> NoCommand]
  /\ claims = [q \in Claim |-> NoClaim]

------------------------------------------------------------------------------
(* Building blocks. *)

\* Only a command that holds the mutation lock is between these steps.
Locked == \E c \in Command :
            commands[c].at \in {"preparing", "enqueuing", "removingImage"}

CommandAt(c, place) == commands[c].at = place
Done(c)             == commands' = [commands EXCEPT ![c] = NoCommand]

ClaimAt(q, place) == claims[q].at = place
Answered(q)       == claims' = [claims EXCEPT ![q] = NoClaim]

\* A call of the job repository: what is in progress dies with the process.
\* (A call that only fails to write ends the command or claim all the same.)
ThenCommands(next) ==
  commands' = IF up' THEN next ELSE [c \in Command |-> NoCommand]
ThenClaims(next) ==
  claims' = IF up' THEN next ELSE [q \in Claim |-> NoClaim]

References(image)       == \E j \in JobId : Present(jobs[j]) /\ jobs[j].image = image
ReferencesDevice(id)    == \E j \in JobId : IsActive(jobs[j]) /\ jobs[j].device = id

------------------------------------------------------------------------------
(* Desktop commands. *)

\* An import that has been committed; ids are UUIDs.
Import(i) ==
  /\ up /\ i \notin imported
  /\ imported' = imported \cup {i} /\ library' = library \cup {i}
  /\ UNCHANGED <<repositoryVars, devices, target, known, commands, claims>>

\* create_job, with the lock: the image is looked up, and for a Linux job the
\* device, whose disk becomes the target; a Windows job names a device and a
\* disk the operator has seen.
CreateJob(c, op, id, i, wanted) ==
  /\ up /\ CommandAt(c, "idle") /\ ~Locked
  /\ i \in library
  /\ id \in known
  /\ op = "InstallLinux" => Known(id) /\ wanted \in RecordOf(id).disks
  /\ commands' = [commands EXCEPT ![c] =
       [at |-> "preparing", op |-> op, device |-> id, image |-> i, disk |-> wanted]]
  /\ UNCHANGED <<repositoryVars, devices, target, library, imported, known, claims>>

\* The preflight on a blocking thread, which looks the image up again.
PrepareImage(c) ==
  /\ CommandAt(c, "preparing")
  /\ \/ commands[c].image \in library
        /\ commands' = [commands EXCEPT ![c].at = "enqueuing"]
     \/ Done(c)
  /\ UNCHANGED <<repositoryVars, devices, target, library, imported, known, claims>>

Enqueue(c) ==
  /\ CommandAt(c, "enqueuing")
  /\ \/ \E j \in JobId :
          /\ Insert(j, commands[c].op, commands[c].device, commands[c].image, "waiting")
          /\ target' = [target EXCEPT ![j] = commands[c].disk]
          /\ ThenCommands([commands EXCEPT ![c] = NoCommand])
          /\ ThenClaims(claims)
     \/ /\ Done(c)
        /\ UNCHANGED <<repositoryVars, target, claims>>
  /\ UNCHANGED <<devices, library, imported, known>>

\* Slip: the mutation lock is not taken.
RemoveImageUnlocked(c, i) ==
  /\ up /\ CommandAt(c, "idle")
  /\ i \in library /\ ~References(i)
  /\ commands' = [commands EXCEPT ![c] = [NoCommand EXCEPT !.at = "removingImage",
                                                           !.image = i]]
  /\ UNCHANGED <<repositoryVars, devices, target, library, imported, known, claims>>

\* remove_image, with the lock: no job references the image ...
RemoveImage(c, i) ==
  /\ up /\ CommandAt(c, "idle") /\ ~Locked
  /\ i \in library /\ ~References(i)
  /\ commands' = [commands EXCEPT ![c] = [NoCommand EXCEPT !.at = "removingImage",
                                                           !.image = i]]
  /\ UNCHANGED <<repositoryVars, devices, target, library, imported, known, claims>>

\* ... and ImageLibrary::remove.
ImageRemoved(c) ==
  /\ CommandAt(c, "removingImage")
  /\ library' \in {library, library \ {commands[c].image}}
  /\ Done(c)
  /\ UNCHANGED <<repositoryVars, devices, target, imported, known, claims>>

\* remove_device, without the lock: no active job references the device ...
CheckDevice(c, id) ==
  /\ up /\ CommandAt(c, "idle")
  /\ Known(id) /\ ~ReferencesDevice(id)
  /\ commands' = [commands EXCEPT ![c] = [NoCommand EXCEPT !.at = "removingDevice",
                                                           !.device = id]]
  /\ UNCHANGED <<repositoryVars, devices, target, library, imported, known, claims>>

\* ... and DeviceRegistry::remove.
DeviceRemoved(c) ==
  /\ CommandAt(c, "removingDevice")
  /\ RemoveDevice(commands[c].device)
  /\ Done(c)
  /\ UNCHANGED <<repositoryVars, target, library, imported, known, claims>>

\* transition_job, and remove_job with the lock.
OperateJob ==
  /\ \E j \in JobId : \/ \E next \in JobState : Transition(j, next)
                      \/ ~Locked /\ Remove(j)
  /\ ThenCommands(commands) /\ ThenClaims(claims)
  /\ UNCHANGED <<devices, target, library, imported, known>>

------------------------------------------------------------------------------
(* claim_job. *)

\* authenticated_device and the snapshot of the device.
BeginClaim(q, id) ==
  /\ up /\ ClaimAt(q, "idle")
  /\ Known(id) /\ RecordOf(id).disks # {}
  /\ claims' = [claims EXCEPT ![q] = [NoClaim EXCEPT !.at = "listing", !.device = id,
                                                     !.disks = RecordOf(id).disks]]
  /\ UNCHANGED <<repositoryVars, devices, target, library, imported, known, commands>>

\* The jobs that could be claimed with the disks of the snapshot.
Candidates(q) ==
  { j \in JobId : /\ Claimable(jobs[j], claims[q].device)
                  /\ target[j] \in claims[q].disks }

ListCandidates(q) ==
  /\ ClaimAt(q, "listing")
  /\ claims' = [claims EXCEPT ![q].at = "validating", ![q].candidates = Candidates(q)]
  /\ UNCHANGED <<repositoryVars, devices, target, library, imported, known, commands>>

\* The blocking validation of the candidates' images: all that is certain of the
\* jobs it lets through is that their images were in the library.
ValidateImages(q, eligible) ==
  /\ ClaimAt(q, "validating")
  /\ \A j \in eligible : jobs[j].image \in library \/ ~Present(jobs[j])
  /\ claims' = [claims EXCEPT ![q].at = "leasing", ![q].candidates = eligible]
  /\ UNCHANGED <<repositoryVars, devices, target, library, imported, known, commands>>

\* Slip: the disks of the snapshot are compared again.
MatchesSnapshot(q, j) == target[j] \in claims[q].disks

\* The disks compared once more, under the registry's lock.
MatchesCurrentDisk(q, j) ==
  /\ Known(claims[q].device)
  /\ target[j] \in RecordOf(claims[q].device).disks

\* lease_for_device_if inside with_current.
LeaseJob(q) ==
  /\ ClaimAt(q, "leasing")
  /\ \E j \in claims[q].candidates :
       /\ MatchesCurrentDisk(q, j)
       /\ LeaseForDevice(j, claims[q].device)
  /\ ThenCommands(commands) /\ ThenClaims([claims EXCEPT ![q] = NoClaim])
  /\ UNCHANGED <<devices, target, library, imported, known>>

\* Nothing matches any more, or the device is gone.
LeaseNothing(q) ==
  /\ ClaimAt(q, "leasing")
  /\ \A j \in claims[q].candidates :
       ~(MatchesCurrentDisk(q, j) /\ Claimable(jobs[j], claims[q].device))
  /\ Answered(q)
  /\ UNCHANGED <<repositoryVars, devices, target, library, imported, known, commands>>

------------------------------------------------------------------------------
(* Agents and the environment. *)

\* An agent registers or reports its inventory.
Report ==
  /\ up
  /\ \E id \in DeviceId, mac \in Mac, disks \in Inventory, token \in Token :
       \/ /\ FirstWith(mac) = 0 => id \notin known
          /\ Register(id, token, mac, disks)
          /\ known' = known \cup {id}
       \/ /\ Heartbeat(id, token, mac, disks)
          /\ UNCHANGED known
  /\ UNCHANGED <<repositoryVars, target, library, imported, commands, claims>>

\* The agent or the installer of a job; the stages they report do not matter here.
LeasedCall ==
  /\ \E j \in JobId, id \in DeviceId :
       \/ \E i \in ImageId : LeaseInstallerJob(j, id, i)
       \/ \E l \in 1..issued :
            \/ RenewControlLease(j, id, l)
            \/ \E succeeded \in BOOLEAN : \/ Complete(j, id, l, succeeded)
                                           \/ CompleteInstaller(j, id, l, succeeded)
  /\ ThenCommands(commands) /\ ThenClaims(claims)
  /\ UNCHANGED <<devices, target, library, imported, known>>

Surroundings ==
  /\ Environment
  /\ ThenCommands(commands) /\ ThenClaims(claims)
  /\ UNCHANGED <<devices, target, library, imported, known>>

CommandStep(c) ==
  \/ \E op \in Operation, id \in DeviceId, i \in ImageId, wanted \in Disk :
       CreateJob(c, op, id, i, wanted)
  \/ PrepareImage(c) \/ Enqueue(c)
  \/ \E i \in ImageId : RemoveImage(c, i)
  \/ ImageRemoved(c)
  \/ \E id \in DeviceId : CheckDevice(c, id)
  \/ DeviceRemoved(c)

ClaimStep(q) ==
  \/ \E id \in DeviceId : BeginClaim(q, id)
  \/ ListCandidates(q)
  \/ \E eligible \in SUBSET claims[q].candidates : ValidateImages(q, eligible)
  \/ LeaseJob(q) \/ LeaseNothing(q)

ClaimsNext ==
  \/ \E i \in ImageId : Import(i)
  \/ \E c \in Command : CommandStep(c)
  \/ OperateJob
  \/ \E q \in Claim : ClaimStep(q)
  \/ Report \/ LeasedCall \/ Surroundings

ClaimsSpec == ClaimsInit /\ [][ClaimsNext]_claimVars

------------------------------------------------------------------------------
(* Properties. *)

\* Every job's image is in the library: the mutation lock keeps remove_image
\* from deleting an image that a create_job in progress has already validated.
EveryJobHasItsImage ==
  \A j \in JobId : Present(jobs[j]) => jobs[j].image \in library

\* A job is leased only to a device that is registered, for a disk its last
\* report contains: not for one that was there when the claim began.
LeasedOnCurrentDisk ==
  [][\A j \in JobId :
       ( /\ ~IsLinux(jobs'[j]) /\ jobs'[j].lease # NoLease
         /\ up /\ up' /\ jobs'[j].lease # jobs[j].lease )
       => /\ Known(jobs[j].device)
          /\ target[j] \in RecordOf(jobs[j].device).disks]_claimVars
==============================================================================
