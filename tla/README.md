# EasyDeployMesh: TLA+ specification

EasyDeployMesh is a desktop application that installs Windows and Ubuntu Server
on machines of a local network. A Tauri host runs DHCP/TFTP/HTTP boot services
and an HTTP control plane; a small agent runs in Windows PE on each machine,
registers, claims a job, partitions the disk, applies an image and reboots. Linux
machines boot an installer ISO instead and talk to the control plane through
short-lived installer sessions. Everything destructive hangs on a small amount of
state: which job belongs to which machine, who holds the lease of the attempt,
and what a restart of the host finds.

This directory models that state. Modules are translated from the Rust source
(`src/` in the references below), TLC checks them on small instances, and TLAPS
proves the central invariants for every instance. `PROJECT.json` maps every
definition to its source lines and lists runs, hazards, findings and theorems.

## 1. Inventory

| Component | Source | State it keeps | Operations | Hard parts |
|---|---|---|---|---|
| Core domain | `crates/core/src/job.rs`, `models.rs` | none (types) | job transitions, partition-plan validation, disk matching | transition table, size arithmetic |
| JobRepository | `crates/service/src/job_repository.rs` | job list, `jobs.json` | create, enqueue, transition, remove, lease, progress, control, complete (agent and installer) | leases that outlive attempts, torn writes, callers that are late |
| DeviceRegistry | `device_registry.rs` | machine list with inventory and token digest, `devices.json` | register, heartbeat, authenticate, remove, lookups | token rotation, changing addresses |
| InstallerDeployment | `installer_deployment.rs` | map of sessions, in memory | discover, authorize guard, replay, events, first boot | requests split over two locks, stale copies, restarts |
| ControlPlane | `control_plane.rs` | server handle, enrollment token | agent routes, claim, image streaming, start, stop | claims that validate before they lease |
| Desktop host | `apps/desktop/src-tauri/src/lib.rs` | the services it runs, the package root | start and stop of control plane and PXE, imports, session files | long commands that overlap, crashes between file operations |
| DeploymentMutationCoordinator | same | one async mutex | create job, remove image, remove job | references between stores |
| ImageLibrary | `image_library.rs`, `linux_iso.rs`, `crates/gho` | images, object store, `images.json` | import, prepare, open, remove | staging, deduplication, long hashing, span sets |
| PxeService | `pxe.rs` | DHCP leases, TFTP transfers, discovered clients | DHCP, TFTP | finite pool, lossy UDP, block wrap |
| Boot package | `pxe.rs` | package root: WIM, scripts, markers, digests | import, Agent injection, dispatcher | repeated injection into foreign images, crashes |
| ActivityRepository | `activity_repository.rs` | bounded history | record, query, prune | none: one lock, one rename |
| Agent main loop | `crates/agent/src/main.rs` | registration, lease | register, heartbeat, claim, execute, complete | lost answers, retries |
| Agent executor | `crates/agent/src/deployment.rs` | child process, layout scripts | partition, download, apply, boot, clean up | pause while a child runs, point of no return |
| Decoders | `crates/gho`, `crates/bcd`, `wimlib.rs` | none | parse and write binary formats | functions of bytes |
| Front end | `apps/desktop/app` | view state, loading states | calls of the host | which commands may overlap |

How they interact: desktop commands and HTTP handlers call the stores directly;
each store has one lock and no operation holds two of them, except `claim_job`,
which leases while it holds the registry's read lock. The agent calls the control
plane with blocking HTTP and treats every transport error alike. Linux requests
run on blocking threads that a disconnected client does not stop. The mutation
lock is the only lock held across an await.

What makes each component correct:

* **JobRepository**: a device has one job at a time; nothing acknowledged is lost
  and nothing refused appears; finished jobs stay finished; an attempt is one
  lease, and leases are neither shared, revived for installers, nor taken over
  while live.
* **InstallerDeployment**: one session per job; the storage configuration goes
  only to the session whose guard took the lease; no session is stuck in an
  authorization.
* **Agent**: it works only under the lease it holds, pauses when told, resumes only
  when told, and reboots only on a recorded success.
* **DeviceRegistry**: identity by address, inventory from the holder of the current
  token, and agents that find their way back, or are turned away for a known reason.
* **Claims and mutations**: every job's image exists; a lease is given only for a disk
  that is there.
* **PxeService**: an address has one user, across expiry, pool changes and restarts, and
  every machine gets an address when there is one for it; a transfer delivers the whole
  file in order or is given up, and ends.
* **Boot package**: a machine that boots it starts the vendor's shell and the Agent once
  each, with the token of the session that is running, and the package stays one the
  program can manage.
* **ImageLibrary**: a listed image has its files; what is given out is what was
  imported; only whole images can be deployed.
* **Layouts**: an accepted plan does not fail half way on a wiped disk.

## 2. Modules

| Module | Models | Builds on |
|---|---|---|
| `DeploymentJob` | states, transitions, stages and the job record of `crates/core` (no variables) | |
| `DeviceAssignment` | abstract: a device has one job, given once, until it is over | |
| `JobRepository` | every operation of `job_repository.rs`, `jobs.json`, crashes | `DeploymentJob`, refines `DeviceAssignment` |
| `JobRepositoryProofs` | the inductive invariant of `JobRepository`, its action properties, and that it implements `DeviceAssignment` | `JobRepository` |
| `InstallerDeployment` | Linux sessions and the requests that move them | `JobRepository` |
| `InstallerDeploymentProofs` | the inductive invariant of the sessions, and what follows from it | `InstallerDeployment`, `JobRepositoryProofs` |
| `AgentExecution` | one Windows agent executing a job, the network, the operator | `JobRepository` |
| `AgentExecutionProofs` | the inductive invariant of the agent and its calls, and what follows from it | `AgentExecution`, `JobRepositoryProofs` |
| `DeviceRegistry` | the machine list | `DeploymentJob` |
| `AgentPresence` | agents keeping themselves on that list | `DeviceRegistry` |
| `DeploymentClaims` | desktop commands and `claim_job` over the three stores | `JobRepository`, `DeviceRegistry` |
| `PartitionLayout` | plan validation, DiskPart scripts, DiskPart | |
| `PartitionLayoutProofs` | that accepted plans are carried out and volumes are large enough, for plans and sizes of any kind | `PartitionLayout` |
| `PxeLeases` | the DHCP lease table of `pxe.rs`, its file, the packet task, start and stop | |
| `DhcpExchange` | the table with the machines it serves over a lossy network | `PxeLeases` |
| `FileDelivery` | abstract: the packets of a file arrive in order and once, and "sent" means all of them | |
| `TftpTransfer` | the TFTP task of `pxe.rs`, the network, the machine | refines `FileDelivery` |
| `NetworkBootProofs` | that an address has one user; that transfers deliver their file, for every file, modulus, network and number of tries, and when they give up | `DhcpExchange`, `TftpTransfer` |
| `DeploymentClaimsProofs` | that the composition keeps the repository's invariant, its images and its disks; the inductive invariant of the list of machines and its agents | `DeploymentClaims`, `AgentPresence`, `JobRepositoryProofs` |
| `GhostImage` | span discovery, the stream of a span set, the partitions in it (no variables) | |
| `ImageFormats` | the checks of WIM, ESD and ISO files at import (no variables) | `GhostImage` |
| `ImageLibrary` | `image_library.rs`: calls that overlap, files that rot, crashes | `ImageFormats` |
| `ImageLibraryProofs` | the inductive invariants of the library; what is listed and given out is what was imported, and what can be deployed is whole | `ImageLibrary` |
| `WinpeImage` | what the injection of the Agent changes in an image, and what the image then runs (no variables) | |
| `BootPackage` | the package root: selection from a medium, markers, scripts (no variables) | `WinpeImage` |
| `BootMedia` | the commands that change the package, one file operation per step | `BootPackage` |
| `BootMediaProofs` | the inductive invariant of the package and the commands, and what follows from it | `BootMedia` |
| `MC...` | instances for TLC | |

### JobRepository

The list of jobs is a function from ids to job records, because the code depends
on its order only when it picks the first claimable job and at most one is. Ids
and lease ids are UUIDs in the code; here job ids are drawn from `JobId` once
(`spent`) and the n-th lease is the number n (`issued`), so both are fresh. Each
operation of the code copies the list under the write lock, changes the copy,
writes the manifest and assigns; it is one action, and `Commit` has the four
outcomes of the write: written, an error after the file was truncated, and a crash
after or before the last byte. `Crash` and `Open` are the restart of the host.
`disk`/`intact` are the manifest. Stages, leases and expiries are kept exactly;
messages, percentages and fingerprints are not. The operator's `transition` leaves
the lease on the job, as the code does: most of the properties are about what that
must not allow.

`OperatorCall`, `AgentCall` and `InstallerCall` let anybody call anything with any
lease ever issued; `AgentExecution`, `InstallerDeployment` and `DeploymentClaims`
then replace them with the real callers.

### InstallerDeployment

A session and a request are records. A request holds its own copy (`binding`) of
the session it authenticated with, as the code's `SessionBinding` does, and each
action is what it does under one lock: `Discover` (job repository) then `Offer`
(session map); `Authenticate`; `BeginAuthorization`, `TakeLease` or
`FailAuthorization`, `HandOff`, `Undo`; `ReplayGuard`; `Report` then `Advance`;
`Conclude` then `Close`. Ids and tokens of sessions are one thing. `taken` and
`handed` are history variables: who took a lease, and to whom a storage
configuration was sent. Reads of media and of `user-data` change nothing and are
left out. The cap on sessions is in the model, but never reached at the bounds
below. `RestartControlPlane` waits for requests, as `stop` does for the server.

### AgentExecution

`Script` is the sequence of steps of `execute`, with the kind of work that follows
each report: a check, a child process under `run_checked` (`Watched`), or a stream
under `await_running` (`Awaited`). A call is sent, served (`Serve`, one repository
operation), and answered; `GiveUp` makes it fail for the agent at any point, and a
call that was not served yet may still be served later (`late`, `ServeLate`) or be
lost. The child may exit at any time while it runs; suspending it may fail.
`PowerOff` stops everything, and the agent boots again. `resumed` is a history
variable: the child was resumed while the job, in memory or in whatever manifest a
restart would read, had been made to run again.

### DeviceRegistry, AgentPresence and DeploymentClaims

The registry is the sequence of its records in the order of the code, because
lookups by address take the first match. `AgentPresence` adds the loop of
`main.rs`: register, heartbeat, claim, register again on any error. A registration
shows the enrollment token; `StartControlPlane` draws a new one, `SyncBootImage` puts it
into the boot image, and an agent has the one its machine booted with until it boots
again. Only whether a copy of the token is the current one is kept. Ids and device tokens
are drawn from those nobody holds, so behaviours are unbounded and liveness is
meaningful. `DeploymentClaims` splits `create_job`, `remove_image`,
`remove_device` and `claim_job` at every point where they release a lock or await,
with the mutation lock held where the code holds it (`Locked`).

### PartitionLayout

A plan is composed, submitted with a disk size, an image size and a raw payload
size, validated, and turned into script paragraphs, which DiskPart executes one by
one. DiskPart is external: it takes space for alignment before every partition,
has four entries in an MBR table, refuses a letter that is taken, and extends a
volume only into the space that follows it. `SatAdd` saturates at `MaxWord` where
core uses `saturating_add`; `RemainingSize` wraps where the agent uses plain
arithmetic in a release build. `RoomForAlignment` is what the 32 MiB of headroom are
for: one alignment for every letter a script can get to. Disk sizes are less than
`MaxWord` because the code divides a number of bytes by 2^20.

### PxeLeases and DhcpExchange

`PxeLeases` is the service: `Offers` is `allocate_lease`, `Assigns` and `Refuses` are
`assign_requested_lease`, `Answers` and `Absorbs` are one packet through
`process_dhcp`, and `Save` is the write that follows an answer (`saving` is the window
between them). A lease is its address and the ticks it has left; both functions drop
expired leases before they look at the table, so here a lease goes when it expires.
The table survives `StopService` and meets another pool at the next start; `Restart`
opens the file. `DhcpExchange` adds the machines, whose clients are external: discover,
request, use, renew, release, decline, and leave without a word. One packet is on
its way per machine, since a client drops answers to what it no longer asks. A
machine counts its lease from its request, so packets have an age. `unwritten` is a
history variable: the machines whose lease a restart forgot because it was not in the
file yet, or the write failed. The code answers before it writes, so these may share
an address with another machine; nobody else may. ProxyDHCP leases nothing.

### TftpTransfer and FileDelivery

A packet is its position in the file and carries it modulo `Modulus`; position 0 is
the option acknowledgement. A request is served, refused or fails before its first packet
(`Request`); a task that serves it sends its packet, waits for any datagram or the timeout,
and counts a try either way, as `send_tftp_with_ack` does: a stale or foreign datagram uses
up a try. Reading the file or sending may fail and ends the task (`Fail`). `Recorded` is what
`run_tftp` records of a task that ended: `boot_file_sent` for a transfer that was
acknowledged to its last packet, and for a request that was refused or malformed, because
`serve_tftp_request` returns `Ok` for it; `tftp_failed` for any other. `FileDelivery` states
both meanings of that record, and that only the first has delivered the file.

The network is a bag of datagrams per transfer, so they arrive in any order; it loses
some, and a timeout may come while an answer is on its way (`MaxFaults` bounds both). The
machine is external: it joins the transfer it hears first, repeats its request, answers
duplicates, refuses the packets of other transfers and may be reset. Datagrams older than
a round of block numbers do not arrive: with 16 bits that is half a megabyte later or more.

`met` is a history variable: what the tries of the last packet met; `early[t]` is another:
the timeouts of transfer t that came before a datagram on its way. Each makes the task
repeat its packet and leaves one answer too many, which ends a try of some later packet,
so late answers add up over a transfer and may use up all tries of one packet: the task then
abandons a machine that answers everything. `AbandonsOnlyUnanswered` says that it takes
at least `MaxTries` early timeouts of the same transfer for that; otherwise one of the
packet's tries met silence or a refusal. The run has more faults than tries, so both cases
occur in it.

### GhostImage, ImageFormats and ImageLibrary

A file is a sequence of tokens, its hash the tokens of its files one after another.
`GhostImage` models the four naming schemes for spans, case-insensitive names and
prefixes of five characters as the code compares them, and the decoder as far as
what it accepts: headers, blocks that go on in the next file, a zero length that ends the
data of a record with the rest of it unread, and the first byte of a length left over at
the end. A block is three tokens (the first byte of its length; the second with the first
half of its data; the rest), so a file can end in each of these places.
`ImageLibrary` splits import and preparation where the code leaves the lock: an import
copies and inspects unlocked and then commits under the write lock, where it may find
its content listed already; a removal commits and then deletes files; a preparation
takes the record, then checks and reads. `Locked` is the lock; `Rot` cuts the end of a
file or loses it, `FailWrite` is a write that fails, `Crash` and `Open` are a restart of the
host. `reverified` is a history variable: the images the operator had verified again
after their files were damaged (see the known limits). Linux assets, raw NTFS
partitions and whole files are given out through byte ranges (`parse_single_range`).
A folder is any finite set of files: nothing is assumed of what they hold or of the
numbers in their names. What the importer does with sets that are ambiguous, misnumbered,
mixed or cut is what `DeployableImagesAreWhole` is about. `FailWrite` covers the two ways in
which a commit fails under the lock, the rename of the staged directory and the write of
`images.json`; `FailOpen` is a restart that cannot write back the records it changed.

### WinpeImage, BootPackage and BootMedia

An image is a record of the four places that start programs in Windows PE
(`startnet.cmd`, `winpeshl.ini`, `Setup\CmdLine`, the saved shell), and what the
injection wrote. `Runs` is what a machine that boots it executes. Windows PE is
external and modelled from how the injection and its tests count on it. The two hosts
differ (DISM mounts on Windows, wimlib updates on macOS), so `HookShell` and
`KeepStartnet` do too. A package is its layout and flavour markers, scripts, boot
configuration and image; `BootMedia` runs the commands on it, one file operation per
step (`op[g].at`), with one command per group of buttons of the settings page in
flight. `vendor`, `disturbed`, `lost` and `owned` are history variables; `disturbed`
is set while an overlapped or failed synchronisation may have left an older token, and
cleared by the next good one.

## 3. Runs

| Run | Module | Shows | States |
|---|---|---|---|
| `job_repository` | `MCJobRepository` | the repository's invariants, one-way steps and refinement of `DeviceAssignment`, with storage faults | 340 000 |
| `installer_sessions` | `MCInstallerDeployment` | sessions under overlapping requests, crashes and restarts | 490 000 |
| `agent_execution` | `MCAgentExecution` | one agent, lossy network, pauses, power failures | 440 000 |
| `agent_cancellation` | `MCAgentExecution` | **violation**: cancellation does not reach the agent | |
| `partition_layout` | `MCPartitionLayout` | accepted plans are carried out to the end, and volumes are large enough | 7 200 000 |
| `agent_presence` | `MCAgentPresence` | tokens, inventory, and agents that come back or are turned away | 1 060 000 |
| `deployment_claims` | `MCDeploymentClaims` | references between stores, claims on current disks | 350 000 |
| `dhcp_exchange` | `MCDhcpExchange` | one user per address, and an address for every machine | 280 000 |
| `tftp_transfer` | `MCTftpTransfer` | refinement of `FileDelivery`, abandonment, termination | 1 010 000 |
| `image_library` | `MCImageLibrary` | listed, prepared and deployable images, with faults | 440 000 |
| `boot_media` | `MCBootMedia` | what the package boots, after any imports, starts, crashes | 900 000 |
| `boot_startnet` | `MCBootMedia` | **violation**: a second injection loses the vendor's startup script | |

Bounds, and why they are enough:

* `job_repository`: two jobs, two devices, two leases, clock 0..3 with an agent
  lease of 1 and an installer lease of 2. Two jobs are needed to compete for a
  device or share a lease, two leases for an attempt and its successor; the clock
  lets a lease expire, be renewed, and the next one expire. The symmetry of jobs
  and devices is sound: the run checks safety only and nothing names one of them.
* `installer_sessions`: one job, two sessions, two requests, two leases. Every race
  in the code is between two requests, with the operator, the clock or a restart
  between their steps; a second job would only meet them through the repository.
  One event stage stands for the stages that move neither session nor job.
* `agent_execution`: one machine, one job, two leases, one late call. Attempts
  under two leases and a call of the first that arrives during the second are what
  the properties need. Storage faults are off: with them every answer to the agent may be
  an error for ever, because the host cannot write, and no fairness excludes that; the
  agent then polls on beside a running child, and `PauseTakesEffect` fails. The safety
  properties do not need this: they are proved with and without storage faults.
* `agent_presence`: one machine with two adapters and one late call, and any number of
  starts of the control plane. Another machine has other addresses and meets the first
  nowhere in the registry. With more than one record (`MaxDevices`) no heartbeat reports
  another adapter, except one that is already late: enough for two records to come to have
  one address.
* `deployment_claims`: one job, two devices (a device removed and registered again
  is a new one), one image, two inventories that differ in their disk, two commands
  and one claim, two leases. Pairs of commands race; a claim races with heartbeats,
  commands and the job's own agent. Symmetry is over disks, commands and devices,
  and no liveness is checked.
* `dhcp_exchange`: two machines compete for three addresses; of the two pools one is too
  small for them, and each leaves leases outside the other. A lease lasts one tick, so
  it may end at any point of an exchange. The theorem covers longer leases.
* `partition_layout`: all plans of up to five of thirteen specs, with sizes scaled
  down and a word of 6 bits, so that sums overflow; five partitions are enough to
  exceed the four MBR entries and to put anything before or after the remainder. The
  theorems cover plans of any length, all sizes and all widths.
* `tftp_transfer`: two requests, so a repeated one competes with the first; files that
  are empty, end inside a block or fill the last one; block numbers modulo 3, the
  smallest modulus under which a packet, the one before and the one after differ, so
  that they wrap in a file of three packets; two tries (the code has four) and three
  faults, so that late answers can use up the tries of a packet. The theorems cover all of
  these values.
* `image_library`: every folder made of eleven files whose names get in each other's
  way, imported once, with the right spans, with a span of another image, with two spans
  under each other's number, and with one under two numbers; the images have a block that
  goes on in the next file, a length that does, and a zero length with something behind it; and two callers with a budget of calls over a Ghost, an ISO and
  a WIM image, two ids, three directories, two faults; the Ghost file of the latter has two
  blocks and no end record, so that it can be cut and still be decoded. Two overlapping
  calls are every race the code has, because a call takes one record. The theorems cover
  every folder and any number of callers, ids and directories. Symmetry is over callers and directories.
* `boot_media`: nine media, with every way an image starts programs, on each of seven
  directories that earlier versions leave, with four commands and a crash, one command
  at a time; with a fault or an overlap on a plain image; and five commands with two
  crashes on an image whose hive is hooked. Both hosts, an Agent upgrade, four sessions.

Deadlock checking is off in all runs: the host may have nothing to do once ids,
leases and time are used up, or an agent may have stopped.

### Fairness

* `FairDeploymentSpec`: a request that has arrived is served to its end. It runs on a
  blocking thread that nothing cancels.
* `FairExecutionSpec`: the agent always acts on an answer (it is a sequential
  program); a call is served if calls are made again and again (strong fairness),
  and answers arrive likewise. The network may fail for any finite time.
* `FairPresenceSpec`: the agent's loop goes on and a call that stays is served.
  `AgentsComeBack` is conditional on disturbances ending, so nothing is assumed of
  the network, the operator or the restarts of the control plane before. It promises
  nothing to an agent that must register with the enrollment token of an earlier start
  (`TurnedAway`): nothing makes that machine boot again.
* `FairExchangeSpec`: a machine goes on, the task finishes its packet, and a packet that
  stays in the socket's queue is received, however many others arrive (the queue is
  first in, first out). `MachinesGetAddresses` is conditional on losses, departures,
  crashes and stops ending, and on an exchange being shorter than a tick: a lease is at
  least a minute, an exchange takes milliseconds.

* `FairTftpSpec`: a task goes on (every wait ends with its timeout) and a packet that is
  not lost is taken. `TransfersEnd` needs nothing of the machine.

### Findings

1. **Cancellation** (`agent_cancellation`). A cancelled job's lease is refused, the
   control endpoint answers 403, and `run_checked` takes this for an outage and
   polls again without looking at its child. `DESIGN.md` promises that cancellation is
   cooperative and that a state other than running or paused stops the child; the
   endpoint never returns such a state.
2. **Startup script** (`boot_startnet`). On macOS a second injection into the same image
   copies the injected `startnet.cmd` over the vendor's saved one; the image then calls
   itself and never starts the vendor's programs. On Windows the copy is guarded.

### Known limits of the code

The models show these too; the properties are stated so as to say what holds beside
them.

* **Drive letters.** Data partitions without a letter all get D, and a Data partition may
  name S, the letter of the boot partition; DiskPart then stops on a clean disk
  (`LettersClash`).
* **Extension.** A plan whose remaining-space partition is followed by a fixed one passes
  validation, and extending it fails once the image has been applied (`RemainderIsLast`).
* **Device identity.** A heartbeat may give a record an address another record has; the
  next registration under it takes the first record (`agent_presence` has such states).
* **Device removal.** `remove_device` does not take the lock that `create_job` holds: an
  active job may lose its device. No machine is ever given such a job.
* **Enrollment.** Every start of the control plane makes a new enrollment token
  (`control_plane.rs:145`), and an agent reads its token only when its machine boots
  (`main.rs:265`). An agent that is still registered stays connected with its device token;
  one that must register again, because it was removed or a single call failed, is refused
  for ever (`control_plane.rs:304`) and retries until somebody boots its machine from a
  synchronised image.
* **TFTP.** Late answers add up, see `AbandonsOnlyUnanswered` above. A refused or malformed
  request is recorded as `boot_file_sent`, and shown as "Sent boot file ..." (`pxe.rs:5392`,
  `apps/desktop/i18n/locales/en-US.json:414`).
* **Images.** The header of a span names its image and not its place in it
  (`SpanReader::new`): spans of one image under each other's number, or one under two
  numbers, are taken for what their names say, and accepted if what they make decodes. A
  set cut exactly between two blocks is accepted, one that ends after the first byte of a
  length is, too (`crates/gho/src/lib.rs:219`), and what follows a zero length in a record is
  not read (`:224`). Accepted, too, is a Ghost file that
  lost its last blocks after the check of its hash: verifying the image again
  (`image_library.rs:706`) decodes what is left, and what is given out afterwards is shorter
  than what was imported; `PreparedIsWhatWasImported` leaves out such images (`reverified`). `open` clears
  `verified` when files are not there for the moment, and a second import returns the
  record as it is. Directories that no record names are not removed. An empty file is
  served with a length of one.
* **Boot package.** A crash between the dispatcher and its marker leaves a package that is
  not managed again until the next import; one between the two renames of a package leaves
  none, with the old one beside it (`DESIGN.md:428` calls the replacement atomic). Overlapping commands may leave the token of an earlier
  session in the image until the next synchronisation; so does a control plane that goes on
  when its synchronisation failed. While a native ISO is served, a synchronisation writes
  the script of a package that waits for its medium, and only the next start of PXE writes
  the one that boots the ISO. An Edgeless medium with a USM manager gets another boot
  configuration at the next start than at its import (`pxe.rs:3245` and `2322`); the instance
  has such a medium, and `StaysManageable` leaves its configuration out.
* **Documentation.** `README.md:133` and `CHANGELOG.md:52` of the repository say that GHO
  is not supported; the code imports, verifies and deploys it, as `DESIGN.md:19` says, and
  so do the models.

## 4. Proofs

`JobRepositoryProofs` proves, for all sets of jobs, devices and images, all lease
lengths and bounds, and with or without storage faults, that `JobsSpec` implies
`[]JobsTypeOK`, `[]OneActiveJobPerDevice`, `[]MemoryMatchesManifest`,
`[]InstallerAttemptIsBound` and `[]LeaseBelongsToOneJob`. The only assumption is
`RepositoryAssumption` (types of the constants). `JobsTypeOK` includes that a job without a
lease has no expiry left of one (`LeaseIsWhole`): releasing a lease takes two assignments.

None of these is inductive alone. The inductive invariant says of *both* lists, the
one in memory and the manifest, that they are well typed, that ids not spent are
absent, that active jobs have distinct devices, that Linux jobs are bound, and that
every lease on a job was issued and is on no other job; that an intact manifest
equals memory while the process runs; and that a manifest cut short holds nothing
and needs a storage fault. It must speak of the manifest because a crash and a
restart make it the list in memory, and of `spent` and `issued` because freshness is
what makes a new job or lease distinct. `CommitKeepsInv` says that if the next list is
good, so is whatever the write leaves; each operation then only has to show that
the list it writes is good, which depends on the job it changes alone.

The same module proves the four action properties:
`TerminalStaysTerminal`, `InstallerHandoffIsOneWay`, `EndedAttemptNeverResumes` and
`LiveLeaseIsNeverTakenOver`. `SlotUpdate` lists the five ways in which the code
replaces a job: delete it, move it by a guarded transition, touch its stage or
expiry, bind it to the next lease, end it. `CallShape` goes through all actions once
and shows that each is one of these, an insertion, or a step of the environment; the
properties then follow by cases on the five. They need the inductive invariant:
`issued` bounds the leases on jobs, Linux jobs are not paused, and an id that was not
spent is absent.

It also proves `JobsSpec => KeepsAssignments`. `OneActive` makes the
mapping (the active job of a device) a function of the list, so an update that keeps
its job active is a stutter, one that ends it is `Release`, an insertion is `Assign`,
and a write cut short is a stutter or `TurnDown` while the process lives, and
`LoseStore` when the process dies before a good write.

`NetworkBootProofs` proves `ExchangeSpec => []AddressHasOneUser` for all machines,
addresses, pools and lease lengths, from `LeasesAssumption` (pools are ranges of
addresses, as `validate_pxe_config` demands). `AddressHasOneUser` speaks of machines only and
is not inductive. `ExchangeInv` adds that live leases have distinct addresses, in the
table and in the file (a restart makes the one the other), and that a machine not in
`unwritten` has in the table a lease on the address it uses, with at least the ticks it
believes to have; an acknowledgement on its way counts like a machine that took it.
Each action touches the lease of one machine at most, except for time, which takes a
tick from both sides.

`DeploymentClaimsProofs` proves that `ClaimsSpec` implements `JobsSpec`: every step of
the composition is a step of the repository or leaves it alone, so all that was proved of
the repository holds in the composition. `ClaimsInv` adds what makes the races harmless:
the mutation lock has one holder; every job in memory and in the manifest names an image
of the library; a command about to enqueue has found its image there, and a command about
to remove an image has found no job that names it, and both still hold the lock. From it
follow `[]EveryJobHasItsImage` and, as `claim_job` compares the disk with the current
record when it leases, `LeasedOnCurrentDisk`, for any number of commands, claims, jobs,
images and devices.

The same module, which has the list of machines at hand, proves of `PresenceSpec`
`[]PresenceTypeOK` and `[]InventoryIsCurrent`, for any machines, adapters and number of late
calls. `PresenceInv` adds that every call reports an address and disks of its machine, and
that an agent whose registration was accepted was granted an id and a token.
`WithoutDevice` is what removing a record from the list leaves; with it `register`
keeps one record per device, and as `heartbeat` compares the token before it replaces the
inventory, what is on record came from the token's holder.

`NetworkBootProofs` also proves `TftpSpec => ImplementsDelivery`. `InStep` is the inductive
invariant: a task is at the machine's last packet or one ahead, packets on their way are at
most the task's, and answers at most the machine's last. A number that matches modulo
`Modulus` within a round is then the packet itself (`RoundIsEnough`), so the block
number's width does not matter as long as it is at least two. `PacketsOfFile` is the
arithmetic of the last, short packet: size \div BlockSize + 1 for every file. It proves
`[]TftpTypeOK` and, with no bound on the faults, `[]AbandonsOnlyUnanswered`. The latter
counts datagrams (`CountOf`, over the bags of the network): a transfer has at most as many
under way as it had early timeouts, and one more while its task waits, because a timeout
that comes with nothing on its way leaves nothing behind. A try that met neither
silence nor a refusal was ended by an answer to an earlier packet; these tries and the late
datagrams that are left together are no more than the early timeouts. If all tries of a
packet were, there were at least `MaxTries` of them.

`AgentExecutionProofs` proves of `ExecutionSpec`, for any jobs, machines, leases and number
of delayed calls, and with storage faults too, that it implements `JobsSpec`, and
`[]AgentTypeOK`, `[]RebootsOnlyOnRecord`, `ResumesOnlyWhenAsked` and
`ReportEndsOnlyFinishedWork`. A call that arrives late is any step of the repository its
words allow, so `ExecutionInv` speaks of what such a call can still say. `ConversationInv`:
every call ever made names a lease that was issued, and the one in progress fits the place
the agent is at. `ReportsAreOld`: no completion that is still on its way carries the lease
the agent works under, or is about to work under, because a lease in an answer is new
and a completion is the last an agent says of one. `SuccessIsOnRecord`: an accepted
completion is in the list a restart would read, too, as the save comes before the answer
and nothing leaves `succeeded` but a removal. `PauseIsHeld`: while the child is suspended,
the job does not run under the agent's lease, unless the operator resumed it or a restart
found a manifest that says so; and that is what `resumed` records.

`ImageLibraryProofs` proves of `LibrarySpec`, for every folder, any callers, ids and
directories and any number of faults, `[]LibraryTypeOK`, `[]ListedImagesKeepTheirFiles`
and `[]PreparedIsWhatWasImported`. `LibraryInv` speaks of both lists, the one in memory and
the manifest, because a restart makes the one the other. `ListsInv`: each is made of
records of the operator's files, with distinct ids, directories and files. `OwnInv`: a
directory is a listed image's or one call's, never two. `FilesInv`: what is in a directory
is a beginning of the file it was copied from, since files only ever lose their ends.
`CallsInv`: a call that writes holds the lock and its list is good; one that works with a
record it took earlier has a record of the same files as any image listed under that id.
From these, `IntactFiles`: the hash is as long as all files together, so if it is the
recorded one, no file has lost anything; an image that is checked and read is what was
imported. The recursive functions behind this, putting files one after another and leaving
an image out of a list, are reasoned about by induction on a set of numbers
(`Induction`), which follows from the least element of a well-founded relation.
`RequestedAssumption` gives the type of the byte ranges a machine asks for.

`DeployableAreWhole` proves `[]DeployableImagesAreWhole` for every folder. The property is
not inductive, because a record is verified before it is listed, stays verified while its
files are damaged, and is read back after a crash. `DiscoveryInv` therefore speaks of every
record that is in a list or in a call (`RecordsHeld`): its names are the primary and the
spans of the folder in the order of their numbers, and if it is verified and its files are
all there, those files were decoded. `NothingRecovers` carries it over the faults: what has
lost something never gets it back. `WholeImage` is the rest. The numbers of accepted spans
are 1 to their count, each once (`EachNumberOnce`), so the spans in their order are all
the candidates there are. Two primary files that could claim one name by a number
of as many digits begin alike (`OneClaim`), and such a set was refused. The headers were
compared, and a block that is read goes on inside its record, so none is cut by the end of the
stream.

`BootMediaProofs` proves of the boot package `[]BootTypeOK`, `[]StartsEverythingOnce`,
`[]StaysManageable` and `[]ServesTheSession`, for any media, packages left by earlier
versions, and number of versions, sessions, calls, overlaps, restarts and faults.
`ScenariosAssumption` says what an earlier version may leave (`Sound`: a dispatcher has the
script it falls back to, a native ISO its image). The argument has four parts.
`DigestsInv`: digests name no version the image has not got, so a step that trusts them
finds the current Agent. `OriginsInv`: on Windows, an image is its vendor's, or the
vendor's with the hooks any number of injections leave (`Hooked`), and what these start is
computed once (`HookedBoots`). `PackageInv`: an image that is away is held by a command that
will put it back, a dispatcher has its script, and what a command took from a package of a
medium still fits it; `KeptInv` is the part that says so of a package whose owner is a
medium. `ServeInv`: a synchronisation no command overlaps has the package to itself
(`AloneInv`), `PhaseInv` says how far it has come, and a service that runs has had
such a synchronisation last (`ServingInv`).

`PartitionLayoutProofs` proves `[]AcceptedPlansComplete` and `[]VolumesAreLargeEnough` of
`LayoutSpec`, for any specs, any sizes, any width of the arithmetic and plans of any
length, from `SizesAssumption` (types, and disks smaller than `MaxWord`) and
`RoomForAlignment`. Neither is inductive. `LayoutInv` adds that the volumes are the
beginning of an accepted plan, each of its planned size (`AsPlanned`), that no two have the
same letter (`LettersDiffer`), and that the plan was accepted if there is a volume.
`CapacityIsExact`: as the disk is smaller than the word at which additions saturate, none
did in a plan that passed; so the wrapping sums of the agent are the same numbers, and the
remaining partition has at least its minimum. `UsedIsExact`: the volumes have taken
their fixed sizes, the remainder if it was their turn, and an alignment each.
`LettersBoundThePlan`: a script stops at the first letter that is taken twice, so only as
many alignments count as there are letters, and `AlignmentFits` says they fit the
headroom. `EntriesFit`: in an MBR table the logical volumes come last and share an
entry. `TakenLettersClash` and `ExtendsTheLast` are the two ways a script may stop.

Checked by TLC only: liveness (`AuthorizationsEnd`, `PauseTakesEffect`, `AgentsComeBack`,
`MachinesGetAddresses`, `TransfersEnd`), because fairness is out of the prover's reach.

The library's induction theorems take an operator and cannot be used; where induction over
data is needed, it is over a set of numbers, which has a least element. The models have
no recursive operators.

## 5. Not modelled

* ProxyDHCP, which answers and keeps nothing; the list of discovered clients, which only
  the desktop shows; the extraction of UDF, ISO and FAT media; the encoding of packets.
* Decompression of Ghost blocks, the bytes of BCD hives, DISM, wimlib and `reg`: external,
  or functions of their input. What they do to an image is in `WinpeImage`.
* The byte-level download of an image and the rate limits of the control plane.
* `devices.json` as a file: it is written in place like `jobs.json` and `images.json`, and a
  crash inside the write leaves a list that does not parse; the torn manifest is modelled for
  those two only. Torn writes of other single files.
* The two renames that put a refreshed native ISO in place (`pxe.rs:3668`) are one step.
* Activity history, hardware inventory, the WinPE progress window, the privileged helper,
  and the wording of messages: pure input and output, or state that only the desktop shows.
* Job options other than the partition plan, Linux storage document rendering, and disk
  fingerprints beyond "matches or not" are abstracted.

## 6. Plan

Done: the repository first, because every other component acts through it; then the
two ways a job is executed; then the layouts, where a mistake costs a disk; then the
registry and the commands around them; then network boot: leases, transfers and the
boot package; then the image library.

What would come next:

1. `ProxyDhcp` and the list of discovered clients beside `DhcpExchange`.
2. The Linux storage guard of `crates/core`: which disks a storage document may name.
