------------------------- MODULE InstallerDeployment -------------------------
(***************************************************************************)
(* crates/service/src/installer_deployment.rs: the sessions through which  *)
(* a Linux installer is offered a waiting job, is authorised to write its  *)
(* disk, and reports back.                                                 *)
(*                                                                         *)
(* Requests run on blocking threads.  A request takes the lock of the      *)
(* sessions and the lock of the job repository one at a time, never both,  *)
(* so between its steps other requests, the operator and the clock act.    *)
(* Each step below is what a request does under one lock; the binding that *)
(* authenticate_session copies out is the request's own and may be stale.  *)
(*                                                                         *)
(* Abstractions: session ids and tokens are one thing (a caller presents   *)
(* the token of the session it was offered); rendered documents are left   *)
(* out; a refused request is a step that only ends the request.            *)
(***************************************************************************)
EXTENDS JobRepository, FiniteSets

CONSTANTS
  SessionId,      \* the ids Uuid::new_v4 will draw for sessions
  Request,        \* the requests that may be in progress at a time
  OfferTtl,       \* OFFER_TTL_MINUTES, in clock ticks
  MaxSessions,    \* MAX_INSTALLER_SESSIONS
  EventStage      \* the stages installers report, of InstallerEventStage

ASSUME InstallerAssumption ==
  /\ None \notin SessionId
  /\ OfferTtl \in Nat /\ MaxSessions \in Nat
  /\ EventStage \subseteq InstallerEventStage

VARIABLES
  sessions,   \* the session map
  requests,   \* the requests in progress
  taken,      \* history: the session whose guard took each lease
  handed      \* history: the <<session, lease>> autoinstalls sent

installerVars == <<sessions, requests, taken, handed>>
deploymentVars == <<repositoryVars, installerVars>>

\* InstallerSessionPhase, with "none" for an id not drawn yet and "purged" for
\* one that is no longer in the map.
LivePhase == {"Offered", "Authorizing", "HandedOff", "AwaitingFirstBoot", "Completed"}
Phase == LivePhase \cup {"none", "purged"}

\* What a request came for.
Errand == {"guard", "failed", "firstBoot"} \cup EventStage

Session == [phase : Phase, job : JobId \cup {None}, device : DeviceId \cup {None},
            image : ImageId \cup {None}, expires : Nat, lease : Nat]

\* A request: where it is, what it came for, and its SessionBinding.
RequestRecord ==
  [at : {"idle", "offering", "authenticated", "authorizing", "leased", "undoing",
         "advancing", "closing"},
   errand : Errand \cup {None}, session : SessionId \cup {None},
   binding : Session]

NoSession == [phase |-> "none", job |-> None, device |-> None, image |-> None,
              expires |-> 0, lease |-> NoLease]

Gone == [NoSession EXCEPT !.phase = "purged"]

Idle == [at |-> "idle", errand |-> None, session |-> None, binding |-> NoSession]

InMap(s) == sessions[s].phase \in LivePhase

\* The shape of the state.  A session past its authorization carries the lease
\* its later requests need (lease_id is Some).
InstallerTypeOK ==
  /\ sessions \in [SessionId -> Session]
  /\ \A s \in SessionId :
       sessions[s].phase \in {"HandedOff", "AwaitingFirstBoot", "Completed"} =>
         sessions[s].lease # NoLease
  /\ requests \in [Request -> RequestRecord]
  /\ taken \in [1..MaxLeases -> SessionId \cup {None}]
  /\ handed \in SUBSET (SessionId \X (1..MaxLeases))

DeploymentInit ==
  /\ JobsInit
  /\ sessions = [s \in SessionId |-> NoSession]
  /\ requests = [r \in Request |-> Idle]
  /\ taken = [l \in 1..MaxLeases |-> None]
  /\ handed = {}

------------------------------------------------------------------------------
(* Building blocks. *)

\* A repository call made by a request returned Ok.
Stored == up' /\ intact'

At(r, place)   == requests[r].at = place
GoTo(r, place) == requests' = [requests EXCEPT ![r].at = place]
Finish(r)      == requests' = [requests EXCEPT ![r] = Idle]

\* The sessions when the map holding them is dropped.
Dropped(ss) == [s \in SessionId |-> IF ss[s] = NoSession THEN NoSession ELSE Gone]

\* What a repository step leaves of sessions and requests: if the process dies
\* in it, both are lost with it.
KeptBy(next) ==
  /\ requests' = IF up' THEN next ELSE [r \in Request |-> Idle]
  /\ sessions' = IF up' THEN sessions ELSE Dropped(sessions)

\* set_session_phase: compare and swap under the lock.
SetPhase(s, expected, next) ==
  sessions' = IF sessions[s].phase = expected
              THEN [sessions EXCEPT ![s].phase = next] ELSE sessions

------------------------------------------------------------------------------
(* discover: a machine boots and asks what to run. *)

\* The checks and mark_installer_booting, which repeats the one on the job's
\* state under the repository's lock.
Discover(r, j, d, i) ==
  /\ At(r, "idle")
  /\ MarkInstallerBooting(j, d, i)
  /\ KeptBy([requests EXCEPT ![r] =
               IF Stored
               THEN [Idle EXCEPT !.at = "offering", !.binding =
                       [NoSession EXCEPT !.job = j, !.device = d, !.image = i]]
               ELSE Idle])
  /\ UNCHANGED <<taken, handed>>

\* Slip: the sessions of an earlier discovery are left in the map.
ExpiredOnly(j) == [s \in SessionId |->
  IF InMap(s) /\ sessions[s].expires < now
  THEN Gone ELSE sessions[s]]

\* The two retains: expired sessions and the other sessions of the job go.
WithoutSessionsOf(j) == [s \in SessionId |->
  IF InMap(s) /\ (sessions[s].expires < now \/ sessions[s].job = j)
  THEN Gone ELSE sessions[s]]

\* The job's state is not looked at again.
Offer(r) ==
  LET kept == WithoutSessionsOf(requests[r].binding.job)
  IN  /\ At(r, "offering")
      /\ IF Cardinality({s \in SessionId : kept[s].phase \in LivePhase}) >= MaxSessions
         THEN sessions' = kept
         ELSE \E s \in SessionId :
                /\ sessions[s].phase = "none"
                /\ sessions' = [kept EXCEPT ![s] =
                     [requests[r].binding EXCEPT !.phase = "Offered",
                                                 !.expires = now + OfferTtl]]
      /\ Finish(r)
      /\ UNCHANGED <<repositoryVars, taken, handed>>

------------------------------------------------------------------------------
(* authorize_guard: the installer asks for its storage configuration. *)

\* authenticate_session, which every session request starts with.
Authenticate(r, s, errand) ==
  /\ At(r, "idle")
  /\ InMap(s) /\ sessions[s].expires >= now
  /\ requests' = [requests EXCEPT ![r] =
                    [at |-> "authenticated", errand |-> errand, session |-> s,
                     binding |-> [sessions[s] EXCEPT !.expires = 0]]]
  /\ UNCHANGED <<repositoryVars, sessions, taken, handed>>

Asks(r, errands) == At(r, "authenticated") /\ requests[r].errand \in errands
BoundIn(r, phases) == requests[r].binding.phase \in phases

BeginAuthorization(r) ==
  LET s == requests[r].session
  IN  /\ Asks(r, {"guard"}) /\ BoundIn(r, {"Offered"})
      /\ SetPhase(s, "Offered", "Authorizing")
      /\ IF sessions[s].phase = "Offered" THEN GoTo(r, "authorizing") ELSE Finish(r)
      /\ UNCHANGED <<repositoryVars, taken, handed>>

\* perform_initial_guard_authorization up to the repository call: the job, the
\* media and the disks match, and the lease is taken.
TakeLease(r) ==
  LET b == requests[r].binding
  IN  /\ At(r, "authorizing")
      /\ LeaseInstallerJob(b.job, b.device, b.image)
      /\ KeptBy([requests EXCEPT
                   ![r].at = IF Stored THEN "leased" ELSE "undoing",
                   ![r].binding.lease = issued',
                   ![r].binding.expires = now + InstallerLease])
      /\ taken' = IF Stored THEN [taken EXCEPT ![issued'] = requests[r].session]
                            ELSE taken
      /\ UNCHANGED handed

\* Slip: a refused guard leaves the session as it is.
FailAuthorizationForGood(r) ==
  /\ At(r, "authorizing")
  /\ Finish(r)
  /\ UNCHANGED <<repositoryVars, sessions, taken, handed>>

\* The job, the media or the disks do not match, or the repository refuses.
FailAuthorization(r) ==
  /\ At(r, "authorizing")
  /\ GoTo(r, "undoing")
  /\ UNCHANGED <<repositoryVars, sessions, taken, handed>>

\* Slip: the phase moves on and the lease stays with the request.
HandOffWithoutLease(r) ==
  LET s == requests[r].session
  IN  /\ At(r, "leased")
      /\ SetPhase(s, "Authorizing", "HandedOff")
      /\ Finish(r)
      /\ UNCHANGED <<repositoryVars, taken, handed>>

\* The rest of it: the session is handed the lease and the installer its
\* storage configuration, unless the session is gone by now.
HandOff(r) ==
  LET s == requests[r].session
      b == requests[r].binding
  IN  /\ At(r, "leased")
      /\ IF sessions[s].phase = "Authorizing"
         THEN /\ sessions' = [sessions EXCEPT ![s] =
                    [b EXCEPT !.phase = "HandedOff"]]
              /\ handed' = handed \cup {<<s, b.lease>>}
              /\ Finish(r)
         ELSE /\ GoTo(r, "undoing")
              /\ UNCHANGED <<sessions, handed>>
      /\ UNCHANGED <<repositoryVars, taken>>

\* authorize_guard puts the session of a failed authorization back.
Undo(r) ==
  /\ At(r, "undoing")
  /\ SetPhase(requests[r].session, "Authorizing", "Offered")
  /\ Finish(r)
  /\ UNCHANGED <<repositoryVars, taken, handed>>

HandedOffPhase == {"HandedOff", "AwaitingFirstBoot"}

\* Slip: any running attempt of the job will do.
ReplayMatchesAnyAttempt(b) == jobs[b.job].state = "running"

\* replay_guard_authorization: the job runs, under the session's lease.
ReplayMatches(b) ==
  /\ jobs[b.job].state = "running"
  /\ jobs[b.job].lease = b.lease

ReplayGuard(r) ==
  LET b == requests[r].binding
  IN  /\ Asks(r, {"guard"}) /\ BoundIn(r, HandedOffPhase)
      /\ ReplayMatches(b)
      /\ handed' = handed \cup {<<requests[r].session, jobs[b.job].lease>>}
      /\ Finish(r)
      /\ UNCHANGED <<repositoryVars, sessions, taken>>

\* The session is busy or over, the attempt is, or the disks do not match.
RefuseGuard(r) ==
  /\ Asks(r, {"guard"}) /\ ~BoundIn(r, {"Offered"})
  /\ Finish(r)
  /\ UNCHANGED <<repositoryVars, sessions, taken, handed>>

------------------------------------------------------------------------------
(* report_event and complete_first_boot. *)

Report(r) ==
  LET b     == requests[r].binding
      stage == requests[r].errand
  IN  /\ Asks(r, EventStage) /\ BoundIn(r, HandedOffPhase)
      /\ ReportInstallerProgress(b.job, b.device, b.lease, stage)
      /\ KeptBy([requests EXCEPT ![r] =
                   IF Stored /\ stage = "AwaitingFirstBoot" /\ b.phase = "HandedOff"
                   THEN [@ EXCEPT !.at = "advancing"] ELSE Idle])
      /\ UNCHANGED <<taken, handed>>

Advance(r) ==
  /\ At(r, "advancing")
  /\ SetPhase(requests[r].session, "HandedOff", "AwaitingFirstBoot")
  /\ Finish(r)
  /\ UNCHANGED <<repositoryVars, taken, handed>>

\* A failure event or the first-boot callback ends the job ...
Conclude(r) ==
  LET b == requests[r].binding
  IN  /\ Asks(r, {"failed", "firstBoot"}) /\ BoundIn(r, HandedOffPhase)
      /\ CompleteInstaller(b.job, b.device, b.lease, requests[r].errand = "firstBoot")
      /\ KeptBy([requests EXCEPT ![r] =
                   IF Stored THEN [@ EXCEPT !.at = "closing"] ELSE Idle])
      /\ UNCHANGED <<taken, handed>>

\* ... and then the session (mark_session_completed, which does not compare).
Close(r) ==
  LET s == requests[r].session
  IN  /\ At(r, "closing")
      /\ sessions' = IF InMap(s) THEN [sessions EXCEPT ![s].phase = "Completed"]
                                 ELSE sessions
      /\ Finish(r)
      /\ UNCHANGED <<repositoryVars, taken, handed>>

\* The session was never handed off or is over, or the repository refuses.
RefuseReport(r) ==
  LET b == requests[r].binding
      e == requests[r].errand
  IN  /\ At(r, "authenticated") /\ e # "guard"
      /\ \/ ~BoundIn(r, HandedOffPhase)
         \/ ~HoldsInstallerLease(b.job, b.device, b.lease)
         \/ e \in EventStage /\ StageRank(e) < StageRank(jobs[b.job].stage)
      /\ Finish(r)
      /\ UNCHANGED <<repositoryVars, sessions, taken, handed>>

------------------------------------------------------------------------------
(* The operator and the environment. *)

\* Linux jobs only: no other job meets a session.
Operate ==
  /\ \E j \in JobId :
       \/ \E d \in DeviceId, i \in ImageId : Insert(j, "InstallLinux", d, i, "waiting")
       \/ \E next \in JobState : Transition(j, next)
       \/ Remove(j)
  /\ KeptBy(requests)
  /\ UNCHANGED <<taken, handed>>

\* ControlPlane::stop waits for the requests in progress; the next start makes
\* an empty session map.
RestartControlPlane ==
  /\ \A r \in Request : At(r, "idle")
  /\ sessions' = Dropped(sessions)
  /\ UNCHANGED <<repositoryVars, requests, taken, handed>>

Surroundings ==
  \/ Environment /\ KeptBy(requests) /\ UNCHANGED <<taken, handed>>
  \/ RestartControlPlane

Arrive(r) ==
  \/ \E j \in JobId, d \in DeviceId, i \in ImageId : Discover(r, j, d, i)
  \/ \E s \in SessionId, errand \in Errand : Authenticate(r, s, errand)

\* What a request does by itself once it has arrived.
Serve(r) ==
  \/ Offer(r)
  \/ BeginAuthorization(r) \/ TakeLease(r) \/ FailAuthorization(r)
  \/ HandOff(r) \/ Undo(r) \/ ReplayGuard(r) \/ RefuseGuard(r)
  \/ Report(r) \/ Advance(r) \/ Conclude(r) \/ Close(r) \/ RefuseReport(r)

DeploymentNext ==
  \/ Operate
  \/ Surroundings
  \/ \E r \in Request : Arrive(r) \/ Serve(r)

DeploymentSpec == DeploymentInit /\ [][DeploymentNext]_deploymentVars

\* A request that has arrived runs to its end on its blocking thread, whatever
\* its client does.
FairDeploymentSpec ==
  DeploymentSpec /\ \A r \in Request : WF_deploymentVars(Serve(r))

------------------------------------------------------------------------------
(* Properties. *)

\* A job has at most one session in the map, however many discoveries of its
\* machine overlap.
OneSessionPerJob ==
  \A s, t \in SessionId :
    InMap(s) /\ InMap(t) /\ sessions[s].job = sessions[t].job => s = t

\* The storage configuration of an attempt is only ever sent through the session
\* whose own guard took the attempt's lease: not through a session whose attempt
\* was superseded by a guard that was still in progress.
AutoinstallGoesToTheTaker ==
  \A sent \in handed : taken[sent[2]] = sent[1]

\* A Linux job succeeds only when its attempt was authorised, that is, when the
\* storage configuration was sent to the session that took the lease.
SucceedsOnlyWhenAuthorized ==
  [][\A j \in JobId :
       jobs[j].state = "running" /\ jobs'[j].state = "succeeded" =>
         <<taken[jobs[j].lease], jobs[j].lease>> \in handed]_deploymentVars

\* An authorization in progress ends: its session is handed off, offered again
\* or gone, so no session answers AuthorizationInProgress for ever.
AuthorizationsEnd ==
  \A s \in SessionId :
    sessions[s].phase = "Authorizing" ~> sessions[s].phase # "Authorizing"
==============================================================================
