----------------------- MODULE InstallerDeploymentProofs -----------------------
(***************************************************************************)
(* Theorems about InstallerDeployment, for any sets of jobs, devices,      *)
(* images, sessions and requests, and with or without storage faults.      *)
(*                                                                         *)
(* The argument.  Requests hold stale copies of their sessions.  What such *)
(* a copy says of the job, and of the lease once the session was handed    *)
(* off, stays true for good: a session never changes its job, is never     *)
(* handed off twice, and a lease is taken once.  SentInv adds that such a  *)
(* lease was sent, and the repository's own invariant then says which step *)
(* can end a job well.                                                     *)
(***************************************************************************)
EXTENDS InstallerDeployment, JobRepositoryProofs

HandedPhase == {"HandedOff", "AwaitingFirstBoot", "Completed"}

\* The guard of session s took the lease l.
Took(s, l) == l \in 1..issued /\ taken[l] = s

\* A binding that a repository call can be made with.
Names(b) == b.job \in JobId /\ b.device \in DeviceId /\ b.image \in ImageId

SessionOK(s) ==
  /\ InMap(s) => Names(sessions[s])
  /\ sessions[s].phase \in HandedPhase => Took(s, sessions[s].lease)

\* What the copy of a session says of the session it was made of.
CopyOK(s, b) ==
  /\ s \in SessionId /\ sessions[s].phase # "none"
  /\ InMap(s) => sessions[s].job = b.job
  /\ b.phase \in HandedPhase =>
       /\ Took(s, b.lease)
       /\ InMap(s) => sessions[s].phase \in HandedPhase

RequestOK(q) ==
  /\ q.at # "idle" => Names(q.binding)
  /\ q.at \notin {"idle", "offering"} => CopyOK(q.session, q.binding)
  /\ q.at \in {"authorizing", "leased", "undoing"} => q.binding.phase = "Offered"
  /\ q.at = "leased" => Took(q.session, q.binding.lease)
  /\ q.at \in {"advancing", "closing"} => q.binding.phase \in HandedPhase

SessionTypes ==
  /\ sessions \in [SessionId -> Session]
  /\ requests \in [Request -> RequestRecord]
  /\ taken \in [1..MaxLeases -> SessionId \cup {None}]
  /\ handed \subseteq SessionId \X (1..MaxLeases)
  /\ now \in Nat /\ issued \in Nat /\ issued <= MaxLeases

SessionInv ==
  /\ SessionTypes
  /\ \A s \in SessionId : SessionOK(s)
  /\ OneSessionPerJob
  /\ \A r \in Request : RequestOK(requests[r])
  /\ \A h \in handed : Took(h[1], h[2])

------------------------------------------------------------------------------
(* The requests run the repository. *)

LEMMA IdleType == Idle \in RequestRecord /\ Idle.at = "idle"
  BY DEF Idle, RequestRecord, NoSession, Session, Phase, NoLease

LEMMA Counters ==
  ASSUME now \in Nat, issued \in Nat, issued <= MaxLeases, [JobsNext]_repositoryVars
  PROVE  /\ now' \in Nat /\ issued' \in Nat /\ issued' <= MaxLeases
         /\ issued <= issued'
<1>0. MaxLeases \in Nat
  BY RepositoryAssumption
<1> DEFINE Drawn == /\ issued < MaxLeases /\ issued' = issued + 1
                    /\ UNCHANGED now
<1>1. ASSUME OperatorCall PROVE UNCHANGED <<issued, now>>
  BY <1>1, Zenon DEF OperatorCall, Insert, Transition, Remove
<1>2. ASSUME AgentCall PROVE UNCHANGED <<issued, now>> \/ Drawn
  BY <1>2, Zenon DEF AgentCall, LeaseForDevice, ReportProgress, Complete, RenewControlLease
<1>3. ASSUME InstallerCall PROVE UNCHANGED <<issued, now>> \/ Drawn
  BY <1>3, Zenon DEF InstallerCall, MarkInstallerBooting, LeaseInstallerJob,
                     ReportInstallerProgress, CompleteInstaller
<1>4. ASSUME Environment PROVE UNCHANGED issued /\ now' \in {now, now + 1}
  BY <1>4 DEF Environment, Tick, Crash, Open
<1>5. ASSUME UNCHANGED repositoryVars PROVE UNCHANGED <<issued, now>>
  BY <1>5 DEF repositoryVars
<1>6. \/ UNCHANGED <<issued, now>> \/ Drawn
      \/ UNCHANGED issued /\ now' \in {now, now + 1}
  BY <1>1, <1>2, <1>3, <1>4, <1>5 DEF JobsNext
<1> QED
  BY <1>0, <1>6

\* What a request does to the repository, it may do.
LEMMA RequestCalls ==
  ASSUME SessionInv, NEW r \in Request, Arrive(r) \/ Serve(r)
  PROVE  [JobsNext]_repositoryVars
<1> DEFINE b == requests[r].binding
<1>1. requests[r] \in RequestRecord /\ RequestOK(requests[r])
  BY DEF SessionInv, SessionTypes
<1>2. ASSUME NEW j \in JobId, NEW d \in DeviceId, NEW i \in ImageId, Discover(r, j, d, i)
      PROVE  [JobsNext]_repositoryVars
  BY <1>2 DEF Discover, JobsNext, InstallerCall
<1>3. ASSUME TakeLease(r)
      PROVE  [JobsNext]_repositoryVars
  <2>1. Names(b)
    BY <1>1, <1>3 DEF TakeLease, At, RequestOK
  <2> QED
    BY <1>3, <2>1 DEF TakeLease, Names, JobsNext, InstallerCall
<1>4. ASSUME Report(r) \/ Conclude(r)
      PROVE  [JobsNext]_repositoryVars
  <2>1. Names(b) /\ b.lease \in 1..issued
    BY <1>1, <1>4 DEF Report, Conclude, Asks, At, BoundIn, RequestOK, CopyOK, Took,
                      HandedOffPhase, HandedPhase
  <2>2. CASE Report(r)
    <3>1. requests[r].errand \in InstallerEventStage
      BY <2>2, InstallerAssumption DEF Report, Asks
    <3> QED
      BY <2>1, <2>2, <3>1 DEF Report, Names, JobsNext, InstallerCall
  <2>3. CASE Conclude(r)
    BY <2>1, <2>3 DEF Conclude, Names, JobsNext, InstallerCall
  <2> QED
    BY <1>4, <2>2, <2>3
<1>5. ASSUME \/ \E s \in SessionId, errand \in Errand : Authenticate(r, s, errand)
             \/ Offer(r) \/ BeginAuthorization(r) \/ FailAuthorization(r) \/ HandOff(r)
             \/ Undo(r) \/ ReplayGuard(r) \/ RefuseGuard(r) \/ Advance(r) \/ Close(r)
             \/ RefuseReport(r)
      PROVE  UNCHANGED repositoryVars
  BY <1>5 DEF Authenticate, Offer, BeginAuthorization, FailAuthorization, HandOff, Undo,
              ReplayGuard, RefuseGuard, Advance, Close, RefuseReport
<1> QED
  BY <1>2, <1>3, <1>4, <1>5 DEF Arrive, Serve

\* Every step of the deployment is a step of the repository or leaves it alone.
LEMMA DeploymentStep ==
  ASSUME SessionInv, [DeploymentNext]_deploymentVars
  PROVE  [JobsNext]_repositoryVars
<1>1. CASE Operate
  BY <1>1 DEF Operate, JobsNext, OperatorCall, Operation
<1>2. CASE Surroundings
  BY <1>2 DEF Surroundings, RestartControlPlane, JobsNext
<1>3. CASE UNCHANGED deploymentVars
  BY <1>3 DEF deploymentVars
<1> QED
  BY <1>1, <1>2, <1>3, RequestCalls DEF DeploymentNext

------------------------------------------------------------------------------
(* What any step leaves true of sessions, of leases and of stale copies. *)

\* A session that was ever offered stays as it is, leaves the map for good, or
\* moves on for the same job, never back from being handed off.
GoesOn(s) ==
  \/ sessions'[s] = sessions[s]
  \/ sessions'[s].phase = "purged"
  \/ /\ InMap(s) /\ InMap(s)'
     /\ sessions'[s].job = sessions[s].job /\ Names(sessions'[s])
     /\ sessions[s].phase \in HandedPhase => sessions'[s].phase \in HandedPhase
     /\ sessions'[s].phase \in HandedPhase => Took(s, sessions'[s].lease)

SessionsGoOn == \A s \in SessionId : sessions[s].phase = "none" \/ GoesOn(s)

NoneOffered == \A s \in SessionId : InMap(s)' => InMap(s)

TakersStay ==
  /\ issued \in Nat /\ issued' \in Nat /\ issued <= issued'
  /\ \A l \in 1..issued : taken'[l] = taken[l]

LEMMA TookStays ==
  ASSUME TakersStay, NEW s, NEW l, l \in 1..issued, taken[l] = s
  PROVE  l \in 1..issued' /\ taken'[l] = s
  BY DEF TakersStay

LEMMA SessionsKept ==
  ASSUME SessionsGoOn, NoneOffered, TakersStay,
         \A s \in SessionId : SessionOK(s), OneSessionPerJob
  PROVE  (\A s \in SessionId : SessionOK(s))' /\ OneSessionPerJob'
<1>1. ASSUME NEW s \in SessionId
      PROVE  SessionOK(s)'
  <2>1. CASE InMap(s)'
    <3>1. InMap(s) /\ sessions[s].phase # "none" /\ GoesOn(s) /\ SessionOK(s)
      BY <2>1 DEF NoneOffered, SessionsGoOn, InMap, LivePhase
    <3>2. Names(sessions[s])'
      BY <2>1, <3>1 DEF GoesOn, SessionOK, Names, InMap, LivePhase
    <3>3. ASSUME sessions'[s].phase \in HandedPhase
          PROVE  Took(s, sessions[s].lease)'
      <4>1. Took(s, sessions'[s].lease)
        BY <2>1, <3>1, <3>3 DEF GoesOn, SessionOK, InMap, LivePhase
      <4> QED
        BY <4>1, TookStays DEF Took
    <3> QED
      BY <3>2, <3>3 DEF SessionOK
  <2>2. CASE ~InMap(s)'
    BY <2>2 DEF SessionOK, InMap, LivePhase, HandedPhase
  <2> QED
    BY <2>1, <2>2
<1>2. ASSUME NEW s \in SessionId, InMap(s)'
      PROVE  InMap(s) /\ sessions'[s].job = sessions[s].job
  BY <1>2 DEF NoneOffered, SessionsGoOn, GoesOn, InMap, LivePhase
<1>3. OneSessionPerJob'
  BY <1>2 DEF OneSessionPerJob
<1> QED
  BY <1>1, <1>3

LEMMA CopyKept ==
  ASSUME SessionsGoOn, TakersStay, NEW s, NEW b, CopyOK(s, b)
  PROVE  CopyOK(s, b)'
<1>1. s \in SessionId /\ sessions[s].phase # "none" /\ GoesOn(s)
  BY DEF CopyOK, SessionsGoOn
<1>2. /\ sessions'[s].phase # "none"
      /\ InMap(s)' => InMap(s) /\ sessions'[s].job = sessions[s].job
      /\ InMap(s)' /\ sessions[s].phase \in HandedPhase => sessions'[s].phase \in HandedPhase
  BY <1>1 DEF GoesOn, InMap, LivePhase
<1>3. b.phase \in HandedPhase => b.lease \in 1..issued' /\ taken'[b.lease] = s
  BY TookStays DEF CopyOK, Took
<1> QED
  BY <1>1, <1>2, <1>3 DEF CopyOK, Took

\* The request goes on with the session and the copy it has.
Follows(r) ==
  LET q == requests[r]
      p == requests'[r]
  IN  /\ p.session = q.session /\ p.binding = q.binding
      /\ q.at \in {"idle", "offering"} => p.at = q.at
      /\ p.at \in {"authorizing", "leased", "undoing"} => q.binding.phase = "Offered"
      /\ p.at = "leased" => q.at = "leased"
      /\ p.at \in {"advancing", "closing"} => q.binding.phase \in HandedPhase

LEMMA RequestKept ==
  ASSUME SessionsGoOn, TakersStay, NEW r \in Request, RequestOK(requests[r]),
         requests'[r] = Idle \/ Follows(r)
  PROVE  RequestOK(requests[r])'
<1>1. CASE requests'[r] = Idle
  BY <1>1 DEF RequestOK, Idle
<1>2. CASE Follows(r)
  <2> DEFINE q == requests[r]
             p == requests'[r]
  <2>1. p.at # "idle" => Names(p.binding)
    BY <1>2 DEF Follows, RequestOK
  <2>2. ASSUME p.at \notin {"idle", "offering"}
        PROVE  CopyOK(requests[r].session, requests[r].binding)'
    <3>1. CopyOK(q.session, q.binding)
      BY <1>2, <2>2 DEF Follows, RequestOK
    <3> QED
      BY <3>1, <1>2, CopyKept DEF Follows, CopyOK, Took, InMap
  <2>3. ASSUME p.at = "leased"
        PROVE  Took(requests[r].session, requests[r].binding.lease)'
    <3>1. Took(q.session, q.binding.lease)
      BY <1>2, <2>3 DEF Follows, RequestOK
    <3> QED
      BY <3>1, <1>2, TookStays DEF Follows, Took
  <2>4. /\ p.at \in {"authorizing", "leased", "undoing"} => p.binding.phase = "Offered"
        /\ p.at \in {"advancing", "closing"} => p.binding.phase \in HandedPhase
    BY <1>2 DEF Follows
  <2> QED
    BY <2>1, <2>2, <2>3, <2>4 DEF RequestOK, Names
<1> QED
  BY <1>1, <1>2

RequestsGoOn ==
  \A r \in Request : RequestOK(requests[r])' \/ requests'[r] = Idle \/ Follows(r)

\* Whoever is sent a storage configuration took its lease.
HandedToTakers ==
  \A h \in handed' :
    \/ h \in handed
    \/ h \in SessionId \X (1..MaxLeases) /\ Took(h[1], h[2])'

\* A step in which sessions only go on, and requests follow theirs or end, keeps
\* the invariant.
LEMMA StepKeepsInv ==
  ASSUME SessionInv, SessionTypes', SessionsGoOn, NoneOffered, TakersStay,
         RequestsGoOn, HandedToTakers
  PROVE  SessionInv'
<1>1. (\A s \in SessionId : SessionOK(s))' /\ OneSessionPerJob'
  BY SessionsKept DEF SessionInv
<1>2. ASSUME NEW r \in Request PROVE RequestOK(requests[r])'
  BY RequestKept DEF SessionInv, RequestsGoOn
<1>3. ASSUME NEW h \in handed' PROVE Took(h[1], h[2])'
  <2>1. CASE h \in handed
    <3>1. Took(h[1], h[2])
      BY <2>1 DEF SessionInv
    <3> QED
      BY <3>1, TookStays DEF Took
  <2> QED
    BY <2>1 DEF HandedToTakers
<1> QED
  BY <1>1, <1>2, <1>3 DEF SessionInv

------------------------------------------------------------------------------
(* The building blocks of the steps. *)

\* Requests that end, go on with the copy they have, or stay.
LEMMA SameFollows ==
  ASSUME SessionInv, NEW r \in Request, requests'[r] = requests[r]
  PROVE  Follows(r)
  BY DEF SessionInv, RequestOK, Follows

LEMMA FinishFollows ==
  ASSUME SessionInv, NEW r \in Request, Finish(r)
  PROVE  /\ requests' \in [Request -> RequestRecord]
         /\ RequestsGoOn
<1>1. requests \in [Request -> RequestRecord]
  BY DEF SessionInv, SessionTypes
<1>2. /\ requests' \in [Request -> RequestRecord]
      /\ \A x \in Request : requests'[x] = Idle \/ requests'[x] = requests[x]
  BY <1>1, IdleType DEF Finish
<1> QED
  BY <1>2, SameFollows DEF RequestsGoOn

LEMMA GoToFollows ==
  ASSUME SessionInv, NEW r \in Request, NEW place \in {"authorizing", "undoing"},
         GoTo(r, place), requests[r].at \notin {"idle", "offering"},
         requests[r].binding.phase = "Offered"
  PROVE  /\ requests' \in [Request -> RequestRecord]
         /\ RequestsGoOn
<1>1. requests \in [Request -> RequestRecord]
  BY DEF SessionInv, SessionTypes
<1>2. /\ requests'[r] = [requests[r] EXCEPT !.at = place]
      /\ \A x \in Request \ {r} : requests'[x] = requests[x]
  BY <1>1 DEF GoTo
<1>3. requests' \in [Request -> RequestRecord]
  <2>1. [requests[r] EXCEPT !.at = place] \in RequestRecord
    BY <1>1 DEF RequestRecord
  <2> QED
    BY <1>1, <2>1 DEF GoTo
<1>4. Follows(r)
  <2>1. requests[r] \in RequestRecord
    BY <1>1
  <2>2. /\ requests'[r].at = place /\ requests'[r].session = requests[r].session
        /\ requests'[r].binding = requests[r].binding
    BY <1>2, <2>1 DEF RequestRecord
  <2> QED
    BY <2>2 DEF Follows
<1> QED
  BY <1>2, <1>3, <1>4, SameFollows DEF RequestsGoOn

\* Sessions that stay, are dropped, or change their phase.
LEMMA SameGoOn ==
  ASSUME UNCHANGED sessions
  PROVE  SessionsGoOn /\ NoneOffered
  BY DEF SessionsGoOn, NoneOffered, GoesOn, InMap

LEMMA DroppedGoOn ==
  ASSUME SessionInv, sessions' = Dropped(sessions)
  PROVE  /\ SessionsGoOn /\ NoneOffered
         /\ sessions' \in [SessionId -> Session]
<1>1. NoSession \in Session /\ Gone \in Session /\ Gone.phase = "purged"
      /\ NoSession.phase = "none"
  BY DEF NoSession, Gone, Session, Phase, NoLease
<1>2. ASSUME NEW s \in SessionId
      PROVE  \/ sessions[s] = NoSession /\ sessions'[s] = NoSession
             \/ sessions'[s] = Gone
  BY DEF Dropped
<1>3. sessions' \in [SessionId -> Session]
  BY <1>1 DEF Dropped
<1> QED
  BY <1>1, <1>2, <1>3 DEF SessionsGoOn, NoneOffered, GoesOn, InMap, LivePhase

LEMMA PhaseGoesOn ==
  ASSUME SessionInv, NEW s \in SessionId, NEW n \in LivePhase,
         sessions' = [sessions EXCEPT ![s].phase = n],
         InMap(s), n \in HandedPhase <=> sessions[s].phase \in HandedPhase
  PROVE  /\ SessionsGoOn /\ NoneOffered
         /\ sessions' \in [SessionId -> Session]
<1>1. sessions \in [SessionId -> Session] /\ SessionOK(s)
  BY DEF SessionInv, SessionTypes
<1>2. sessions[s] \in Session
  BY <1>1
<1>3. [sessions[s] EXCEPT !.phase = n] \in Session
  BY <1>2 DEF Session, Phase
<1>4. sessions'[s] = [sessions[s] EXCEPT !.phase = n]
      /\ \A t \in SessionId \ {s} : sessions'[t] = sessions[t]
  BY <1>1
<1>5. sessions' \in [SessionId -> Session]
  BY <1>1, <1>3
<1>6. /\ sessions'[s].phase = n /\ sessions'[s].job = sessions[s].job
      /\ sessions'[s].device = sessions[s].device
      /\ sessions'[s].image = sessions[s].image
      /\ sessions'[s].lease = sessions[s].lease
  BY <1>2, <1>4 DEF Session
<1>7. GoesOn(s)
  BY <1>1, <1>6 DEF GoesOn, SessionOK, Names, InMap
<1> QED
  BY <1>4, <1>5, <1>6, <1>7 DEF SessionsGoOn, NoneOffered, GoesOn, InMap

LEMMA SetPhaseGoesOn ==
  ASSUME SessionInv, NEW s \in SessionId, NEW e \in LivePhase, NEW n \in LivePhase,
         SetPhase(s, e, n), n \in HandedPhase <=> e \in HandedPhase
  PROVE  /\ SessionsGoOn /\ NoneOffered
         /\ sessions' \in [SessionId -> Session]
<1>1. CASE sessions[s].phase = e
  BY <1>1, PhaseGoesOn DEF SetPhase, InMap
<1>2. CASE sessions[s].phase # e
  BY <1>2, SameGoOn DEF SetPhase, SessionInv, SessionTypes
<1> QED
  BY <1>1, <1>2

\* A step that leaves the repository and the history of its leases alone.
LEMMA QuietStep ==
  ASSUME SessionInv, UNCHANGED repositoryVars, UNCHANGED taken,
         sessions' \in [SessionId -> Session], requests' \in [Request -> RequestRecord],
         SessionsGoOn, NoneOffered,
         RequestsGoOn, HandedToTakers
  PROVE  SessionInv'
<1>1. TakersStay
  BY DEF TakersStay, SessionInv, SessionTypes, repositoryVars
<1>2. SessionTypes'
  BY DEF SessionInv, SessionTypes, HandedToTakers, repositoryVars
<1> QED
  BY <1>1, <1>2, StepKeepsInv

------------------------------------------------------------------------------
(* The steps of a request. *)

\* What the invariant says of a request and of the session it works for.
LEMMA RequestFacts ==
  ASSUME SessionInv, NEW r \in Request
  PROVE  /\ requests[r] \in RequestRecord /\ RequestOK(requests[r])
         /\ requests \in [Request -> RequestRecord]
         /\ sessions \in [SessionId -> Session]
         /\ requests[r].at \notin {"idle", "offering"} => requests[r].session \in SessionId
  BY DEF SessionInv, SessionTypes, RequestOK, CopyOK

LEMMA RefusalsKeepInv ==
  ASSUME SessionInv, NEW r \in Request,
         FailAuthorization(r) \/ RefuseGuard(r) \/ RefuseReport(r)
  PROVE  SessionInv'
<1>1. UNCHANGED repositoryVars /\ UNCHANGED sessions /\ UNCHANGED taken /\ UNCHANGED handed
  BY DEF FailAuthorization, RefuseGuard, RefuseReport
<1>2. /\ requests' \in [Request -> RequestRecord]
      /\ RequestsGoOn
  <2>1. CASE FailAuthorization(r)
    BY <2>1, RequestFacts, GoToFollows DEF FailAuthorization, At, RequestOK
  <2>2. CASE RefuseGuard(r) \/ RefuseReport(r)
    BY <2>2, FinishFollows DEF RefuseGuard, RefuseReport
  <2> QED
    BY <2>1, <2>2
<1>3. HandedToTakers
  BY <1>1 DEF HandedToTakers
<1> QED
  BY <1>1, <1>2, <1>3, SameGoOn, QuietStep, RequestFacts

LEMMA PhaseMovesKeepInv ==
  ASSUME SessionInv, NEW r \in Request,
         BeginAuthorization(r) \/ Undo(r) \/ Advance(r) \/ Close(r)
  PROVE  SessionInv'
<1> DEFINE s == requests[r].session
<1>1. UNCHANGED repositoryVars /\ UNCHANGED taken /\ UNCHANGED handed
  BY DEF BeginAuthorization, Undo, Advance, Close
<1>2. /\ requests' \in [Request -> RequestRecord]
      /\ RequestsGoOn
  <2>1. CASE BeginAuthorization(r) /\ sessions[s].phase = "Offered"
    BY <2>1, RequestFacts, GoToFollows DEF BeginAuthorization, Asks, At, BoundIn, RequestOK
  <2>2. CASE ~(BeginAuthorization(r) /\ sessions[s].phase = "Offered")
    BY <2>2, FinishFollows DEF BeginAuthorization, Undo, Advance, Close
  <2> QED
    BY <2>1, <2>2
<1>3. requests[r].at \notin {"idle", "offering"} /\ s \in SessionId
  BY RequestFacts DEF BeginAuthorization, Undo, Advance, Close, Asks, At
<1>4. SessionsGoOn /\ NoneOffered /\ sessions' \in [SessionId -> Session]
  <2>1. CASE BeginAuthorization(r)
    BY <2>1, <1>3, SetPhaseGoesOn DEF BeginAuthorization, LivePhase, HandedPhase
  <2>2. CASE Undo(r)
    BY <2>2, <1>3, SetPhaseGoesOn DEF Undo, LivePhase, HandedPhase
  <2>3. CASE Advance(r)
    BY <2>3, <1>3, SetPhaseGoesOn DEF Advance, LivePhase, HandedPhase
  <2>4. CASE Close(r) /\ InMap(s)
    <3>1. sessions[s].phase \in HandedPhase
      BY <2>4, RequestFacts DEF Close, At, RequestOK, CopyOK
    <3> QED
      BY <2>4, <3>1, <1>3, PhaseGoesOn DEF Close, LivePhase, HandedPhase
  <2>5. CASE Close(r) /\ ~InMap(s)
    BY <2>5, SameGoOn, RequestFacts DEF Close
  <2> QED
    BY <2>1, <2>2, <2>3, <2>4, <2>5
<1>5. HandedToTakers
  BY <1>1 DEF HandedToTakers
<1> QED
  BY <1>1, <1>2, <1>4, <1>5, QuietStep

LEMMA AuthenticateKeepsInv ==
  ASSUME SessionInv, NEW r \in Request, NEW s \in SessionId, NEW errand \in Errand,
         Authenticate(r, s, errand)
  PROVE  SessionInv'
<1> DEFINE c == [sessions[s] EXCEPT !.expires = 0]
           q == [at |-> "authenticated", errand |-> errand, session |-> s, binding |-> c]
<1>1. UNCHANGED repositoryVars /\ UNCHANGED sessions /\ UNCHANGED taken /\ UNCHANGED handed /\ InMap(s)
      /\ requests' = [requests EXCEPT ![r] = q]
  BY DEF Authenticate
<1>2. sessions[s] \in Session /\ SessionOK(s)
  BY DEF SessionInv, SessionTypes
<1>3. c \in Session /\ c.phase = sessions[s].phase /\ c.job = sessions[s].job
      /\ c.device = sessions[s].device /\ c.image = sessions[s].image
      /\ c.lease = sessions[s].lease
  BY <1>2 DEF Session
<1> HIDE DEF c
<1>4. q \in RequestRecord
  BY <1>3 DEF RequestRecord
<1>5. requests' \in [Request -> RequestRecord] /\ requests'[r] = q
      /\ \A x \in Request \ {r} : requests'[x] = requests[x]
  BY <1>1, <1>4, RequestFacts
<1>6. RequestOK(requests[r])'
  <2>1. CopyOK(s, c) /\ Names(c)
    BY <1>1, <1>2, <1>3 DEF CopyOK, SessionOK, InMap, LivePhase, Names
  <2>2. UNCHANGED <<sessions, taken, issued>>
    BY <1>1 DEF repositoryVars
  <2> QED
    BY <1>5, <2>1, <2>2 DEF RequestOK, CopyOK, Names, Took, InMap
<1>7. RequestsGoOn /\ HandedToTakers
  BY <1>1, <1>5, <1>6, SameFollows DEF RequestsGoOn, HandedToTakers
<1> QED
  BY <1>1, <1>5, <1>7, SameGoOn, QuietStep, RequestFacts

\* A copy of a session put into the map.
LEMMA CopyFields ==
  ASSUME NEW b \in Session, Names(b), NEW p \in Phase, NEW n,
         n = [b EXCEPT !.phase = p]
  PROVE  n \in Session /\ n.phase = p /\ n.job = b.job /\ n.lease = b.lease /\ Names(n)
  BY DEF Session, Names

LEMMA HandOffKeepsInv ==
  ASSUME SessionInv, NEW r \in Request, HandOff(r)
  PROVE  SessionInv'
<1> DEFINE s == requests[r].session
           b == requests[r].binding
           n == [b EXCEPT !.phase = "HandedOff"]
<1>1. /\ UNCHANGED repositoryVars /\ UNCHANGED taken
      /\ requests[r].at = "leased"
  BY DEF HandOff, At
<1>2. /\ b \in Session /\ b.phase = "Offered" /\ Names(b) /\ CopyOK(s, b)
      /\ s \in SessionId /\ Took(s, b.lease)
  BY <1>1, RequestFacts DEF RequestRecord, RequestOK
<1>3. CASE sessions[s].phase = "Authorizing"
  <2>1. /\ sessions' = [sessions EXCEPT ![s] = n]
        /\ handed' = handed \cup {<<s, b.lease>>}
        /\ Finish(r)
    BY <1>3 DEF HandOff
  <2>2. /\ n \in Session /\ n.phase = "HandedOff" /\ n.job = b.job /\ n.lease = b.lease
        /\ Names(n)
    <3>1. "HandedOff" \in Phase
      BY DEF Phase, LivePhase
    <3>2. n = [b EXCEPT !.phase = "HandedOff"]
      OBVIOUS
    <3> HIDE DEF n
    <3> QED
      BY <1>2, <3>1, <3>2, CopyFields
  <2> HIDE DEF n
  <2>3. /\ sessions' \in [SessionId -> Session] /\ sessions'[s] = n
        /\ \A t \in SessionId \ {s} : sessions'[t] = sessions[t]
    BY <1>2, <2>1, <2>2, RequestFacts
  <2>4. SessionsGoOn /\ NoneOffered
    BY <1>2, <1>3, <2>2, <2>3
       DEF SessionsGoOn, NoneOffered, GoesOn, InMap, LivePhase, HandedPhase, CopyOK
  <2>5. HandedToTakers
    <3>1. UNCHANGED <<taken, issued>>
      BY <1>1 DEF repositoryVars
    <3>2. issued \in Nat /\ issued <= MaxLeases /\ MaxLeases \in Nat
      BY RepositoryAssumption DEF SessionInv, SessionTypes
    <3>3. <<s, b.lease>> \in SessionId \X (1..MaxLeases)
      BY <1>2, <3>2 DEF Took
    <3> QED
      BY <1>2, <2>1, <3>1, <3>3 DEF HandedToTakers, Took
  <2> QED
    BY <1>1, <2>1, <2>3, <2>4, <2>5, FinishFollows, QuietStep
<1>4. CASE sessions[s].phase # "Authorizing"
  <2>1. UNCHANGED sessions /\ UNCHANGED handed /\ GoTo(r, "undoing")
    BY <1>4 DEF HandOff
  <2>2. HandedToTakers
    BY <2>1 DEF HandedToTakers
  <2>3. requests' \in [Request -> RequestRecord] /\ RequestsGoOn
    BY <1>1, <1>2, <2>1, GoToFollows
  <2> QED
    BY <1>1, <2>1, <2>2, <2>3, SameGoOn, RequestFacts, QuietStep
<1> QED
  BY <1>3, <1>4

LEMMA ReplayKeepsInv ==
  ASSUME SessionInv, NEW r \in Request, ReplayGuard(r)
  PROVE  SessionInv'
<1> DEFINE s == requests[r].session
           b == requests[r].binding
<1>1. /\ UNCHANGED repositoryVars /\ UNCHANGED sessions /\ UNCHANGED taken /\ Finish(r)
      /\ handed' = handed \cup {<<s, b.lease>>}
      /\ requests[r].at = "authenticated" /\ b.phase \in HandedPhase
  BY DEF ReplayGuard, ReplayMatches, Asks, At, BoundIn, HandedOffPhase, HandedPhase
<1>2. s \in SessionId /\ Took(s, b.lease)
  BY <1>1, RequestFacts DEF RequestOK, CopyOK
<1>3. HandedToTakers
  <2>1. UNCHANGED <<taken, issued>>
    BY <1>1 DEF repositoryVars
  <2>2. issued \in Nat /\ issued <= MaxLeases /\ MaxLeases \in Nat
    BY RepositoryAssumption DEF SessionInv, SessionTypes
  <2>3. <<s, b.lease>> \in SessionId \X (1..MaxLeases)
    BY <1>2, <2>2 DEF Took
  <2> QED
    BY <1>1, <1>2, <2>1, <2>3 DEF HandedToTakers, Took
<1> QED
  BY <1>1, <1>3, FinishFollows, SameGoOn, RequestFacts, QuietStep

\* The purge, and the new session of a job that has none left.
LEMMA OfferKeepsInv ==
  ASSUME SessionInv, NEW r \in Request, Offer(r)
  PROVE  SessionInv'
<1> DEFINE b == requests[r].binding
           kept == WithoutSessionsOf(b.job)
           n == [b EXCEPT !.phase = "Offered", !.expires = now + OfferTtl]
<1>1. /\ UNCHANGED repositoryVars /\ UNCHANGED taken /\ UNCHANGED handed /\ Finish(r)
      /\ requests[r].at = "offering"
      /\ \/ sessions' = kept
         \/ \E s \in SessionId : sessions[s].phase = "none"
                                 /\ sessions' = [kept EXCEPT ![s] = n]
  BY DEF Offer, At
<1>2. b \in Session /\ Names(b) /\ now + OfferTtl \in Nat
  BY <1>1, RequestFacts, InstallerAssumption
     DEF SessionInv, SessionTypes, RequestRecord, RequestOK
<1>3. n \in Session /\ n.phase = "Offered" /\ n.job = b.job /\ Names(n)
  <2>1. PICK p \in Phase : p = "Offered"
    BY DEF Phase, LivePhase
  <2>2. PICK e \in Nat : e = now + OfferTtl
    BY <1>2
  <2>3. n = [b EXCEPT !.phase = p, !.expires = e]
    BY <2>1, <2>2
  <2> HIDE DEF n
  <2>4. n \in Session /\ n.phase = p /\ n.job = b.job /\ Names(n)
    BY <1>2, <2>3 DEF Session, Names
  <2> QED
    BY <2>1, <2>4
<1>4. Gone \in Session /\ Gone.phase = "purged"
  BY DEF NoSession, Gone, Session, Phase, NoLease
<1>5. kept \in [SessionId -> Session]
  BY <1>4, RequestFacts DEF WithoutSessionsOf
<1>6. \A s \in SessionId :
        \/ kept[s] = sessions[s] /\ (InMap(s) => sessions[s].job # b.job)
        \/ kept[s] = Gone /\ InMap(s)
  BY DEF WithoutSessionsOf
<1> HIDE DEF n, kept
<1>7. HandedToTakers /\ requests' \in [Request -> RequestRecord] /\ RequestsGoOn
  BY <1>1, FinishFollows DEF HandedToTakers
<1>8. CASE sessions' = kept
  <2>1. SessionsGoOn /\ NoneOffered
    BY <1>4, <1>6, <1>8 DEF SessionsGoOn, NoneOffered, GoesOn, InMap, LivePhase
  <2> QED
    BY <1>1, <1>5, <1>7, <1>8, <2>1, QuietStep
<1>9. ASSUME NEW s \in SessionId, sessions[s].phase = "none",
             sessions' = [kept EXCEPT ![s] = n]
      PROVE  SessionInv'
  <2>1. /\ sessions' \in [SessionId -> Session] /\ sessions'[s] = n
        /\ \A t \in SessionId \ {s} : sessions'[t] = kept[t]
    BY <1>3, <1>5, <1>9
  <2>2. SessionsGoOn
    BY <1>4, <1>6, <1>9, <2>1 DEF SessionsGoOn, GoesOn, InMap
  <2>3. TakersStay /\ SessionTypes'
    BY <1>1, <1>7, <2>1
       DEF TakersStay, SessionInv, SessionTypes, HandedToTakers, repositoryVars
  <2>4. \A t \in SessionId : t # s => (InMap(t)' => InMap(t) /\ sessions'[t] = sessions[t]
                                                  /\ sessions[t].job # b.job)
    BY <1>4, <1>6, <2>1 DEF InMap, LivePhase
  <2>5. OneSessionPerJob'
    BY <1>3, <2>1, <2>4 DEF SessionInv, OneSessionPerJob
  <2>6. ASSUME NEW t \in SessionId PROVE SessionOK(t)'
    <3>1. CASE t = s
      BY <1>3, <2>1, <3>1 DEF SessionOK, Names, HandedPhase
    <3>2. CASE t # s /\ InMap(t)'
      <4>1. SessionOK(t) /\ sessions'[t] = sessions[t] /\ InMap(t)
        BY <2>4, <3>2 DEF SessionInv
      <4> QED
        BY <2>3, <4>1, TookStays DEF SessionOK, Names, Took
    <3>3. CASE t # s /\ ~InMap(t)'
      BY <3>3 DEF SessionOK, InMap, LivePhase, HandedPhase
    <3> QED
      BY <3>1, <3>2, <3>3
  <2>7. ASSUME NEW x \in Request PROVE RequestOK(requests[x])'
    BY <1>7, <2>2, <2>3, RequestKept DEF SessionInv, RequestsGoOn
  <2>8. ASSUME NEW h \in handed' PROVE Took(h[1], h[2])'
    <3>1. Took(h[1], h[2])
      BY <1>1, <2>8 DEF SessionInv
    <3> QED
      BY <2>3, <3>1, TookStays DEF Took
  <2> QED
    BY <2>3, <2>5, <2>6, <2>7, <2>8 DEF SessionInv
<1> QED
  BY <1>1, <1>8, <1>9

------------------------------------------------------------------------------
(* The steps that go through the repository. *)

LEMMA KeptGoOn ==
  ASSUME SessionInv, sessions' = IF up' THEN sessions ELSE Dropped(sessions)
  PROVE  /\ SessionsGoOn /\ NoneOffered
         /\ sessions' \in [SessionId -> Session]
<1>1. CASE up'
  BY <1>1, SameGoOn DEF SessionInv, SessionTypes
<1>2. CASE ~up'
  BY <1>2, DroppedGoOn
<1> QED
  BY <1>1, <1>2

LEMMA RepositoryStepKeepsInv ==
  ASSUME SessionInv, [JobsNext]_repositoryVars, UNCHANGED taken, UNCHANGED handed,
         sessions' \in [SessionId -> Session], requests' \in [Request -> RequestRecord],
         SessionsGoOn, NoneOffered, RequestsGoOn
  PROVE  SessionInv'
<1>1. /\ now' \in Nat /\ issued' \in Nat /\ issued' <= MaxLeases
      /\ issued \in Nat /\ issued <= issued'
  BY Counters DEF SessionInv, SessionTypes
<1>2. TakersStay
  BY <1>1 DEF TakersStay
<1>3. SessionTypes'
  BY <1>1 DEF SessionInv, SessionTypes
<1>4. HandedToTakers
  BY DEF HandedToTakers
<1> QED
  BY <1>2, <1>3, <1>4, StepKeepsInv

\* The operator and the environment.
LEMMA OutsideKeepsInv ==
  ASSUME SessionInv, Operate \/ Surroundings \/ UNCHANGED deploymentVars
  PROVE  SessionInv'
<1>1. [JobsNext]_repositoryVars
  BY DeploymentStep DEF DeploymentNext
<1>2. UNCHANGED taken /\ UNCHANGED handed
  BY Zenon DEF Operate, Surroundings, RestartControlPlane, deploymentVars, installerVars
<1>3. /\ \/ KeptBy(requests)
         \/ sessions' = Dropped(sessions) /\ UNCHANGED requests
         \/ UNCHANGED sessions /\ UNCHANGED requests
  BY Zenon DEF Operate, Surroundings, RestartControlPlane, deploymentVars, installerVars
<1>4. SessionsGoOn /\ NoneOffered /\ sessions' \in [SessionId -> Session]
  BY <1>3, KeptGoOn, DroppedGoOn, SameGoOn DEF KeptBy, SessionInv, SessionTypes
<1>5. requests \in [Request -> RequestRecord]
  BY DEF SessionInv, SessionTypes
<1>6. UNCHANGED requests \/ requests' = [x \in Request |-> Idle]
  BY <1>3 DEF KeptBy
<1>7. requests' \in [Request -> RequestRecord]
  BY <1>5, <1>6, IdleType
<1>8. RequestsGoOn
  BY <1>6, SameFollows DEF RequestsGoOn
<1> QED
  BY <1>1, <1>2, <1>4, <1>7, <1>8, RepositoryStepKeepsInv

\* What a discovery leaves for the offer that follows it.
OfferingRequest(b) == [at |-> "offering", errand |-> None, session |-> None, binding |-> b]

LEMMA OfferingType ==
  ASSUME NEW b \in Session
  PROVE  OfferingRequest(b) \in RequestRecord
  BY DEF OfferingRequest, RequestRecord

LEMMA DiscoverKeepsInv ==
  ASSUME SessionInv, NEW r \in Request, NEW j \in JobId, NEW d \in DeviceId,
         NEW i \in ImageId, Discover(r, j, d, i)
  PROVE  SessionInv'
<1> DEFINE q == [Idle EXCEPT !.at = "offering", !.binding =
                   [NoSession EXCEPT !.job = j, !.device = d, !.image = i]]
           p == IF Stored THEN q ELSE Idle
<1>1. [JobsNext]_repositoryVars
  BY RequestCalls DEF Arrive
<1>2. /\ UNCHANGED taken /\ UNCHANGED handed
      /\ sessions' = IF up' THEN sessions ELSE Dropped(sessions)
      /\ requests' = IF up' THEN [requests EXCEPT ![r] = p] ELSE [x \in Request |-> Idle]
  BY DEF Discover, KeptBy
<1>3. /\ p \in RequestRecord
      /\ p = Idle \/ (p.at = "offering" /\ Names(p.binding))
  <2> DEFINE b == [NoSession EXCEPT !.job = j, !.device = d, !.image = i]
  <2>1. b \in Session /\ Names(b)
    BY DEF NoSession, Session, Phase, NoLease, Names
  <2>2. q = [Idle EXCEPT !.at = "offering", !.binding = b]
    OBVIOUS
  <2> HIDE DEF b, q
  <2>3. q = OfferingRequest(b)
    BY <2>2 DEF Idle, OfferingRequest
  <2>4. q \in RequestRecord /\ q.at = "offering" /\ q.binding = b
    BY <2>1, <2>3, OfferingType DEF OfferingRequest
  <2> QED
    BY <2>1, <2>4, IdleType
<1> HIDE DEF p
<1>4. /\ requests' \in [Request -> RequestRecord]
      /\ \A x \in Request : x # r => requests'[x] = requests[x] \/ requests'[x] = Idle
      /\ requests'[r] = p \/ requests'[r] = Idle
  BY <1>2, <1>3, IdleType, RequestFacts
<1>5. RequestOK(requests[r])' \/ requests'[r] = Idle
  BY <1>3, <1>4 DEF RequestOK, Names
<1>6. RequestsGoOn
  BY <1>4, <1>5, SameFollows DEF RequestsGoOn
<1> QED
  BY <1>1, <1>2, <1>4, <1>6, KeptGoOn, RepositoryStepKeepsInv

\* A report or a conclusion that was stored sends the request on to its session.
LEMMA OnwardKeepsInv ==
  ASSUME SessionInv, NEW r \in Request, NEW place \in {"advancing", "closing"}, NEW p,
         p = Idle \/ p = [requests[r] EXCEPT !.at = place],
         [JobsNext]_repositoryVars, KeptBy([requests EXCEPT ![r] = p]),
         UNCHANGED taken, UNCHANGED handed,
         requests[r].at = "authenticated", requests[r].binding.phase \in HandedPhase
  PROVE  SessionInv'
<1>1. /\ sessions' = IF up' THEN sessions ELSE Dropped(sessions)
      /\ requests' = IF up' THEN [requests EXCEPT ![r] = p] ELSE [x \in Request |-> Idle]
  BY DEF KeptBy
<1>2. [requests[r] EXCEPT !.at = place] \in RequestRecord
  BY RequestFacts DEF RequestRecord
<1>3. p \in RequestRecord
  BY <1>2, IdleType
<1>4. /\ requests' \in [Request -> RequestRecord]
      /\ \A x \in Request : x # r => requests'[x] = requests[x] \/ requests'[x] = Idle
      /\ requests'[r] = p \/ requests'[r] = Idle
  BY <1>1, <1>3, IdleType, RequestFacts
<1>5. requests'[r] = Idle \/ Follows(r)
  <2>1. CASE requests'[r] = [requests[r] EXCEPT !.at = place]
    <3>1. requests[r] \in RequestRecord
      BY RequestFacts
    <3>2. /\ requests'[r].at = place /\ requests'[r].session = requests[r].session
          /\ requests'[r].binding = requests[r].binding
      BY <2>1, <3>1 DEF RequestRecord
    <3> QED
      BY <3>2 DEF Follows
  <2> QED
    BY <1>4, <2>1
<1>6. RequestsGoOn
  BY <1>4, <1>5, SameFollows DEF RequestsGoOn
<1> QED
  BY <1>1, <1>4, <1>6, KeptGoOn, RepositoryStepKeepsInv

LEMMA ReportKeepsInv ==
  ASSUME SessionInv, NEW r \in Request, Report(r) \/ Conclude(r)
  PROVE  SessionInv'
<1>1. [JobsNext]_repositoryVars
  BY RequestCalls DEF Serve
<1>2. /\ UNCHANGED taken /\ UNCHANGED handed
      /\ requests[r].at = "authenticated" /\ requests[r].binding.phase \in HandedPhase
  BY DEF Report, Conclude, Asks, At, BoundIn, HandedOffPhase, HandedPhase
<1>3. \E place \in {"advancing", "closing"} :
        \E p \in {Idle, [requests[r] EXCEPT !.at = place]} :
          KeptBy([requests EXCEPT ![r] = p])
  <2>1. CASE Report(r)
    <3> DEFINE p == IF Stored /\ requests[r].errand = "AwaitingFirstBoot"
                              /\ requests[r].binding.phase = "HandedOff"
                    THEN [requests[r] EXCEPT !.at = "advancing"] ELSE Idle
    <3>1. KeptBy([requests EXCEPT ![r] = p])
      BY <2>1 DEF Report
    <3>2. p \in {Idle, [requests[r] EXCEPT !.at = "advancing"]}
      OBVIOUS
    <3> HIDE DEF p
    <3> QED
      BY <3>1, <3>2
  <2>2. CASE Conclude(r)
    <3> DEFINE p == IF Stored THEN [requests[r] EXCEPT !.at = "closing"] ELSE Idle
    <3>1. KeptBy([requests EXCEPT ![r] = p])
      BY <2>2 DEF Conclude
    <3>2. p \in {Idle, [requests[r] EXCEPT !.at = "closing"]}
      OBVIOUS
    <3> HIDE DEF p
    <3> QED
      BY <3>1, <3>2
  <2> QED
    BY <2>1, <2>2
<1> QED
  BY <1>1, <1>2, <1>3, OnwardKeepsInv

LEMMA TakeLeaseKeepsInv ==
  ASSUME SessionInv, NEW r \in Request, TakeLease(r)
  PROVE  SessionInv'
<1> DEFINE q == requests[r]
<1>1. [JobsNext]_repositoryVars
  BY RequestCalls DEF Serve
<1>2. /\ now \in Nat /\ now' \in Nat /\ issued \in Nat /\ issued' \in Nat
      /\ issued' <= MaxLeases /\ issued <= issued' /\ MaxLeases \in Nat
  BY <1>1, Counters, RepositoryAssumption DEF SessionInv, SessionTypes
<1>3. issued' = issued + 1 /\ UNCHANGED handed /\ q.at = "authorizing"
  BY DEF TakeLease, LeaseInstallerJob, At
<1>4. PICK e \in Nat : e = now + InstallerLease
  BY <1>2, RepositoryAssumption
<1>5. PICK place \in {"leased", "undoing"} :
        /\ place = IF Stored THEN "leased" ELSE "undoing"
  BY DEF Stored
<1>6. KeptBy([requests EXCEPT ![r].at = place, ![r].binding.lease = issued',
                              ![r].binding.expires = e])
  BY <1>4, <1>5 DEF TakeLease
<1>7. taken' = IF Stored THEN [taken EXCEPT ![issued'] = q.session] ELSE taken
  BY DEF TakeLease
<1>8. q \in RequestRecord /\ RequestOK(q) /\ q.session \in SessionId
  BY <1>3, RequestFacts
<1>9. PICK p : p = [q EXCEPT !.at = place,
                             !.binding = [@ EXCEPT !.lease = issued', !.expires = e]]
  OBVIOUS
<1>10. /\ p \in RequestRecord /\ p.at = place /\ p.session = q.session
       /\ p.binding.phase = q.binding.phase /\ p.binding.job = q.binding.job
       /\ p.binding.device = q.binding.device /\ p.binding.image = q.binding.image
       /\ p.binding.lease = issued'
  <2> DEFINE c == [q.binding EXCEPT !.lease = issued', !.expires = e]
  <2>1. q.binding \in Session
    BY <1>8 DEF RequestRecord
  <2>2. /\ c \in Session /\ c.phase = q.binding.phase /\ c.job = q.binding.job
        /\ c.device = q.binding.device /\ c.image = q.binding.image /\ c.lease = issued'
    BY <1>2, <2>1 DEF Session
  <2>3. p = [q EXCEPT !.at = place, !.binding = c]
    BY <1>9
  <2> HIDE DEF c
  <2>4. p \in RequestRecord /\ p.at = place /\ p.session = q.session /\ p.binding = c
    BY <1>8, <2>2, <2>3 DEF RequestRecord
  <2> QED
    BY <2>2, <2>4
<1>11. /\ sessions' = IF up' THEN sessions ELSE Dropped(sessions)
       /\ requests' = IF up' THEN [requests EXCEPT ![r] = p] ELSE [x \in Request |-> Idle]
  BY <1>6, <1>9, RequestFacts DEF KeptBy
<1>12. /\ requests' \in [Request -> RequestRecord]
       /\ \A x \in Request : x # r => requests'[x] = requests[x] \/ requests'[x] = Idle
       /\ requests'[r] = p \/ requests'[r] = Idle
  BY <1>10, <1>11, IdleType, RequestFacts
<1>13. SessionsGoOn /\ NoneOffered /\ sessions' \in [SessionId -> Session]
  BY <1>11, KeptGoOn
<1>14. /\ TakersStay /\ taken' \in [1..MaxLeases -> SessionId \cup {None}]
       /\ Stored => issued' \in 1..issued' /\ taken'[issued'] = q.session
  <2>1. taken \in [1..MaxLeases -> SessionId \cup {None}] /\ issued' \in 1..MaxLeases
        /\ issued' \notin 1..issued /\ issued' \in 1..issued'
        /\ 1..issued \subseteq 1..MaxLeases
    BY <1>2, <1>3 DEF SessionInv, SessionTypes
  <2>2. CASE Stored
    <3>1. /\ taken' \in [1..MaxLeases -> SessionId \cup {None}]
          /\ taken'[issued'] = q.session
          /\ \A l \in 1..issued : taken'[l] = taken[l]
      BY <1>7, <1>8, <2>1, <2>2
    <3> QED
      BY <1>2, <2>1, <3>1 DEF TakersStay
  <2>3. CASE ~Stored
    BY <1>2, <1>7, <2>1, <2>3 DEF TakersStay
  <2> QED
    BY <2>2, <2>3
<1>15. SessionTypes' /\ HandedToTakers
  BY <1>2, <1>3, <1>12, <1>13, <1>14 DEF SessionInv, SessionTypes, HandedToTakers
<1>16. RequestOK(requests[r])' \/ requests'[r] = Idle
  <2>1. CASE requests'[r] = p
    <3>1. CopyOK(q.session, q.binding) /\ Names(q.binding) /\ q.binding.phase = "Offered"
      BY <1>3, <1>8 DEF RequestOK
    <3>2. Names(p.binding) /\ CopyOK(q.session, p.binding)
      BY <1>10, <3>1 DEF Names, CopyOK, HandedPhase
    <3>3. CopyOK(requests[r].session, requests[r].binding)'
      BY <1>10, <1>13, <1>14, <2>1, <3>2, CopyKept DEF CopyOK, Took, InMap
    <3>4. place = "leased" => Took(requests[r].session, requests[r].binding.lease)'
      BY <1>5, <1>10, <1>14, <2>1 DEF Took
    <3> QED
      BY <1>10, <2>1, <3>1, <3>2, <3>3, <3>4 DEF RequestOK, Names
  <2> QED
    BY <1>12, <2>1
<1>17. RequestsGoOn
  BY <1>12, <1>16, SameFollows DEF RequestsGoOn
<1> QED
  BY <1>13, <1>14, <1>15, <1>17, StepKeepsInv

------------------------------------------------------------------------------
(* The theorems. *)

LEMMA InitInv == DeploymentInit => SessionInv
<1> SUFFICES ASSUME DeploymentInit PROVE SessionInv
  OBVIOUS
<1>1. /\ sessions = [s \in SessionId |-> NoSession]
      /\ requests = [r \in Request |-> Idle]
      /\ taken = [l \in 1..MaxLeases |-> None] /\ handed = {}
      /\ now = 0 /\ issued = 0 /\ MaxLeases \in Nat
  BY RepositoryAssumption DEF DeploymentInit, JobsInit
<1>2. NoSession \in Session /\ NoSession.phase = "none"
  BY DEF NoSession, Session, Phase, NoLease
<1>3. SessionTypes
  BY <1>1, <1>2, IdleType DEF SessionTypes
<1>4. \A s \in SessionId : ~InMap(s) /\ SessionOK(s)
  BY <1>1, <1>2 DEF InMap, SessionOK, LivePhase, HandedPhase
<1>5. \A r \in Request : RequestOK(requests[r])
  BY <1>1, IdleType DEF RequestOK
<1> QED
  BY <1>1, <1>3, <1>4, <1>5 DEF SessionInv, OneSessionPerJob

LEMMA StepInv == SessionInv /\ [DeploymentNext]_deploymentVars => SessionInv'
<1> SUFFICES ASSUME SessionInv, [DeploymentNext]_deploymentVars
             PROVE  SessionInv'
  OBVIOUS
<1>1. CASE Operate \/ Surroundings \/ UNCHANGED deploymentVars
  BY <1>1, OutsideKeepsInv
<1>2. ASSUME NEW r \in Request, Arrive(r) \/ Serve(r)
      PROVE  SessionInv'
  <2>1. CASE \E j \in JobId, d \in DeviceId, i \in ImageId : Discover(r, j, d, i)
    BY <2>1, DiscoverKeepsInv
  <2>2. CASE \E s \in SessionId, errand \in Errand : Authenticate(r, s, errand)
    BY <2>2, AuthenticateKeepsInv
  <2>3. CASE Offer(r)
    BY <2>3, OfferKeepsInv
  <2>4. CASE BeginAuthorization(r) \/ Undo(r) \/ Advance(r) \/ Close(r)
    BY <2>4, PhaseMovesKeepInv
  <2>5. CASE TakeLease(r)
    BY <2>5, TakeLeaseKeepsInv
  <2>6. CASE FailAuthorization(r) \/ RefuseGuard(r) \/ RefuseReport(r)
    BY <2>6, RefusalsKeepInv
  <2>7. CASE HandOff(r)
    BY <2>7, HandOffKeepsInv
  <2>8. CASE ReplayGuard(r)
    BY <2>8, ReplayKeepsInv
  <2>9. CASE Report(r) \/ Conclude(r)
    BY <2>9, ReportKeepsInv
  <2> QED
    BY <1>2, <2>1, <2>2, <2>3, <2>4, <2>5, <2>6, <2>7, <2>8, <2>9 DEF Arrive, Serve
<1> QED
  BY <1>1, <1>2 DEF DeploymentNext

\* Sessions, requests and their stale copies agree with each other and with the
\* history of leases, in every interleaving of the installer's requests.
THEOREM SessionInvariant == DeploymentSpec => []SessionInv
  BY InitInv, StepInv, PTL DEF DeploymentSpec

\* installer_deployment.rs drives the job repository only as its interface allows:
\* what is proved of JobRepository holds while installers run.
THEOREM SessionsRunTheRepository == DeploymentSpec => JobsSpec
<1>1. DeploymentInit => JobsInit
  BY DEF DeploymentInit
<1>2. SessionInv /\ [DeploymentNext]_deploymentVars => [JobsNext]_repositoryVars
  BY DeploymentStep
<1> QED
  BY <1>1, <1>2, SessionInvariant, PTL DEF DeploymentSpec, JobsSpec

\* discover purges the sessions of a job before it adds one: overlapping
\* discoveries of a machine never leave two.
THEOREM OneSession == DeploymentSpec => []OneSessionPerJob
<1>1. SessionInv => OneSessionPerJob
  BY DEF SessionInv
<1> QED
  BY <1>1, SessionInvariant, PTL

\* authorize_guard and its replay send the storage configuration of an attempt
\* only to the session whose own guard took the lease.
THEOREM AutoinstallForTheTaker == DeploymentSpec => []AutoinstallGoesToTheTaker
<1>1. SessionInv => AutoinstallGoesToTheTaker
  BY DEF SessionInv, Took, AutoinstallGoesToTheTaker
<1> QED
  BY <1>1, SessionInvariant, PTL

\* The session map and the requests keep their shape, and a session past its
\* authorization carries a lease.
THEOREM InstallerTypes == DeploymentSpec => []InstallerTypeOK
<1>1. SessionInv => InstallerTypeOK
  <2>1. SUFFICES ASSUME SessionInv PROVE InstallerTypeOK
    OBVIOUS
  <2>2. ASSUME NEW s \in SessionId, sessions[s].phase \in HandedPhase
        PROVE  sessions[s].lease # NoLease
    BY <2>1, <2>2 DEF SessionInv, SessionTypes, SessionOK, Took, NoLease
  <2> QED
    BY <2>1, <2>2 DEF SessionInv, SessionTypes, InstallerTypeOK, HandedPhase
<1> QED
  BY <1>1, SessionInvariant, PTL

------------------------------------------------------------------------------
(* A job succeeds only when its attempt was authorized. *)

\* Only Linux jobs are inserted while installers run.
LinuxOnly ==
  \A j \in JobId : /\ Present(jobs[j]) => IsLinux(jobs[j])
                   /\ Present(disk[j]) => IsLinux(disk[j])

\* The storage configuration of the lease l went to session s.
Sent(s, l) == <<s, l>> \in handed

\* A session past its authorization was sent its storage configuration, and so
\* was the session of any copy that says so.
SentInv ==
  /\ \A s \in SessionId :
       sessions[s].phase \in HandedPhase => Sent(s, sessions[s].lease)
  /\ \A r \in Request :
       requests[r].binding.phase \in HandedPhase =>
         Sent(requests[r].session, requests[r].binding.lease)

\* One slot of the list is replaced, by a Linux job or by nothing.
LEMMA OnlySlotSucceeds ==
  ASSUME RepositoryInv, LinuxOnly, NEW j \in JobId, NEW job,
         Commit([jobs EXCEPT ![j] = job]), Present(job) => IsLinux(job)
  PROVE  /\ LinuxOnly'
         /\ \A k \in JobId : jobs'[k].state = "succeeded" =>
              jobs[k].state = "succeeded" \/ (k = j /\ job.state = "succeeded")
<1> DEFINE next == [jobs EXCEPT ![j] = job]
<1>1. \A k \in JobId : next[k] = IF k = j THEN job ELSE jobs[k]
  BY DEF RepositoryInv, JobsTypeOK
<1>2. \A k \in JobId : ~Present(NoJobs[k]) /\ NoJobs[k].state # "succeeded"
  BY DEF NoJobs, NoJob, Present, Absent
<1>3. jobs' \in {jobs, next, NoJobs} /\ disk' \in {next, NoJobs}
  BY CommitOutcome
<1> HIDE DEF next
<1>4. LinuxOnly'
  BY <1>1, <1>2, <1>3 DEF LinuxOnly
<1>5. \A k \in JobId : jobs'[k].state = "succeeded" =>
        jobs[k].state = "succeeded" \/ (k = j /\ job.state = "succeeded")
  BY <1>1, <1>2, <1>3
<1> QED
  BY <1>4, <1>5

\* The calls that end no job.
NothingSucceeds ==
  /\ LinuxOnly'
  /\ \A k \in JobId :
       jobs[k].state = "running" => jobs'[k].state # "succeeded"

LEMMA InsertSucceedsNothing ==
  ASSUME RepositoryInv, LinuxOnly, NEW j \in JobId, NEW d \in DeviceId, NEW i \in ImageId,
         Insert(j, "InstallLinux", d, i, "waiting")
  PROVE  NothingSucceeds
<1>1. PICK job : job = [NoJob EXCEPT !.state = "waiting", !.op = "InstallLinux",
                                     !.device = d, !.image = i]
  OBVIOUS
<1>2. job.state = "waiting" /\ IsLinux(job)
  BY <1>1 DEF NoJob, IsLinux
<1>3. Commit([jobs EXCEPT ![j] = job])
  BY <1>1 DEF Insert
<1> QED
  BY <1>2, <1>3, OnlySlotSucceeds DEF NothingSucceeds

LEMMA TransitionSucceedsNothing ==
  ASSUME RepositoryInv, LinuxOnly, NEW j \in JobId, NEW state \in JobState,
         Transition(j, state)
  PROVE  NothingSucceeds
<1>1. jobs \in [JobId -> Job] /\ jobs[j] \in Job
  BY DEF RepositoryInv, JobsTypeOK
<1>2. PICK job : job = [jobs[j] EXCEPT !.state = state]
  OBVIOUS
<1>3. job.state = state /\ job.op = jobs[j].op
  BY <1>1, <1>2 DEF Job
<1>4. Present(jobs[j])
  BY <1>1, TransitionFromActive DEF Transition
<1>5. IsLinux(jobs[j]) /\ IsLinux(job)
  BY <1>3, <1>4 DEF LinuxOnly, IsLinux
<1>6. ~(jobs[j].state = "running" /\ state = "succeeded")
  BY <1>5 DEF Transition, InstallerForbids
<1>7. Commit([jobs EXCEPT ![j] = job])
  BY <1>1, <1>2 DEF Transition
<1> QED
  BY <1>3, <1>5, <1>6, <1>7, OnlySlotSucceeds DEF NothingSucceeds

LEMMA RemoveSucceedsNothing ==
  ASSUME RepositoryInv, LinuxOnly, NEW j \in JobId, Remove(j)
  PROVE  NothingSucceeds
<1>1. ~Present(NoJob) /\ NoJob.state # "succeeded"
  BY DEF NoJob, Present, Absent
<1> QED
  BY <1>1, OnlySlotSucceeds DEF Remove, NothingSucceeds

LEMMA CallSucceedsNothing ==
  ASSUME RepositoryInv, LinuxOnly, NEW j, NEW d, NEW i, NEW l, NEW stage,
         \/ MarkInstallerBooting(j, d, i)
         \/ LeaseInstallerJob(j, d, i)
         \/ ReportInstallerProgress(j, d, l, stage),
         j \in JobId
  PROVE  NothingSucceeds
<1>1. jobs \in [JobId -> Job] /\ jobs[j] \in Job
  BY DEF RepositoryInv, JobsTypeOK
<1>2. IsLinux(jobs[j]) /\ jobs[j].state \in {"waiting", "running"}
  BY DEF MarkInstallerBooting, LeaseInstallerJob, ReportInstallerProgress,
         HandoffAvailable, HoldsInstallerLease
<1>3. \E job : /\ Commit([jobs EXCEPT ![j] = job])
               /\ job.op = jobs[j].op /\ job.state \in {jobs[j].state, "running"}
  <2>1. CASE MarkInstallerBooting(j, d, i)
    <3>1. PICK job : job = [jobs[j] EXCEPT !.stage = "BootingInstaller"]
      OBVIOUS
    <3>2. job.op = jobs[j].op /\ job.state = jobs[j].state
      BY <1>1, <3>1 DEF Job
    <3>3. Commit([jobs EXCEPT ![j] = job])
      BY <1>1, <2>1, <3>1 DEF MarkInstallerBooting
    <3> QED
      BY <3>2, <3>3
  <2>2. CASE LeaseInstallerJob(j, d, i)
    <3>1. PICK job : job = Leased(jobs[j], "ValidatingTarget", InstallerLease)
      OBVIOUS
    <3>2. job.op = jobs[j].op /\ job.state = "running"
      BY <1>1, <3>1 DEF Job, Leased
    <3>3. Commit([jobs EXCEPT ![j] = job])
      BY <2>2, <3>1 DEF LeaseInstallerJob
    <3> QED
      BY <3>2, <3>3
  <2>3. CASE ReportInstallerProgress(j, d, l, stage)
    <3>1. PICK job : job = [jobs[j] EXCEPT !.stage = stage,
                                           !.expires = Later(@, now + InstallerLease)]
      OBVIOUS
    <3>2. job.op = jobs[j].op /\ job.state = jobs[j].state
      BY <1>1, <3>1 DEF Job
    <3>3. Commit([jobs EXCEPT ![j] = job])
      BY <1>1, <2>3, <3>1 DEF ReportInstallerProgress
    <3> QED
      BY <3>2, <3>3
  <2> QED
    BY <2>1, <2>2, <2>3
<1>4. PICK job : /\ Commit([jobs EXCEPT ![j] = job])
                 /\ job.op = jobs[j].op /\ job.state \in {jobs[j].state, "running"}
  BY <1>3
<1> QED
  BY <1>2, <1>4, OnlySlotSucceeds DEF NothingSucceeds, IsLinux

LEMMA EnvironmentSucceedsNothing ==
  ASSUME RepositoryInv, LinuxOnly, Environment
  PROVE  NothingSucceeds
<1>1. CASE Tick
  BY <1>1 DEF Tick, NothingSucceeds, LinuxOnly
<1>2. CASE Crash
  BY <1>2 DEF Crash, NothingSucceeds, LinuxOnly, NoJobs, NoJob, Present, Absent
<1>3. CASE Open
  <2>1. \A k \in JobId : jobs[k].state # "running"
    BY <1>3 DEF Open, RepositoryInv, NoJobs, NoJob, Absent
  <2> QED
    BY <1>3, <2>1 DEF Open, NothingSucceeds, LinuxOnly
<1> QED
  BY <1>1, <1>2, <1>3 DEF Environment

\* Only a conclusion ends a job well, and only one that holds its lease.
LEMMA ConclusionHoldsLease ==
  ASSUME RepositoryInv, LinuxOnly, NEW j \in JobId, NEW d, NEW l, NEW succeeded,
         CompleteInstaller(j, d, l, succeeded)
  PROVE  /\ LinuxOnly' /\ jobs[j].lease = l
         /\ \A k \in JobId :
              jobs[k].state = "running" /\ jobs'[k].state = "succeeded" => k = j
<1>1. jobs \in [JobId -> Job] /\ jobs[j] \in Job
  BY DEF RepositoryInv, JobsTypeOK
<1>2. IsLinux(jobs[j]) /\ jobs[j].lease = l
  BY DEF CompleteInstaller, HoldsInstallerLease
<1>3. PICK job : job = [Finished(jobs[j], succeeded) EXCEPT
                          !.stage = IF succeeded THEN "Finalizing" ELSE @]
  OBVIOUS
<1>4. job.op = jobs[j].op
  BY <1>1, <1>3 DEF Job, Finished
<1>5. Commit([jobs EXCEPT ![j] = job])
  BY <1>3 DEF CompleteInstaller
<1> QED
  BY <1>2, <1>4, <1>5, OnlySlotSucceeds DEF IsLinux

\* A session in the next state that is past its authorization was so before,
\* under the same lease, or is sent its storage configuration in this step.
LEMMA SessionsSent ==
  ASSUME SessionInv, [DeploymentNext]_deploymentVars,
         NEW s \in SessionId, sessions'[s].phase \in HandedPhase
  PROVE  \/ sessions[s].phase \in HandedPhase /\ sessions'[s].lease = sessions[s].lease
         \/ <<s, sessions'[s].lease>> \in handed'
<1>1. sessions \in [SessionId -> Session] /\ sessions[s] \in Session
  BY DEF SessionInv, SessionTypes
<1>2. sessions'[s] # Gone /\ sessions'[s] # NoSession
  BY DEF NoSession, Gone, HandedPhase
<1>3. CASE sessions'[s] = sessions[s]
  BY <1>3
<1>4. CASE Operate \/ Surroundings \/ UNCHANGED deploymentVars
  <2>1. sessions' = sessions \/ sessions' = Dropped(sessions)
    BY <1>4, Zenon DEF Operate, Surroundings, RestartControlPlane, KeptBy,
                       deploymentVars, installerVars
  <2> QED
    BY <1>2, <2>1 DEF Dropped
<1>5. ASSUME NEW r \in Request, Arrive(r) \/ Serve(r), sessions'[s] # sessions[s]
      PROVE  \/ sessions[s].phase \in HandedPhase /\ sessions'[s].lease = sessions[s].lease
             \/ <<s, sessions'[s].lease>> \in handed'
  <2> DEFINE t == requests[r].session
  <2>1. CASE \/ \E j \in JobId, d \in DeviceId, i \in ImageId : Discover(r, j, d, i)
             \/ TakeLease(r) \/ Report(r) \/ Conclude(r)
    <3>1. sessions' = sessions \/ sessions' = Dropped(sessions)
      BY <2>1, Zenon DEF Discover, TakeLease, Report, Conclude, KeptBy
    <3> QED
      BY <1>2, <3>1 DEF Dropped
  <2>2. CASE \/ \E x \in SessionId, errand \in Errand : Authenticate(r, x, errand)
             \/ FailAuthorization(r) \/ ReplayGuard(r) \/ RefuseGuard(r) \/ RefuseReport(r)
    <3>1. UNCHANGED sessions
      BY <2>2, Zenon DEF Authenticate, FailAuthorization, ReplayGuard, RefuseGuard, RefuseReport
    <3> QED
      BY <1>5, <3>1
  <2>3. CASE Offer(r)
    <3> DEFINE kept == WithoutSessionsOf(requests[r].binding.job)
    <3>1. kept[s] = sessions[s] \/ kept[s] = Gone
      BY DEF WithoutSessionsOf
    <3>2. kept \in [SessionId -> {sessions[x] : x \in SessionId} \cup {Gone}]
      BY DEF WithoutSessionsOf
    <3>3. \/ sessions' = kept
          \/ \E x \in SessionId : sessions' = [kept EXCEPT ![x] =
                [requests[r].binding EXCEPT !.phase = "Offered", !.expires = now + OfferTtl]]
      BY <2>3 DEF Offer
    <3>4. requests[r].binding \in Session
      BY RequestFacts DEF RequestRecord
    <3>5. [requests[r].binding EXCEPT !.phase = "Offered",
                                      !.expires = now + OfferTtl].phase = "Offered"
      BY <3>4 DEF Session
    <3> HIDE DEF kept
    <3> QED
      BY <1>2, <1>5, <3>1, <3>2, <3>3, <3>5 DEF HandedPhase
  <2>4. CASE BeginAuthorization(r) \/ Undo(r)
    <3>1. PICK n \in {"Authorizing", "Offered"} :
            sessions' = sessions \/ sessions' = [sessions EXCEPT ![t].phase = n]
      BY <2>4 DEF BeginAuthorization, Undo, SetPhase
    <3>2. sessions'[s] = [sessions[s] EXCEPT !.phase = n]
      BY <1>1, <1>5, <3>1
    <3> QED
      BY <1>1, <3>2 DEF Session, HandedPhase
  <2>5. CASE Advance(r) \/ Close(r)
    <3>1. PICK n : \/ sessions' = sessions
                   \/ sessions' = [sessions EXCEPT ![t].phase = n] /\ InMap(t)
      BY <2>5 DEF Advance, Close, SetPhase, InMap, LivePhase
    <3>2. sessions'[s] = [sessions[s] EXCEPT !.phase = n] /\ s = t /\ InMap(t)
      BY <1>1, <1>5, <3>1
    <3>3. sessions[t].phase \in HandedPhase
      BY <2>5, <3>2, RequestFacts DEF Advance, Close, At, RequestOK, CopyOK
    <3> QED
      BY <1>1, <3>2, <3>3 DEF Session
  <2>6. CASE HandOff(r)
    <3>1. /\ sessions' = [sessions EXCEPT ![t] = [requests[r].binding EXCEPT !.phase = "HandedOff"]]
          /\ handed' = handed \cup {<<t, requests[r].binding.lease>>}
      BY <1>5, <2>6 DEF HandOff
    <3>2. s = t /\ sessions'[s] = [requests[r].binding EXCEPT !.phase = "HandedOff"]
      BY <1>1, <1>5, <3>1
    <3>3. requests[r].binding \in Session
      BY RequestFacts DEF RequestRecord
    <3>4. sessions'[s].lease = requests[r].binding.lease
      BY <3>2, <3>3 DEF Session
    <3> QED
      BY <3>1, <3>2, <3>4 DEF Sent
  <2> QED
    BY <1>5, <2>1, <2>2, <2>3, <2>4, <2>5, <2>6 DEF Arrive, Serve
<1> QED
  BY <1>3, <1>4, <1>5 DEF DeploymentNext

\* A copy that says its session is past its authorization said so before, or is
\* made in this step of a session that is.
LEMMA CopiesSent ==
  ASSUME SessionInv, [DeploymentNext]_deploymentVars,
         NEW r \in Request, requests'[r].binding.phase \in HandedPhase
  PROVE  \/ /\ requests'[r].binding = requests[r].binding
            /\ requests'[r].session = requests[r].session
         \/ /\ requests'[r].session \in SessionId
            /\ sessions[requests'[r].session].phase \in HandedPhase
            /\ requests'[r].binding.lease = sessions[requests'[r].session].lease
<1> DEFINE Same == /\ requests'[r].binding = requests[r].binding
                   /\ requests'[r].session = requests[r].session
<1>1. requests \in [Request -> RequestRecord] /\ requests[r] \in RequestRecord
  BY DEF SessionInv, SessionTypes
<1>2. requests'[r] # Idle
  BY DEF Idle, NoSession, HandedPhase
<1>3. CASE requests'[r] = requests[r]
  BY <1>3
<1>4. CASE Operate \/ Surroundings \/ UNCHANGED deploymentVars
  <2>1. requests' = requests \/ requests' = [x \in Request |-> Idle]
    BY <1>4, Zenon DEF Operate, Surroundings, RestartControlPlane, KeptBy,
                       deploymentVars, installerVars
  <2> QED
    BY <1>2, <2>1
<1>5. ASSUME NEW x \in Request, Arrive(x) \/ Serve(x), requests'[r] # requests[r]
      PROVE  \/ Same
             \/ /\ requests'[r].session \in SessionId
                /\ sessions[requests'[r].session].phase \in HandedPhase
                /\ requests'[r].binding.lease = sessions[requests'[r].session].lease
  <2>1. CASE \/ Offer(x) \/ BeginAuthorization(x) \/ FailAuthorization(x) \/ HandOff(x)
             \/ Undo(x) \/ ReplayGuard(x) \/ RefuseGuard(x) \/ Advance(x) \/ Close(x)
             \/ RefuseReport(x)
    <3>1. PICK place : requests' \in {[requests EXCEPT ![x] = Idle],
                                      [requests EXCEPT ![x].at = place]}
      BY <2>1 DEF Offer, BeginAuthorization, FailAuthorization, HandOff, Undo, ReplayGuard,
                  RefuseGuard, Advance, Close, RefuseReport, Finish, GoTo
    <3>2. x = r /\ requests'[r] = [requests[r] EXCEPT !.at = place]
      BY <1>1, <1>2, <1>5, <3>1
    <3> QED
      BY <1>1, <3>2 DEF RequestRecord
  <2>2. CASE \E j \in JobId, d \in DeviceId, i \in ImageId : Discover(x, j, d, i)
    <3>1. PICK j \in JobId, d \in DeviceId, i \in ImageId : Discover(x, j, d, i)
      BY <2>2
    <3> DEFINE b == [NoSession EXCEPT !.job = j, !.device = d, !.image = i]
               q == [Idle EXCEPT !.at = "offering", !.binding = b]
    <3>2. KeptBy([requests EXCEPT ![x] = IF Stored THEN q ELSE Idle])
      BY <3>1 DEF Discover
    <3>3. b.phase \notin HandedPhase
      BY DEF NoSession, HandedPhase
    <3>4. q = [Idle EXCEPT !.at = "offering", !.binding = b]
      OBVIOUS
    <3> HIDE DEF b, q
    <3>5. q.binding = b
      BY <3>4 DEF Idle
    <3>6. requests'[r] = q
      BY <1>1, <1>2, <1>5, <3>2 DEF KeptBy
    <3> QED
      BY <3>3, <3>5, <3>6
  <2>3. CASE \E s \in SessionId, errand \in Errand : Authenticate(x, s, errand)
    <3>1. PICK s \in SessionId, errand \in Errand : Authenticate(x, s, errand)
      BY <2>3
    <3>2. requests'[r] = [at |-> "authenticated", errand |-> errand, session |-> s,
                          binding |-> [sessions[s] EXCEPT !.expires = 0]]
      BY <1>1, <1>5, <3>1 DEF Authenticate
    <3>3. sessions[s] \in Session
      BY RequestFacts
    <3>4. PICK c : c = [sessions[s] EXCEPT !.expires = 0]
      OBVIOUS
    <3>5. c.phase = sessions[s].phase /\ c.lease = sessions[s].lease
      BY <3>3, <3>4 DEF Session
    <3>6. requests'[r].session = s /\ requests'[r].binding = c
      BY <3>2, <3>4
    <3> QED
      BY <3>5, <3>6
  <2>4. CASE TakeLease(x)
    <3>1. PICK place, l, e :
            KeptBy([requests EXCEPT ![x].at = place, ![x].binding.lease = l,
                                    ![x].binding.expires = e])
      BY <2>4 DEF TakeLease
    <3>2. x = r /\ requests'[r].binding
                   = [requests[r].binding EXCEPT !.lease = l, !.expires = e]
      BY <1>1, <1>2, <1>5, <3>1 DEF KeptBy, RequestRecord
    <3>3. requests[r].binding \in Session /\ requests[r].binding.phase = "Offered"
      BY <2>4, <3>2, RequestFacts DEF TakeLease, At, RequestOK, RequestRecord
    <3> QED
      BY <3>2, <3>3 DEF Session, HandedPhase
  <2>5. CASE Report(x) \/ Conclude(x)
    <3>1. \E p : /\ KeptBy([requests EXCEPT ![x] = p])
                 /\ p = Idle \/ \E place : p = [requests[x] EXCEPT !.at = place]
      <4>1. CASE Report(x)
        <5> DEFINE p == IF Stored /\ requests[x].errand = "AwaitingFirstBoot"
                                  /\ requests[x].binding.phase = "HandedOff"
                        THEN [requests[x] EXCEPT !.at = "advancing"] ELSE Idle
        <5>1. KeptBy([requests EXCEPT ![x] = p])
          BY <4>1 DEF Report
        <5> QED
          BY <5>1
      <4>2. CASE Conclude(x)
        <5> DEFINE p == IF Stored THEN [requests[x] EXCEPT !.at = "closing"] ELSE Idle
        <5>1. KeptBy([requests EXCEPT ![x] = p])
          BY <4>2 DEF Conclude
        <5> QED
          BY <5>1
      <4> QED
        BY <2>5, <4>1, <4>2
    <3>2. PICK p : /\ KeptBy([requests EXCEPT ![x] = p])
                   /\ p = Idle \/ \E place : p = [requests[x] EXCEPT !.at = place]
      BY <3>1
    <3>3. x = r /\ requests'[r] = p
      BY <1>1, <1>2, <1>5, <3>2 DEF KeptBy
    <3>4. PICK place : requests'[r] = [requests[r] EXCEPT !.at = place]
      BY <1>2, <3>2, <3>3
    <3> QED
      BY <1>1, <3>4 DEF RequestRecord
  <2> QED
    BY <1>5, <2>1, <2>2, <2>3, <2>4, <2>5 DEF Arrive, Serve
<1> QED
  BY <1>3, <1>4, <1>5 DEF DeploymentNext

LEMMA SentStep ==
  ASSUME SessionInv, SentInv, [DeploymentNext]_deploymentVars
  PROVE  SentInv'
<1>1. handed \subseteq handed'
  BY Zenon DEF DeploymentNext, Operate, Surroundings, RestartControlPlane, Arrive, Serve,
     Discover, Authenticate, Offer, BeginAuthorization, TakeLease, FailAuthorization,
     HandOff, Undo, ReplayGuard, RefuseGuard, Report, Advance, Conclude, Close,
     RefuseReport, deploymentVars, installerVars
<1>2. ASSUME NEW s \in SessionId, sessions'[s].phase \in HandedPhase
      PROVE  <<s, sessions'[s].lease>> \in handed'
  BY <1>1, <1>2, SessionsSent DEF SentInv, Sent
<1>3. ASSUME NEW r \in Request, requests'[r].binding.phase \in HandedPhase
      PROVE  <<requests'[r].session, requests'[r].binding.lease>> \in handed'
  BY <1>1, <1>3, CopiesSent DEF SentInv, Sent
<1> QED
  BY <1>2, <1>3 DEF SentInv, Sent

\* Whatever the step, the list stays Linux, and the job it ends well was ended
\* by a request that holds its lease.
LEMMA SuccessStep ==
  ASSUME RepositoryInv, SessionInv, LinuxOnly, [DeploymentNext]_deploymentVars
  PROVE  \/ NothingSucceeds
         \/ \E r \in Request :
              /\ LinuxOnly' /\ Conclude(r)
              /\ jobs[requests[r].binding.job].lease = requests[r].binding.lease
              /\ \A k \in JobId : jobs[k].state = "running" /\ jobs'[k].state = "succeeded"
                                    => k = requests[r].binding.job
<1>1. CASE Operate
  BY <1>1, InsertSucceedsNothing, TransitionSucceedsNothing, RemoveSucceedsNothing
     DEF Operate
<1>2. CASE Surroundings /\ Environment
  BY <1>2, EnvironmentSucceedsNothing
<1>3. CASE UNCHANGED <<jobs, disk>>
  BY <1>3 DEF NothingSucceeds, LinuxOnly
<1>4. ASSUME Surroundings, ~Environment
      PROVE  UNCHANGED <<jobs, disk>>
  BY <1>4 DEF Surroundings, RestartControlPlane, repositoryVars
<1>5. ASSUME UNCHANGED deploymentVars
      PROVE  UNCHANGED <<jobs, disk>>
  BY <1>5 DEF deploymentVars, repositoryVars
<1>6. ASSUME NEW r \in Request, Arrive(r) \/ Serve(r)
      PROVE  \/ NothingSucceeds
             \/ UNCHANGED <<jobs, disk>>
             \/ /\ LinuxOnly' /\ Conclude(r)
                /\ jobs[requests[r].binding.job].lease = requests[r].binding.lease
                /\ \A k \in JobId : jobs[k].state = "running" /\ jobs'[k].state = "succeeded"
                                      => k = requests[r].binding.job
  <2> DEFINE b == requests[r].binding
  <2>1. CASE \E j \in JobId, d \in DeviceId, i \in ImageId : Discover(r, j, d, i)
    BY <2>1, CallSucceedsNothing DEF Discover
  <2>2. ASSUME TakeLease(r) \/ Report(r) \/ Conclude(r)
        PROVE  b.job \in JobId
    BY <2>2, RequestFacts DEF TakeLease, Report, Conclude, Asks, At, RequestOK, Names
  <2>3. CASE TakeLease(r)
    BY <2>2, <2>3, CallSucceedsNothing DEF TakeLease
  <2>4. CASE Report(r)
    BY <2>2, <2>4, CallSucceedsNothing DEF Report
  <2>5. CASE Conclude(r)
    <3>1. CompleteInstaller(b.job, b.device, b.lease, requests[r].errand = "firstBoot")
      BY <2>5 DEF Conclude
    <3> QED
      BY <2>2, <2>5, <3>1, ConclusionHoldsLease
  <2>6. CASE \/ \E s \in SessionId, errand \in Errand : Authenticate(r, s, errand)
             \/ Offer(r) \/ BeginAuthorization(r) \/ FailAuthorization(r) \/ HandOff(r)
             \/ Undo(r) \/ ReplayGuard(r) \/ RefuseGuard(r) \/ Advance(r) \/ Close(r)
             \/ RefuseReport(r)
    BY <2>6 DEF Authenticate, Offer, BeginAuthorization, FailAuthorization, HandOff, Undo,
                ReplayGuard, RefuseGuard, Advance, Close, RefuseReport, repositoryVars
  <2> QED
    BY <1>6, <2>1, <2>3, <2>4, <2>5, <2>6 DEF Arrive, Serve
<1> QED
  BY <1>1, <1>2, <1>3, <1>4, <1>5, <1>6 DEF DeploymentNext

\* complete_first_boot and report_event end a job well only for the attempt whose
\* lease the session took and was sent the storage configuration of.
THEOREM SuccessIsAuthorized == DeploymentSpec => SucceedsOnlyWhenAuthorized
<1> DEFINE Authorized == \A j \in JobId :
              jobs[j].state = "running" /\ jobs'[j].state = "succeeded" =>
                <<taken[jobs[j].lease], jobs[j].lease>> \in handed
<1>1. DeploymentInit => SentInv /\ LinuxOnly
  BY DEF DeploymentInit, JobsInit, SentInv, LinuxOnly, NoSession, Idle, HandedPhase,
         NoJobs, NoJob, Present, Absent
<1>2. SessionInv /\ SentInv /\ [DeploymentNext]_deploymentVars => SentInv'
  BY SentStep
<1>3. RepositoryInv /\ SessionInv /\ LinuxOnly /\ [DeploymentNext]_deploymentVars => LinuxOnly'
  BY SuccessStep DEF NothingSucceeds
<1>4. RepositoryInv /\ SessionInv /\ LinuxOnly /\ SentInv /\ [DeploymentNext]_deploymentVars
        => [Authorized]_deploymentVars
  <2> SUFFICES ASSUME RepositoryInv, SessionInv, LinuxOnly, SentInv,
                      [DeploymentNext]_deploymentVars,
                      NEW j \in JobId,
                      jobs[j].state = "running" /\ jobs'[j].state = "succeeded"
               PROVE  <<taken[jobs[j].lease], jobs[j].lease>> \in handed
    OBVIOUS
  <2>1. PICK r \in Request : /\ Conclude(r) /\ j = requests[r].binding.job
                             /\ jobs[j].lease = requests[r].binding.lease
    BY SuccessStep DEF NothingSucceeds
  <2>2. requests[r].at = "authenticated" /\ requests[r].binding.phase \in HandedPhase
    BY <2>1 DEF Conclude, Asks, At, BoundIn, HandedOffPhase, HandedPhase
  <2>3. taken[requests[r].binding.lease] = requests[r].session
    BY <2>2, RequestFacts DEF RequestOK, CopyOK, Took
  <2> QED
    BY <2>1, <2>2, <2>3 DEF SentInv, Sent
<1> QED
  BY <1>1, <1>2, <1>3, <1>4, SessionInvariant, SessionsRunTheRepository,
     RepositoryInvariant, PTL DEF DeploymentSpec, SucceedsOnlyWhenAuthorized
==============================================================================
