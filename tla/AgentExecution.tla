---------------------------- MODULE AgentExecution ----------------------------
(***************************************************************************)
(* crates/agent: one Windows PE agent that claims a job, executes it step  *)
(* by step while it polls for pause and resume, and reports the outcome;   *)
(* the job repository behind it, the operator, and the network between.    *)
(*                                                                         *)
(* The agent makes one blocking HTTP call at a time.  A call is sent, then *)
(* served by the control plane (one repository operation), then answered.  *)
(* The agent may give a call up at any point before its answer (timeout,   *)
(* refused connection, lost answer): a call given up before it was served  *)
(* may still be served later, or never.                                    *)
(*                                                                         *)
(* Abstractions: registration, the heartbeat and the compatibility checks  *)
(* of a claim are not here (a claim may find nothing); the machine's disk  *)
(* is the child process that writes it.                                    *)
(***************************************************************************)
EXTENDS JobRepository, Sequences, FiniteSets

CONSTANTS
  Machine,     \* the device the agent runs on
  MaxLate      \* bound: calls given up and not yet served or lost

\* execute: the progress it reports and the work that follows.  ApplyingImage
\* runs dism for a WIM and streams a GHO itself.
Script ==
  << [stage |-> "Preflight",        work |-> {"check"}],
     [stage |-> "Partitioning",     work |-> {"child"}],
     [stage |-> "DownloadingImage", work |-> {"stream"}],
     [stage |-> "ApplyingImage",    work |-> {"child", "stream"}],
     [stage |-> "ConfiguringBoot",  work |-> {"child"}],
     [stage |-> "Finalizing",       work |-> {"child"}],
     [stage |-> "Rebooting",        work |-> {"none"}] >>

ASSUME AgentAssumption ==
  /\ Machine \in DeviceId
  /\ MaxLate \in Nat
  /\ \A n \in 1..Len(Script) : Script[n].stage \in AgentStage

VARIABLES
  agent,     \* the agent process
  call,      \* its call in progress, with the answer once there is one
  late,      \* the calls it gave up that may still be served
  resumed    \* history: whether the operator made a job run since a control
             \* poll was last answered "paused"

agentVars == <<agent, call, late, resumed>>
executionVars == <<repositoryVars, agentVars>>

\* What a call asks for; "none" when no call is in progress.
Errand == {"none", "claim", "progress", "control", "complete"}

\* The answers: a claimed job is answered with "job", a control poll with the
\* job's state; a 4xx refusal is "refused" and anything is_transient_request_error
\* accepts is "failed".
Answer == {"none", "job", "nothing", "ok", "running", "paused", "refused", "failed"}

Call == [errand : Errand, job : JobId \cup {None}, lease : Nat,
         stage : DeploymentStage, succeeded : BOOLEAN]

NoCall == [errand |-> "none", job |-> None, lease |-> NoLease, stage |-> "none",
           succeeded |-> FALSE]

\* polling: between two jobs; claiming, starting (progress), awaiting
\* (await_running), watching (run_checked) and completing: in a call.
AgentPlace == {"polling", "claiming", "starting", "awaiting", "watching",
               "completing", "rebooting", "stopped", "off"}

Agent == [at : AgentPlace, job : JobId \cup {None}, lease : Nat,
          step : 0..Len(Script), child : {"none", "running", "suspended", "exited"},
          succeeded : BOOLEAN]

IdleAgent == [at |-> "polling", job |-> None, lease |-> NoLease, step |-> 0,
              child |-> "none", succeeded |-> FALSE]

AgentTypeOK ==
  /\ agent \in Agent
  /\ call \in [ask : Call, answer : Answer, job : JobId \cup {None}, lease : Nat]
  /\ late \in SUBSET Call
  /\ resumed \in BOOLEAN

Quiet == [ask |-> NoCall, answer |-> "none", job |-> None, lease |-> NoLease]

ExecutionInit ==
  /\ JobsInit
  /\ agent = IdleAgent /\ call = Quiet /\ late = {} /\ resumed = FALSE

------------------------------------------------------------------------------
(* The control plane serves a call. *)

Stored == up' /\ intact'

\* When the process dies, every connection dies with it.
Connected(c) ==
  IF up' \/ c.ask = NoCall \/ c.answer # "none" THEN c ELSE [c EXCEPT !.answer = "failed"]

\* The answer goes to the agent when the call is the one in progress; a call
\* given up leaves late.
Answered(c, mine, answer, j, l) ==
  /\ call' = IF mine /\ up'
             THEN [call EXCEPT !.answer = IF intact' THEN answer ELSE "refused",
                               !.job = j, !.lease = l]
             ELSE Connected(call)
  /\ late' = IF ~up' THEN {} ELSE IF mine THEN late ELSE late \ {c}
  /\ resumed' = (resumed /\ ~(mine /\ answer = "paused"))

\* Answered without a change of the repository.
Replied(c, mine, answer) ==
  /\ call' = IF mine THEN [call EXCEPT !.answer = answer] ELSE call
  /\ late' = IF mine THEN late ELSE late \ {c}
  /\ resumed' = (resumed /\ ~(mine /\ answer = "paused"))
  /\ UNCHANGED repositoryVars

\* claim_job: the best claimable job is leased, and building the answer may
\* still fail after that; or nothing is claimable or compatible.
ServeClaim(c, mine) ==
  \/ \E j \in JobId, answer \in {"job", "refused"} :
       /\ LeaseForDevice(j, Machine)
       /\ Answered(c, mine, answer, j, issued')
  \/ Replied(c, mine, "nothing")

ServeProgress(c, mine) ==
  \/ /\ ReportProgress(c.job, Machine, c.lease, c.stage)
     /\ Answered(c, mine, "ok", None, NoLease)
  \/ /\ ~HoldsLiveLease(c.job, Machine, c.lease)
     /\ Replied(c, mine, "refused")

\* job_control_state: the job's state, running or paused, or a 403.
ServeControl(c, mine) ==
  \/ /\ RenewControlLease(c.job, Machine, c.lease)
     /\ Answered(c, mine, jobs[c.job].state, None, NoLease)
  \/ /\ HoldsLease(c.job, Machine, c.lease)
     /\ jobs[c.job].expires >= now + AgentLease \div 2
     /\ Replied(c, mine, jobs[c.job].state)
  \/ /\ ~HoldsLease(c.job, Machine, c.lease)
     /\ Replied(c, mine, "refused")

ServeComplete(c, mine) ==
  \/ /\ Complete(c.job, Machine, c.lease, c.succeeded)
     /\ Answered(c, mine, "ok", None, NoLease)
  \/ /\ ~HoldsLiveLease(c.job, Machine, c.lease)
     /\ Replied(c, mine, "refused")

Handle(c, mine) ==
  /\ up
  /\ \/ c.errand = "claim"    /\ ServeClaim(c, mine)
     \/ c.errand = "progress" /\ ServeProgress(c, mine)
     \/ c.errand = "control"  /\ ServeControl(c, mine)
     \/ c.errand = "complete" /\ ServeComplete(c, mine)
  /\ UNCHANGED agent

Serve     == call.ask # NoCall /\ call.answer = "none" /\ Handle(call.ask, TRUE)
ServeLate == \E c \in late : Handle(c, FALSE)

------------------------------------------------------------------------------
(* The network. *)

\* The call fails for the agent: it was served or not, and if it was not, it may
\* still be on its way.
GiveUp ==
  /\ call.ask # NoCall /\ call.answer # "failed"
  /\ call' = [call EXCEPT !.answer = "failed", !.job = None, !.lease = NoLease]
  /\ \/ late' = late
     \/ /\ call.answer = "none" /\ Cardinality(late) < MaxLate
        /\ late' = late \cup {call.ask}
  /\ UNCHANGED <<repositoryVars, agent, resumed>>

LoseLate ==
  /\ \E c \in late : late' = late \ {c}
  /\ UNCHANGED <<repositoryVars, agent, call, resumed>>

------------------------------------------------------------------------------
(* The agent. *)

Gets(place, answers) == agent.at = place /\ call.answer \in answers

\* The agent moves on to next and makes the call c.
Calls(next, c) ==
  /\ agent' = next
  /\ call' = [Quiet EXCEPT !.ask = c]
  /\ UNCHANGED <<repositoryVars, late, resumed>>

Rests(next) ==
  /\ agent' = next
  /\ call' = Quiet
  /\ UNCHANGED <<repositoryVars, late, resumed>>

LeasedCall(errand, a) ==
  [NoCall EXCEPT !.errand = errand, !.job = a.job, !.lease = a.lease]

\* control_state.
Polls(place, a) == Calls([a EXCEPT !.at = place], LeasedCall("control", a))

\* execute_lease reports the result of execute.
Concludes(a, succeeded) ==
  LET done == [a EXCEPT !.at = "completing", !.child = "none", !.succeeded = succeeded]
  IN  Calls(done, [LeasedCall("complete", done) EXCEPT !.succeeded = succeeded])

\* progress for the given step of the script.
Starts(a, step) ==
  LET next == [a EXCEPT !.at = "starting", !.step = step, !.child = "none"]
  IN  Calls(next, [LeasedCall("progress", next) EXCEPT !.stage = Script[step].stage])

\* The work of the step is done.
MovesOn ==
  IF agent.step = Len(Script) THEN Concludes(agent, TRUE) ELSE Starts(agent, agent.step + 1)

Claim ==
  /\ agent.at = "polling"
  /\ Calls([agent EXCEPT !.at = "claiming"], [NoCall EXCEPT !.errand = "claim"])

\* The claim found a job, which may be refused before any report of progress (no
\* inventory, an operation the agent does not know); or it found none or failed,
\* and the agent loops.
Claimed ==
  \/ /\ Gets("claiming", {"job"})
     /\ LET a == [agent EXCEPT !.job = call.job, !.lease = call.lease]
        IN  Starts(a, 1) \/ Concludes(a, FALSE)
  \/ /\ Gets("claiming", {"nothing", "refused", "failed"})
     /\ Rests(IdleAgent)

\* progress returned.  A failed report fails the job.
Started ==
  \/ /\ Gets("starting", {"ok"})
     /\ IF Script[agent.step].work \subseteq {"child", "stream"}
        THEN Polls("awaiting", agent)
        ELSE \/ MovesOn
             \/ Script[agent.step].work = {"check"} /\ Concludes(agent, FALSE)
  \/ /\ Gets("starting", {"refused", "failed"})
     /\ Concludes(agent, FALSE)

\* await_running, before a child is spawned and before every streamed chunk.
\* Unlike run_checked it does not survive a failed poll.
Awaited ==
  \/ Gets("awaiting", {"paused"}) /\ Polls("awaiting", agent)
  \/ /\ Gets("awaiting", {"running"})
     /\ \/ /\ "child" \in Script[agent.step].work
           /\ Polls("watching", [agent EXCEPT !.child = "running"])
        \/ /\ "stream" \in Script[agent.step].work
           /\ Polls("awaiting", agent) \/ MovesOn
        \/ Concludes(agent, FALSE)
  \/ Gets("awaiting", {"refused", "failed"}) /\ Concludes(agent, FALSE)

\* Slip: a failed poll counts as permission to run.
WatchedOptimistically ==
  \/ /\ Gets("watching", {"refused", "failed", "running"})
     /\ agent.child \in {"running", "suspended"}
     /\ Polls("watching", [agent EXCEPT !.child = "running"])
  \/ /\ Gets("watching", {"paused"})
     /\ agent.child \in {"running", "suspended"}
     /\ Polls("watching", [agent EXCEPT !.child = "suspended"])
  \/ /\ Gets("watching", {"running", "paused"})
     /\ agent.child = "exited"
     /\ MovesOn \/ Concludes(agent, FALSE)

\* The loop of run_checked: a failed poll changes nothing, and the child is not
\* looked at; a paused job suspends the child and a running one resumes it; then
\* the child may turn out to have exited, well or badly.  Suspending or resuming
\* may fail, and then the child is killed.
Watched ==
  \/ /\ Gets("watching", {"refused", "failed"})
     /\ Polls("watching", agent)
  \/ /\ Gets("watching", {"running"}) /\ agent.child \in {"running", "suspended"}
     /\ Polls("watching", [agent EXCEPT !.child = "running"])
  \/ /\ Gets("watching", {"paused"}) /\ agent.child \in {"running", "suspended"}
     /\ Polls("watching", [agent EXCEPT !.child = "suspended"])
  \/ /\ \/ Gets("watching", {"running"}) /\ agent.child = "suspended"
        \/ Gets("watching", {"paused"})  /\ agent.child = "running"
     /\ Concludes(agent, FALSE)
  \/ /\ Gets("watching", {"running", "paused"}) /\ agent.child = "exited"
     /\ MovesOn \/ Concludes(agent, FALSE)

\* Slip: any final answer to the completion ends the job for the agent.
CompletedWhateverTheAnswer ==
  \/ /\ Gets("completing", {"ok", "refused"})
     /\ Rests(IF agent.succeeded THEN [agent EXCEPT !.at = "rebooting"] ELSE IdleAgent)
  \/ /\ Gets("completing", {"failed"})
     /\ Concludes(agent, agent.succeeded)

\* The completion report is repeated while it fails; a refused one ends the
\* process.  A confirmed success reboots the machine.
Completed ==
  \/ /\ Gets("completing", {"ok"})
     /\ Rests(IF agent.succeeded THEN [agent EXCEPT !.at = "rebooting"] ELSE IdleAgent)
  \/ /\ Gets("completing", {"failed"})
     /\ Concludes(agent, agent.succeeded)
  \/ /\ Gets("completing", {"refused"})
     /\ Rests([agent EXCEPT !.at = "stopped"])

\* The process the agent started runs to its end.
ChildExits ==
  /\ agent.child = "running"
  /\ agent' = [agent EXCEPT !.child = "exited"]
  /\ UNCHANGED <<repositoryVars, call, late, resumed>>

\* The machine loses power at any point, and boots the agent again.
PowerOff ==
  /\ agent.at # "off"
  /\ agent' = [IdleAgent EXCEPT !.at = "off"]
  /\ call' = Quiet
  /\ \/ late' = late
     \/ /\ call.ask # NoCall /\ call.answer = "none" /\ Cardinality(late) < MaxLate
        /\ late' = late \cup {call.ask}
  /\ UNCHANGED <<repositoryVars, resumed>>

PowerOn == agent.at = "off" /\ Rests(IdleAgent)

AgentStep == Claim \/ Claimed \/ Started \/ Awaited \/ Watched \/ Completed
Network   == GiveUp \/ LoseLate

------------------------------------------------------------------------------
(* The operator and the control plane's process. *)

\* Windows jobs of the machine.
Operate ==
  /\ \/ \E j \in JobId, i \in ImageId : Insert(j, "DeployWindows", Machine, i, "waiting")
     \/ \E j \in JobId, next \in JobState : Transition(j, next)
     \/ \E j \in JobId : Remove(j)
  /\ resumed' = (resumed \/ \E j \in JobId : Surviving[j].state # "running"
                                             /\ Surviving'[j].state = "running")
  /\ call' = Connected(call)
  /\ late' = IF up' THEN late ELSE {}
  /\ UNCHANGED agent

Surroundings ==
  /\ Environment
  /\ call' = Connected(call)
  /\ late' = IF up' THEN late ELSE {}
  /\ UNCHANGED <<agent, resumed>>

ExecutionNext ==
  \/ Operate \/ Surroundings
  \/ Serve \/ ServeLate \/ Network
  \/ AgentStep \/ ChildExits \/ PowerOff \/ PowerOn

ExecutionSpec == ExecutionInit /\ [][ExecutionNext]_executionVars

\* The agent always acts on an answer.  A call is served, and its answer
\* arrives, infinitely often if there are calls infinitely often: the network
\* and the host may fail for as long as they like, but not for ever.
FairExecutionSpec ==
  /\ ExecutionSpec
  /\ WF_executionVars(AgentStep)
  /\ SF_executionVars(Serve)
  /\ SF_executionVars(AgentStep /\ call.answer \notin {"none", "failed"})

------------------------------------------------------------------------------
(* Properties. *)

\* The agent's report is the only call that ends a running job and clears its
\* lease, and it never does so while the agent still works under that lease:
\* a report from before a power failure cannot end the attempt made after it.
ReportEndsOnlyFinishedWork ==
  [][\A j \in JobId :
       ( /\ jobs[j].state \in {"running", "paused"}
         /\ jobs'[j].state \in {"succeeded", "failed"} /\ jobs'[j].lease = NoLease )
       => ~(/\ agent.job = j /\ agent.lease = jobs[j].lease
            /\ agent.at \in {"starting", "awaiting", "watching"})]_executionVars

\* A suspended process is resumed only after the operator made the job run
\* again: no outage, lost answer or restart of the host resumes it.
ResumesOnlyWhenAsked ==
  [][agent.child = "suspended" /\ agent'.child = "running" => resumed]_executionVars

\* A machine that reboots into its new system has its job on record as
\* succeeded (until the operator removes it), through any crash of the host.
RebootsOnlyOnRecord ==
  agent.at = "rebooting" =>
    (IF up THEN jobs ELSE disk)[agent.job].state \in {"succeeded", Absent}

\* Pause takes effect: while a job stays paused under the agent's lease, the
\* process that writes the disk does not run for ever.
PauseTakesEffect ==
  \A j \in JobId :
    <>[](up /\ jobs[j].state = "paused" /\ jobs[j].lease = agent.lease)
      => []<>(agent.child # "running")

\* Cancellation takes effect: the agent of a cancelled job does not sit for ever
\* on the process it started for it.
CancellationTakesEffect ==
  \A j \in JobId :
    <>[](up /\ jobs[j].state = "cancelled" /\ agent.job = j)
      => []<>(agent.at # "watching")
==============================================================================
