------------------------- MODULE AgentExecutionProofs -------------------------
(***************************************************************************)
(* Theorems about AgentExecution, for any sets of jobs and devices, any    *)
(* lease lengths, any number of delayed calls, and with or without storage *)
(* faults.                                                                 *)
(*                                                                         *)
(* The argument.  Every call the agent ever made names a job and a lease   *)
(* that was issued, so whatever the network does with it is a step of the  *)
(* job repository or no step of it, and what JobRepositoryProofs shows     *)
(* holds behind the agent.  A claim is answered with a lease no earlier    *)
(* call can carry; a completion is answered "ok" only when the record it   *)
(* asked for was written, and a succeeded job only ever disappears; and    *)
(* once a paused job was reported to the agent, only the operator makes it *)
(* run under the same lease.                                               *)
(***************************************************************************)
EXTENDS AgentExecution, JobRepositoryProofs

Executing == {"starting", "awaiting", "watching"}
Resting   == {"polling", "rebooting", "stopped", "off"}

\* A call that was made: its lease was issued.
AskOK(c) ==
  /\ c \in Call
  /\ c.errand \in {"progress", "control", "complete"} =>
       c.job \in JobId /\ c.lease \in 1..issued
  /\ c.errand = "progress" => c.stage \in AgentStage

\* The calls are well formed.
CallsOK ==
  /\ issued \in Nat
  /\ AgentTypeOK
  /\ AskOK(call.ask)
  /\ \A c \in late : AskOK(c)
  /\ call.answer = "job" =>
       agent.at = "claiming" /\ call.job \in JobId /\ call.lease \in 1..issued

\* The call in progress is the one the agent's place stands for.
CallFits ==
  /\ agent.at \in Resting => call = Quiet
  /\ agent.at = "claiming" => call.ask.errand = "claim"
  /\ agent.at = "starting" => call.ask.errand = "progress"
  /\ agent.at \in {"awaiting", "watching"} => call.ask.errand = "control"
  /\ agent.at = "completing" =>
       call.ask.errand = "complete" /\ call.ask.succeeded = agent.succeeded
  /\ agent.at \in Executing \cup {"completing"} =>
       call.ask.job = agent.job /\ call.ask.lease = agent.lease
  /\ agent.at \notin {"polling", "claiming", "off"} =>
       agent.job \in JobId /\ agent.lease \in 1..issued
  /\ agent.at \in Executing => agent.step \in 1..Len(Script)
  /\ agent.child # "none" => agent.at = "watching"

ConversationInv == CallsOK /\ CallFits

\* No delayed report speaks of the attempt the agent is working on, nor of the
\* one it is about to begin.
ReportsAreOld ==
  /\ agent.at \in Executing =>
       \A c \in late : c.errand = "complete" => c.lease # agent.lease
  /\ call.answer = "job" =>
       \A c \in late : c.errand = "complete" => c.lease # call.lease

\* A job that is on record as succeeded, or was removed since.
OnRecord(j) == j \in spent /\ Surviving[j].state \in {"succeeded", Absent}

SuccessIsOnRecord ==
  /\ agent.at = "completing" /\ agent.succeeded /\ call.answer = "ok" =>
       OnRecord(agent.job)
  /\ agent.at = "rebooting" => OnRecord(agent.job)

\* Whether the agent's job runs under the agent's lease.
RunsForAgent ==
  Surviving[agent.job].state = "running" /\ Surviving[agent.job].lease = agent.lease

PauseIsHeld ==
  /\ agent.at = "watching" /\ (agent.child = "suspended" \/ call.answer = "paused")
       => resumed \/ ~RunsForAgent
  /\ agent.child = "suspended" /\ call.answer = "running" => resumed

\* The inductive invariant of the agent, beside that of the repository.
ExecutionInv == ConversationInv /\ ReportsAreOld /\ SuccessIsOnRecord /\ PauseIsHeld

------------------------------------------------------------------------------
(* The agent's own steps. *)

LEMMA ScriptLength == Len(Script) \in Nat /\ Len(Script) >= 1
  BY DEF Script

\* The stages an agent reports are stages.
LEMMA ScriptStages ==
  ASSUME NEW n \in 1..Len(Script)
  PROVE  Script[n].stage \in AgentStage /\ Script[n].stage \in DeploymentStage
  BY AgentAssumption, RepositoryAssumption

LEMMA QuietType ==
  /\ NoCall \in Call /\ NoCall.errand = "none"
  /\ Quiet \in [ask : Call, answer : Answer, job : JobId \cup {None}, lease : Nat]
  /\ Quiet.ask = NoCall /\ Quiet.answer = "none"
  /\ IdleAgent \in Agent /\ IdleAgent.child = "none" /\ IdleAgent.at = "polling"
<1>1. NoCall \in Call /\ NoCall.errand = "none"
  BY DEF NoCall, Call, Errand, DeploymentStage, NoLease
<1>2. IdleAgent \in Agent /\ IdleAgent.child = "none" /\ IdleAgent.at = "polling"
  BY ScriptLength DEF IdleAgent, Agent, AgentPlace, NoLease
<1> QED
  BY <1>1, <1>2 DEF Quiet, Answer, NoLease

\* What an agent's step does to what the other parts of the invariant speak of.
AgentMove ==
  /\ UNCHANGED repositoryVars /\ late' = late /\ resumed' = resumed
  /\ call'.answer = "none"
  /\ agent'.at \in Executing =>
       \/ agent.at \in Executing /\ agent'.lease = agent.lease
       \/ call.answer = "job" /\ agent'.lease = call.lease
  /\ agent'.at = "rebooting" =>
       /\ agent.at = "completing" /\ agent.succeeded /\ call.answer = "ok"
       /\ agent'.job = agent.job
  /\ agent'.child = "suspended" =>
       /\ agent.at = "watching" /\ (agent.child = "suspended" \/ call.answer = "paused")
       /\ agent'.job = agent.job /\ agent'.lease = agent.lease
  /\ agent.child = "suspended" /\ agent'.child = "running" => call.answer = "running"

\* An agent that holds a lease.
Works(a) == a \in Agent /\ a.job \in JobId /\ a.lease \in 1..issued

LEMMA LeasedCallType ==
  ASSUME ConversationInv, NEW a, Works(a),
         NEW errand \in {"progress", "control", "complete"}
  PROVE  /\ a.lease \in Nat
         /\ LeasedCall(errand, a) \in Call
         /\ LeasedCall(errand, a).errand = errand
         /\ LeasedCall(errand, a).job = a.job /\ LeasedCall(errand, a).lease = a.lease
<1>1. a.lease \in Nat /\ a.job \in JobId
  BY DEF Works, ConversationInv, CallsOK
<1>2. errand \in Errand
  BY DEF Errand
<1> DEFINE l == a.lease
           j == a.job
           c == [NoCall EXCEPT !.errand = errand, !.job = j, !.lease = l]
<1> HIDE DEF l, j
<1>3. NoCall \in Call
  BY QuietType
<1>4. c \in Call /\ c.errand = errand /\ c.job = j /\ c.lease = l
  BY <1>1, <1>2, <1>3 DEF Call, j, l
<1>5. LeasedCall(errand, a) = c
  BY DEF LeasedCall, j, l
<1> QED
  BY <1>1, <1>4, <1>5 DEF j, l

LEMMA StartsKeepsConversation ==
  ASSUME ConversationInv, NEW a, Works(a), NEW step \in 1..Len(Script),
         Starts(a, step)
  PROVE  /\ ConversationInv'
         /\ UNCHANGED repositoryVars /\ late' = late /\ resumed' = resumed
         /\ call'.answer = "none" /\ agent'.at = "starting" /\ agent'.child = "none"
         /\ agent'.lease = a.lease
<1> DEFINE next == [a EXCEPT !.at = "starting", !.step = step, !.child = "none"]
           c    == [LeasedCall("progress", next) EXCEPT !.stage = Script[step].stage]
<1>1. /\ agent' = next /\ call' = [Quiet EXCEPT !.ask = c]
      /\ UNCHANGED repositoryVars /\ late' = late /\ resumed' = resumed
      /\ issued' = issued
  BY DEF Starts, Calls, repositoryVars
<1>2. /\ next \in Agent /\ next.at = "starting" /\ next.child = "none"
      /\ next.job = a.job /\ next.lease = a.lease /\ next.step = step
  <2>1. a \in Agent /\ step \in 0..Len(Script) /\ "starting" \in AgentPlace
    BY ScriptLength DEF Works, AgentPlace
  <2> QED
    BY <2>1 DEF Agent
<1> HIDE DEF next
<1>3. /\ c \in Call /\ c.errand = "progress" /\ c.job = a.job /\ c.lease = a.lease
      /\ c.stage \in AgentStage
  <2> DEFINE asked == LeasedCall("progress", next)
             stage == Script[step].stage
  <2>1. /\ asked \in Call /\ asked.errand = "progress"
        /\ asked.job = a.job /\ asked.lease = a.lease
    BY <1>2, LeasedCallType DEF Works
  <2>2. stage \in DeploymentStage /\ stage \in AgentStage
    BY ScriptStages
  <2> HIDE DEF asked, stage
  <2>3. c = [asked EXCEPT !.stage = stage]
    BY DEF asked, stage
  <2> QED
    BY <2>1, <2>2, <2>3 DEF Call
<1> HIDE DEF c
<1>4. AskOK(c)
  BY <1>3 DEF AskOK, Works
<1>5. /\ call' \in [ask : Call, answer : Answer, job : JobId \cup {None}, lease : Nat]
      /\ call'.ask = c /\ call'.answer = "none"
  BY <1>1, <1>3, QuietType
<1>6. CallsOK'
  BY <1>1, <1>2, <1>4, <1>5 DEF ConversationInv, CallsOK, AgentTypeOK, AskOK
<1>7. CallFits'
  BY <1>1, <1>2, <1>3, <1>5 DEF CallFits, Works, Executing, Resting
<1> QED
  BY <1>1, <1>2, <1>5, <1>6, <1>7 DEF ConversationInv

LEMMA PollsKeepsConversation ==
  ASSUME ConversationInv, NEW place \in {"awaiting", "watching"}, NEW a, Works(a),
         a.step \in 1..Len(Script), a.child # "none" => place = "watching",
         Polls(place, a)
  PROVE  /\ ConversationInv'
         /\ UNCHANGED repositoryVars /\ late' = late /\ resumed' = resumed
         /\ call'.answer = "none" /\ agent'.at = place /\ agent'.child = a.child
         /\ agent'.lease = a.lease /\ agent'.job = a.job
<1> DEFINE next == [a EXCEPT !.at = place]
           c    == LeasedCall("control", a)
<1>1. /\ agent' = next /\ call' = [Quiet EXCEPT !.ask = c]
      /\ UNCHANGED repositoryVars /\ late' = late /\ resumed' = resumed
      /\ issued' = issued
  BY DEF Polls, Calls, repositoryVars
<1>2. /\ next \in Agent /\ next.at = place /\ next.child = a.child
      /\ next.job = a.job /\ next.lease = a.lease /\ next.step = a.step
  BY DEF Works, Agent, AgentPlace
<1> HIDE DEF next
<1>3. c \in Call /\ c.errand = "control" /\ c.job = a.job /\ c.lease = a.lease
  BY LeasedCallType
<1> HIDE DEF c
<1>4. AskOK(c)
  BY <1>3 DEF AskOK, Works
<1>5. /\ call' \in [ask : Call, answer : Answer, job : JobId \cup {None}, lease : Nat]
      /\ call'.ask = c /\ call'.answer = "none"
  BY <1>1, <1>3, QuietType
<1>6. CallsOK'
  BY <1>1, <1>2, <1>4, <1>5 DEF ConversationInv, CallsOK, AgentTypeOK, AskOK
<1>7. CallFits'
  BY <1>1, <1>2, <1>3, <1>5 DEF CallFits, Works, Executing, Resting
<1> QED
  BY <1>1, <1>2, <1>5, <1>6, <1>7 DEF ConversationInv

LEMMA ConcludesKeepsConversation ==
  ASSUME ConversationInv, NEW a, Works(a), NEW succeeded \in BOOLEAN,
         Concludes(a, succeeded)
  PROVE  /\ ConversationInv'
         /\ UNCHANGED repositoryVars /\ late' = late /\ resumed' = resumed
         /\ call'.answer = "none" /\ agent'.at = "completing" /\ agent'.child = "none"
<1> DEFINE next == [a EXCEPT !.at = "completing", !.child = "none", !.succeeded = succeeded]
           c    == [LeasedCall("complete", next) EXCEPT !.succeeded = succeeded]
<1>1. /\ agent' = next /\ call' = [Quiet EXCEPT !.ask = c]
      /\ UNCHANGED repositoryVars /\ late' = late /\ resumed' = resumed
      /\ issued' = issued
  BY DEF Concludes, Calls, repositoryVars
<1>2. /\ next \in Agent /\ next.at = "completing" /\ next.child = "none"
      /\ next.job = a.job /\ next.lease = a.lease /\ next.succeeded = succeeded
  BY DEF Works, Agent, AgentPlace
<1> HIDE DEF next
<1>3. /\ c \in Call /\ c.errand = "complete" /\ c.job = a.job /\ c.lease = a.lease
      /\ c.succeeded = succeeded
  <2> DEFINE asked == LeasedCall("complete", next)
  <2>1. /\ asked \in Call /\ asked.errand = "complete"
        /\ asked.job = a.job /\ asked.lease = a.lease
    BY <1>2, LeasedCallType DEF Works
  <2> HIDE DEF asked
  <2>2. c = [asked EXCEPT !.succeeded = succeeded]
    BY DEF asked
  <2> QED
    BY <2>1, <2>2 DEF Call
<1> HIDE DEF c
<1>4. AskOK(c)
  BY <1>3 DEF AskOK, Works
<1>5. /\ call' \in [ask : Call, answer : Answer, job : JobId \cup {None}, lease : Nat]
      /\ call'.ask = c /\ call'.answer = "none"
  BY <1>1, <1>3, QuietType
<1>6. CallsOK'
  BY <1>1, <1>2, <1>4, <1>5 DEF ConversationInv, CallsOK, AgentTypeOK, AskOK
<1>7. CallFits'
  BY <1>1, <1>2, <1>3, <1>5 DEF CallFits, Works, Executing, Resting
<1> QED
  BY <1>1, <1>2, <1>5, <1>6, <1>7 DEF ConversationInv

LEMMA RestsKeepsConversation ==
  ASSUME ConversationInv, NEW next \in Agent, next.at \in Resting, next.child = "none",
         next.at \in {"rebooting", "stopped"} => Works(next),
         agent' = next, call' = Quiet, issued' = issued, late' \in SUBSET Call,
         \A c \in late' : AskOK(c), resumed' = resumed
  PROVE  ConversationInv'
<1>1. AskOK(NoCall)
  BY QuietType DEF AskOK
<1>2. CallsOK'
  BY <1>1, QuietType DEF ConversationInv, CallsOK, AgentTypeOK, AskOK
<1>3. CallFits'
  BY QuietType DEF CallFits, Works, Executing, Resting
<1> QED
  BY <1>2, <1>3 DEF ConversationInv

\* What the agent may do once a step of the script is over.
LEMMA MovesOnKeepsConversation ==
  ASSUME ConversationInv, Works(agent), agent.at \in Executing, MovesOn
  PROVE  ConversationInv' /\ AgentMove /\ agent'.child = "none"
<1>1. agent.step \in 1..Len(Script) /\ Len(Script) \in Nat
  BY ScriptLength DEF ConversationInv, CallFits
<1>2. CASE Concludes(agent, TRUE)
  BY <1>2, ConcludesKeepsConversation DEF AgentMove, Executing
<1>3. CASE agent.step # Len(Script) /\ Starts(agent, agent.step + 1)
  <2>1. agent.step + 1 \in 1..Len(Script)
    BY <1>1, <1>3
  <2> QED
    BY <1>3, <2>1, StartsKeepsConversation DEF AgentMove, Executing
<1> QED
  BY <1>2, <1>3 DEF MovesOn

LEMMA ClaimMoves ==
  ASSUME ConversationInv, Claim
  PROVE  ConversationInv' /\ AgentMove
<1> DEFINE next == [agent EXCEPT !.at = "claiming"]
           c    == [NoCall EXCEPT !.errand = "claim"]
<1>1. /\ agent' = next /\ call' = [Quiet EXCEPT !.ask = c]
      /\ UNCHANGED repositoryVars /\ late' = late /\ resumed' = resumed
      /\ issued' = issued /\ agent.at = "polling"
  BY DEF Claim, Calls, repositoryVars
<1>2. agent \in Agent /\ agent.child = "none"
  BY <1>1 DEF ConversationInv, CallsOK, AgentTypeOK, CallFits
<1>3. next \in Agent /\ next.at = "claiming" /\ next.child = "none"
  BY <1>2 DEF Agent, AgentPlace
<1> HIDE DEF next
<1>4. c \in Call /\ c.errand = "claim"
  BY QuietType DEF Call, Errand
<1> HIDE DEF c
<1>5. AskOK(c)
  BY <1>4 DEF AskOK
<1>6. /\ call' \in [ask : Call, answer : Answer, job : JobId \cup {None}, lease : Nat]
      /\ call'.ask = c /\ call'.answer = "none"
  BY <1>1, <1>4, QuietType
<1>7. CallsOK'
  BY <1>1, <1>3, <1>5, <1>6 DEF ConversationInv, CallsOK, AgentTypeOK, AskOK
<1>8. CallFits'
  BY <1>1, <1>3, <1>4, <1>6 DEF CallFits, Executing, Resting
<1> QED
  BY <1>1, <1>3, <1>6, <1>7, <1>8 DEF ConversationInv, AgentMove, Executing

\* The agent comes to rest between two jobs, or for good.
LEMMA RestMoves ==
  ASSUME ConversationInv, NEW next \in Agent, next.at \in Resting, next.child = "none",
         next.at \in {"rebooting", "stopped"} => Works(next),
         next.at = "rebooting" =>
           /\ agent.at = "completing" /\ agent.succeeded /\ call.answer = "ok"
           /\ next.job = agent.job,
         Rests(next)
  PROVE  ConversationInv' /\ AgentMove
<1>1. /\ agent' = next /\ call' = Quiet
      /\ UNCHANGED repositoryVars /\ late' = late /\ resumed' = resumed
      /\ issued' = issued
  BY DEF Rests, repositoryVars
<1>2. late' \in SUBSET Call /\ \A c \in late' : AskOK(c)
  BY <1>1 DEF ConversationInv, CallsOK, AgentTypeOK
<1>3. ConversationInv'
  BY <1>1, <1>2, RestsKeepsConversation
<1>4. AgentMove
  BY <1>1, QuietType DEF AgentMove, Executing, Resting
<1> QED
  BY <1>3, <1>4

LEMMA ClaimedMoves ==
  ASSUME ConversationInv, Claimed
  PROVE  ConversationInv' /\ AgentMove
<1>1. CASE /\ Gets("claiming", {"job"})
           /\ LET a == [agent EXCEPT !.job = call.job, !.lease = call.lease]
              IN  Starts(a, 1) \/ Concludes(a, FALSE)
  <2> DEFINE a == [agent EXCEPT !.job = call.job, !.lease = call.lease]
  <2>1. /\ agent \in Agent /\ issued \in Nat /\ call.answer = "job"
        /\ call.job \in JobId /\ call.lease \in 1..issued
        /\ call.lease \in Nat
        /\ agent.child = "none"
    BY <1>1 DEF Gets, ConversationInv, CallsOK, AgentTypeOK, CallFits
  <2>2. a \in Agent /\ a.job = call.job /\ a.lease = call.lease
    BY <2>1 DEF Agent
  <2>3. Works(a) /\ a.lease = call.lease
    BY <2>1, <2>2 DEF Works
  <2>4. Starts(a, 1) \/ Concludes(a, FALSE)
    BY <1>1
  <2> HIDE DEF a
  <2>5. 1 \in 1..Len(Script)
    BY ScriptLength
  <2>6. CASE Starts(a, 1)
    BY <2>1, <2>3, <2>5, <2>6, StartsKeepsConversation DEF AgentMove, Executing
  <2>7. CASE Concludes(a, FALSE)
    BY <2>1, <2>3, <2>7, ConcludesKeepsConversation DEF AgentMove, Executing
  <2> QED
    BY <2>4, <2>6, <2>7
<1>2. CASE Rests(IdleAgent)
  BY <1>2, QuietType, RestMoves DEF Resting
<1> QED
  BY <1>1, <1>2 DEF Claimed

\* While the agent works it holds a lease.
LEMMA AgentWorks ==
  ASSUME ConversationInv, agent.at \in Executing \cup {"completing"}
  PROVE  /\ Works(agent)
         /\ agent.at \in Executing => agent.step \in 1..Len(Script)
         /\ agent.at # "watching" => agent.child = "none"
  BY DEF ConversationInv, CallsOK, AgentTypeOK, CallFits, Works, Executing

LEMMA ConcludesMoves ==
  ASSUME ConversationInv, Works(agent), NEW succeeded \in BOOLEAN,
         Concludes(agent, succeeded)
  PROVE  ConversationInv' /\ AgentMove
  BY ConcludesKeepsConversation DEF AgentMove, Executing

LEMMA StartedMoves ==
  ASSUME ConversationInv, Started
  PROVE  ConversationInv' /\ AgentMove
<1>1. agent.at = "starting"
  BY DEF Started, Gets
<1>2. Works(agent) /\ agent.step \in 1..Len(Script) /\ agent.child = "none"
  BY <1>1, AgentWorks DEF Executing
<1>3. CASE Polls("awaiting", agent)
  BY <1>1, <1>2, <1>3, PollsKeepsConversation DEF AgentMove, Executing
<1>4. CASE MovesOn
  BY <1>1, <1>2, <1>4, MovesOnKeepsConversation DEF Executing
<1>5. CASE Concludes(agent, FALSE)
  BY <1>2, <1>5, ConcludesMoves
<1> QED
  BY <1>3, <1>4, <1>5 DEF Started

LEMMA AwaitedMoves ==
  ASSUME ConversationInv, Awaited
  PROVE  ConversationInv' /\ AgentMove
<1>1. agent.at = "awaiting"
  BY DEF Awaited, Gets
<1>2. Works(agent) /\ agent.step \in 1..Len(Script) /\ agent.child = "none"
  BY <1>1, AgentWorks DEF Executing
<1>3. CASE Polls("awaiting", agent)
  BY <1>1, <1>2, <1>3, PollsKeepsConversation DEF AgentMove, Executing
<1>4. CASE Polls("watching", [agent EXCEPT !.child = "running"])
  <2> DEFINE a == [agent EXCEPT !.child = "running"]
  <2>1. /\ a \in Agent /\ a.job = agent.job /\ a.lease = agent.lease
        /\ a.step = agent.step /\ a.child = "running"
    BY <1>2 DEF Works, Agent
  <2>2. Polls("watching", a)
    BY <1>4
  <2> HIDE DEF a
  <2>3. Works(a)
    BY <1>2, <2>1 DEF Works
  <2> QED
    BY <1>1, <1>2, <2>1, <2>2, <2>3, PollsKeepsConversation DEF AgentMove, Executing
<1>5. CASE MovesOn
  BY <1>1, <1>2, <1>5, MovesOnKeepsConversation DEF Executing
<1>6. CASE Concludes(agent, FALSE)
  BY <1>2, <1>6, ConcludesMoves
<1> QED
  BY <1>3, <1>4, <1>5, <1>6 DEF Awaited

LEMMA WatchedMoves ==
  ASSUME ConversationInv, Watched
  PROVE  ConversationInv' /\ AgentMove
<1>1. agent.at = "watching"
  BY DEF Watched, Gets
<1>2. Works(agent) /\ agent.step \in 1..Len(Script)
  BY <1>1, AgentWorks DEF Executing
<1>3. CASE Polls("watching", agent)
  BY <1>1, <1>2, <1>3, PollsKeepsConversation DEF AgentMove, Executing
<1>4. ASSUME NEW child \in {"running", "suspended"},
             child = "running" => call.answer = "running",
             child = "suspended" => call.answer = "paused",
             Polls("watching", [agent EXCEPT !.child = child])
      PROVE  ConversationInv' /\ AgentMove
  <2> DEFINE a == [agent EXCEPT !.child = child]
  <2>1. /\ a \in Agent /\ a.job = agent.job /\ a.lease = agent.lease
        /\ a.step = agent.step /\ a.child = child
    BY <1>2 DEF Works, Agent
  <2>2. Polls("watching", a)
    BY <1>4
  <2> HIDE DEF a
  <2>3. Works(a)
    BY <1>2, <2>1 DEF Works
  <2> QED
    BY <1>1, <1>2, <1>4, <2>1, <2>2, <2>3, PollsKeepsConversation DEF AgentMove, Executing
<1>5. CASE MovesOn
  BY <1>1, <1>2, <1>5, MovesOnKeepsConversation DEF Executing
<1>6. CASE Concludes(agent, FALSE)
  BY <1>2, <1>6, ConcludesMoves
<1> QED
  BY <1>3, <1>4, <1>5, <1>6 DEF Watched, Gets

LEMMA CompletedMoves ==
  ASSUME ConversationInv, Completed
  PROVE  ConversationInv' /\ AgentMove
<1>1. agent.at = "completing"
  BY DEF Completed, Gets
<1>2. Works(agent) /\ agent.child = "none" /\ agent.succeeded \in BOOLEAN
  BY <1>1, AgentWorks DEF Works, Agent
<1>3. ASSUME NEW place \in {"rebooting", "stopped"},
             place = "rebooting" => agent.succeeded /\ call.answer = "ok",
             Rests([agent EXCEPT !.at = place])
      PROVE  ConversationInv' /\ AgentMove
  <2> DEFINE a == [agent EXCEPT !.at = place]
  <2>1. /\ a \in Agent /\ a.job = agent.job /\ a.lease = agent.lease
        /\ a.at = place /\ a.child = "none"
    BY <1>2 DEF Works, Agent, AgentPlace
  <2>2. Rests(a)
    BY <1>3
  <2> HIDE DEF a
  <2>3. Works(a)
    BY <1>2, <2>1 DEF Works
  <2> QED
    BY <1>1, <1>3, <2>1, <2>2, <2>3, RestMoves DEF Resting
<1>4. CASE Rests(IdleAgent)
  BY <1>4, QuietType, RestMoves DEF Resting
<1>5. CASE Concludes(agent, agent.succeeded)
  BY <1>2, <1>5, ConcludesMoves
<1> QED
  BY <1>3, <1>4, <1>5 DEF Completed, Gets

LEMMA AgentStepMoves ==
  ASSUME ConversationInv, AgentStep
  PROVE  ConversationInv' /\ AgentMove
  BY ClaimMoves, ClaimedMoves, StartedMoves, AwaitedMoves, WatchedMoves, CompletedMoves
     DEF AgentStep

------------------------------------------------------------------------------
(* The control plane, the network and the machine. *)

CallRecord == [ask : Call, answer : Answer, job : JobId \cup {None}, lease : Nat]

\* A step that leaves the agent alone, and whose answers are well formed.
LEMMA ConversationStays ==
  ASSUME ConversationInv, agent' = agent, call' \in CallRecord, call'.ask = call.ask,
         late' \subseteq late \cup {call.ask}, issued' \in Nat, issued <= issued',
         resumed' \in BOOLEAN, agent.at \in Resting => call' = call,
         call'.answer = "job" =>
           agent.at = "claiming" /\ call'.job \in JobId /\ call'.lease \in 1..issued'
  PROVE  ConversationInv'
<1>1. ASSUME NEW c, AskOK(c) PROVE AskOK(c)'
  BY <1>1 DEF AskOK, ConversationInv, CallsOK
<1>2. AskOK(call.ask) /\ \A c \in late : AskOK(c)
  BY DEF ConversationInv, CallsOK
<1>3. \A c \in late' : AskOK(c)'
  BY <1>1, <1>2
<1>4. late' \subseteq Call
  BY <1>2 DEF AskOK
<1>5. AskOK(call.ask)'
  BY <1>2 DEF AskOK, ConversationInv, CallsOK
<1>6. CallsOK'
  BY <1>3, <1>4, <1>5 DEF ConversationInv, CallsOK, AgentTypeOK, CallRecord
<1>7. CallFits'
  BY DEF ConversationInv, CallFits, CallsOK
<1> QED
  BY <1>6, <1>7 DEF ConversationInv

LEMMA ConnectedCall ==
  ASSUME call \in CallRecord
  PROVE  /\ Connected(call) \in CallRecord /\ Connected(call).ask = call.ask
         /\ Connected(call) = call \/ Connected(call).answer = "failed"
         /\ call.ask = NoCall => Connected(call) = call
  BY DEF Connected, CallRecord, Answer

\* What serving the call c does to the conversation, when it is the agent's call
\* in progress or a late one.
Reply(c, mine) ==
  /\ agent' = agent /\ late' \subseteq late
  /\ call' \in CallRecord /\ call'.ask = call.ask
  /\ ~mine /\ call.ask = NoCall => call' = call
  /\ \/ call' = call
     \/ call'.answer \in {"failed", "refused", "nothing"}
     \/ /\ mine /\ c.errand = "claim" /\ call'.answer = "job"
        /\ call'.job \in JobId /\ call'.lease = issued + 1 /\ issued' = issued + 1
     \/ mine /\ c.errand = "progress" /\ call'.answer = "ok"
     \/ /\ mine /\ c.errand = "complete" /\ call'.answer = "ok"
        /\ Complete(c.job, Machine, c.lease, c.succeeded) /\ up' /\ intact'
     \/ /\ mine /\ c.errand = "control" /\ call'.answer \in {"running", "paused"}
        /\ HoldsLease(c.job, Machine, c.lease) /\ up
        /\ call'.answer = jobs[c.job].state
  /\ \/ resumed' = resumed
     \/ /\ mine /\ c.errand = "control" /\ resumed' = FALSE
        /\ up /\ jobs[c.job].state = "paused"
  /\ resumed' \in BOOLEAN
  /\ call'.answer = "paused" /\ call' # call => ~resumed'

LEMMA RepliedIs ==
  ASSUME NEW c, NEW mine \in BOOLEAN, NEW answer \in Answer \ {"job", "ok"},
         call \in CallRecord, resumed \in BOOLEAN, agent' = agent,
         Replied(c, mine, answer),
         answer \in {"running", "paused"} =>
           /\ c.errand = "control" /\ HoldsLease(c.job, Machine, c.lease) /\ up
           /\ jobs[c.job].state = answer,
         answer # "none"
  PROVE  Reply(c, mine)
<1>1. CASE mine
  <2>1. /\ call' = [call EXCEPT !.answer = answer] /\ late' = late
        /\ resumed' = (resumed /\ answer # "paused")
    BY <1>1 DEF Replied
  <2>2. /\ call' \in CallRecord /\ call'.ask = call.ask /\ call'.answer = answer
    BY <2>1 DEF CallRecord
  <2>3. answer \in {"running", "paused", "failed", "refused", "nothing"}
    BY DEF Answer
  <2> QED
    BY <1>1, <2>1, <2>2, <2>3 DEF Reply
<1>2. CASE ~mine
  BY <1>2 DEF Replied, Reply
<1> QED
  BY <1>1, <1>2

LEMMA AnsweredIs ==
  ASSUME NEW c, NEW mine \in BOOLEAN, NEW answer \in {"job", "refused", "ok", "running", "paused"},
         NEW j \in JobId \cup {None}, NEW l \in Nat,
         call \in CallRecord, resumed \in BOOLEAN, agent' = agent,
         Answered(c, mine, answer, j, l),
         answer \in {"running", "paused"} =>
           /\ c.errand = "control" /\ HoldsLease(c.job, Machine, c.lease) /\ up
           /\ jobs[c.job].state = answer,
         answer = "job" =>
           c.errand = "claim" /\ j \in JobId /\ l = issued + 1 /\ issued' = issued + 1,
         answer = "ok" =>
           \/ c.errand = "progress"
           \/ /\ c.errand = "complete"
              /\ Complete(c.job, Machine, c.lease, c.succeeded),
         intact' \in BOOLEAN
  PROVE  Reply(c, mine)
<1>1. late' \subseteq late /\ resumed' = (resumed /\ ~(mine /\ answer = "paused"))
  BY DEF Answered
<1>2. CASE mine /\ up'
  <2> DEFINE given == IF intact' THEN answer ELSE "refused"
  <2>1. given \in Answer /\ (given = "refused" \/ (given = answer /\ intact'))
    BY DEF Answer
  <2>2. call' = [call EXCEPT !.answer = given, !.job = j, !.lease = l]
    BY <1>2 DEF Answered
  <2> HIDE DEF given
  <2>3. /\ call' \in CallRecord /\ call'.ask = call.ask /\ call'.answer = given
        /\ call'.job = j /\ call'.lease = l
    BY <2>1, <2>2 DEF CallRecord
  <2> QED
    BY <1>1, <1>2, <2>1, <2>3 DEF Reply
<1>3. CASE ~(mine /\ up')
  <2>1. call' = Connected(call)
    BY <1>3 DEF Answered
  <2> QED
    BY <1>1, <2>1, ConnectedCall DEF Reply
<1> QED
  BY <1>2, <1>3

\* A call that was made is served as a call of the repository, or it changes
\* nothing there.
LEMMA HandleReplies ==
  ASSUME ConversationInv, NEW c, AskOK(c), NEW mine \in BOOLEAN, Handle(c, mine)
  PROVE  /\ Reply(c, mine)
         /\ AgentCall \/ UNCHANGED repositoryVars
         /\ issued' \in {issued, issued + 1}
<1>1. /\ up /\ agent' = agent /\ call \in CallRecord /\ resumed \in BOOLEAN
      /\ issued \in Nat /\ Machine \in DeviceId
  BY AgentAssumption DEF Handle, ConversationInv, CallsOK, AgentTypeOK, CallRecord
<1>2. NoLease \in Nat /\ None \in JobId \cup {None}
  BY DEF NoLease
<1>3. ASSUME NEW next, Commit(next) PROVE intact' \in BOOLEAN
  BY <1>3, CommitOutcome
<1>4. CASE c.errand = "claim" /\ ServeClaim(c, mine)
  <2>1. ASSUME NEW j \in JobId, NEW answer \in {"job", "refused"},
               LeaseForDevice(j, Machine), Answered(c, mine, answer, j, issued')
        PROVE  /\ Reply(c, mine) /\ AgentCall /\ issued' = issued + 1
    <3>1. issued' = issued + 1 /\ intact' \in BOOLEAN /\ issued' \in Nat
      BY <1>1, <1>3, <2>1 DEF LeaseForDevice
    <3>2. AgentCall
      BY <1>1, <2>1 DEF AgentCall
    <3>3. Reply(c, mine)
      BY <1>1, <1>4, <2>1, <3>1, AnsweredIs
    <3> QED
      BY <3>1, <3>2, <3>3
  <2>2. ASSUME Replied(c, mine, "nothing")
        PROVE  Reply(c, mine) /\ UNCHANGED repositoryVars /\ issued' = issued
    <3>1. Reply(c, mine)
      BY <1>1, <2>2, RepliedIs DEF Answer
    <3> QED
      BY <2>2, <3>1 DEF Replied, repositoryVars
  <2> QED
    BY <1>4, <2>1, <2>2 DEF ServeClaim
<1>5. ASSUME Replied(c, mine, "refused")
      PROVE  Reply(c, mine) /\ UNCHANGED repositoryVars /\ issued' = issued
  <2>1. Reply(c, mine)
    BY <1>1, <1>5, RepliedIs DEF Answer
  <2> QED
    BY <1>5, <2>1 DEF Replied, repositoryVars
<1>6. CASE c.errand = "progress" /\ ServeProgress(c, mine)
  <2>1. c.job \in JobId /\ c.lease \in 1..issued /\ c.stage \in AgentStage
    BY <1>6 DEF AskOK
  <2>2. ASSUME ReportProgress(c.job, Machine, c.lease, c.stage),
               Answered(c, mine, "ok", None, NoLease)
        PROVE  Reply(c, mine) /\ AgentCall /\ issued' = issued
    <3>1. issued' = issued /\ intact' \in BOOLEAN
      BY <1>3, <2>2 DEF ReportProgress
    <3>2. AgentCall
      BY <1>1, <2>1, <2>2 DEF AgentCall
    <3>3. Reply(c, mine)
      BY <1>1, <1>2, <1>6, <2>2, <3>1, AnsweredIs
    <3> QED
      BY <3>1, <3>2, <3>3
  <2> QED
    BY <1>5, <1>6, <2>2 DEF ServeProgress
<1>7. CASE c.errand = "control" /\ ServeControl(c, mine)
  <2>1. c.job \in JobId /\ c.lease \in 1..issued
    BY <1>7 DEF AskOK
  <2>2. ASSUME RenewControlLease(c.job, Machine, c.lease),
               Answered(c, mine, jobs[c.job].state, None, NoLease)
        PROVE  Reply(c, mine) /\ AgentCall /\ issued' = issued
    <3>1. issued' = issued /\ intact' \in BOOLEAN
      BY <1>3, <2>2 DEF RenewControlLease
    <3>2. AgentCall
      BY <1>1, <2>1, <2>2 DEF AgentCall
    <3>3. HoldsLease(c.job, Machine, c.lease) /\ jobs[c.job].state \in {"running", "paused"}
      BY <2>2 DEF RenewControlLease, HoldsLease
    <3>4. Reply(c, mine)
      BY <1>1, <1>2, <1>7, <2>2, <3>1, <3>3, AnsweredIs
    <3> QED
      BY <3>1, <3>2, <3>4
  <2>3. ASSUME HoldsLease(c.job, Machine, c.lease), Replied(c, mine, jobs[c.job].state)
        PROVE  Reply(c, mine) /\ UNCHANGED repositoryVars /\ issued' = issued
    <3>1. jobs[c.job].state \in {"running", "paused"}
      BY <2>3 DEF HoldsLease
    <3>2. Reply(c, mine)
      BY <1>1, <1>7, <2>3, <3>1, RepliedIs DEF Answer
    <3> QED
      BY <2>3, <3>2 DEF Replied, repositoryVars
  <2> QED
    BY <1>5, <1>7, <2>2, <2>3 DEF ServeControl
<1>8. CASE c.errand = "complete" /\ ServeComplete(c, mine)
  <2>1. c.job \in JobId /\ c.lease \in 1..issued /\ c.succeeded \in BOOLEAN
    BY <1>8 DEF AskOK, Call
  <2>2. ASSUME Complete(c.job, Machine, c.lease, c.succeeded),
               Answered(c, mine, "ok", None, NoLease)
        PROVE  Reply(c, mine) /\ AgentCall /\ issued' = issued
    <3>1. issued' = issued /\ intact' \in BOOLEAN
      BY <1>3, <2>2 DEF Complete
    <3>2. AgentCall
      BY <1>1, <2>1, <2>2 DEF AgentCall
    <3>3. Reply(c, mine)
      BY <1>1, <1>2, <1>8, <2>2, <3>1, AnsweredIs
    <3> QED
      BY <3>1, <3>2, <3>3
  <2> QED
    BY <1>5, <1>8, <2>2 DEF ServeComplete
<1> QED
  BY <1>4, <1>6, <1>7, <1>8 DEF Handle

LEMMA ReplyKeepsConversation ==
  ASSUME ConversationInv, NEW c, AskOK(c), NEW mine \in BOOLEAN, Handle(c, mine),
         mine => c = call.ask /\ call.ask # NoCall
  PROVE  ConversationInv'
<1>1. /\ Reply(c, mine) /\ issued' \in {issued, issued + 1} /\ issued \in Nat
      /\ c.errand = "claim" /\ mine => agent.at = "claiming"
      /\ agent.at \in Resting => call.ask = NoCall
  <2>1. /\ issued \in Nat /\ agent \in Agent
        /\ agent.at \in Resting => call.ask = NoCall
    BY QuietType DEF ConversationInv, CallsOK, AgentTypeOK, CallFits
  <2>2. ASSUME c.errand = "claim", mine
        PROVE  agent.at = "claiming"
    <3>1. agent.at \in AgentPlace /\ agent.at \notin Resting
      BY <2>1, <2>2 DEF Agent
    <3> QED
      BY <2>2, <3>1 DEF ConversationInv, CallFits, AgentPlace, Resting
  <2> QED
    BY <2>1, <2>2, HandleReplies
<1>2. issued' \in Nat /\ issued <= issued'
  BY <1>1
<1>3. call'.answer = "job" =>
        agent.at = "claiming" /\ call'.job \in JobId /\ call'.lease \in 1..issued'
  <2> SUFFICES ASSUME call'.answer = "job"
               PROVE  agent.at = "claiming" /\ call'.job \in JobId /\ call'.lease \in 1..issued'
    OBVIOUS
  <2>1. CASE call' = call
    BY <1>1, <2>1 DEF ConversationInv, CallsOK
  <2>2. CASE /\ mine /\ c.errand = "claim"
             /\ call'.job \in JobId /\ call'.lease = issued + 1 /\ issued' = issued + 1
    BY <1>1, <2>2
  <2> QED
    BY <1>1, <2>1, <2>2 DEF Reply
<1>4. agent.at \in Resting => call' = call
  BY <1>1 DEF Reply
<1> QED
  BY <1>1, <1>2, <1>3, <1>4, ConversationStays DEF Reply

LEMMA NetworkKeepsConversation ==
  ASSUME ConversationInv, Network
  PROVE  /\ ConversationInv' /\ UNCHANGED repositoryVars
         /\ agent' = agent /\ resumed' = resumed
         /\ call' = call \/ call'.answer = "failed"
         /\ late' \subseteq late \cup {call.ask}
<1>1. /\ call \in CallRecord /\ issued \in Nat /\ resumed \in BOOLEAN
      /\ call.ask \in Call
      /\ agent.at \in Resting => call.ask = NoCall
  BY QuietType DEF ConversationInv, CallsOK, AgentTypeOK, CallRecord, CallFits
<1>2. CASE GiveUp
  <2>1. call' = [call EXCEPT !.answer = "failed", !.job = None, !.lease = NoLease]
    BY <1>2 DEF GiveUp
  <2>2. call' \in CallRecord /\ call'.ask = call.ask /\ call'.answer = "failed"
    BY <1>1, <2>1 DEF CallRecord, Answer, NoLease
  <2>3. /\ UNCHANGED repositoryVars /\ agent' = agent /\ resumed' = resumed
        /\ issued' = issued /\ late' \subseteq late \cup {call.ask}
        /\ issued' \in Nat /\ issued <= issued' /\ resumed' \in BOOLEAN
        /\ agent.at \notin Resting
    BY <1>1, <1>2 DEF GiveUp, repositoryVars
  <2>4. ConversationInv'
    BY <2>2, <2>3, ConversationStays
  <2> QED
    BY <2>2, <2>3, <2>4
<1>3. CASE LoseLate
  <2>1. /\ UNCHANGED repositoryVars /\ agent' = agent /\ resumed' = resumed
        /\ issued' = issued /\ late' \subseteq late \cup {call.ask} /\ call' = call
    BY <1>3 DEF LoseLate, repositoryVars
  <2>2. call'.answer = "job" =>
          agent.at = "claiming" /\ call'.job \in JobId /\ call'.lease \in 1..issued'
    BY <2>1 DEF ConversationInv, CallsOK
  <2>3. /\ call' \in CallRecord /\ call'.ask = call.ask /\ agent' = agent
        /\ issued' \in Nat /\ issued <= issued' /\ resumed' \in BOOLEAN
        /\ late' \subseteq late \cup {call.ask}
        /\ agent.at \in Resting => call' = call
    BY <1>1, <2>1
  <2>4. ConversationInv'
    BY <2>2, <2>3, ConversationStays
  <2> QED
    BY <2>1, <2>4
<1> QED
  BY <1>2, <1>3 DEF Network

LEMMA ChildExitsKeepsConversation ==
  ASSUME ConversationInv, ChildExits
  PROVE  /\ ConversationInv' /\ UNCHANGED repositoryVars
         /\ call' = call /\ late' = late /\ resumed' = resumed
         /\ agent'.at = agent.at /\ agent'.job = agent.job /\ agent'.lease = agent.lease
         /\ agent'.succeeded = agent.succeeded /\ agent'.child = "exited"
<1>1. agent \in Agent /\ agent.child = "running" /\ agent.at = "watching"
  BY DEF ChildExits, ConversationInv, CallsOK, AgentTypeOK, CallFits
<1>2. agent' = [agent EXCEPT !.child = "exited"]
  BY DEF ChildExits
<1>3. /\ agent'.at = agent.at /\ agent'.job = agent.job /\ agent'.lease = agent.lease
      /\ agent'.succeeded = agent.succeeded /\ agent'.step = agent.step
      /\ agent'.child = "exited" /\ agent' \in Agent
  BY <1>1, <1>2 DEF Agent
<1>4. /\ UNCHANGED repositoryVars /\ issued' = issued
      /\ call' = call /\ late' = late /\ resumed' = resumed
  BY DEF ChildExits, repositoryVars
<1>5. CallsOK'
  BY <1>3, <1>4 DEF ConversationInv, CallsOK, AgentTypeOK, AskOK
<1>6. CallFits'
  BY <1>1, <1>3, <1>4 DEF ConversationInv, CallFits
<1> QED
  BY <1>3, <1>4, <1>5, <1>6 DEF ConversationInv

LEMMA PowerKeepsConversation ==
  ASSUME ConversationInv, PowerOff \/ PowerOn
  PROVE  /\ ConversationInv' /\ UNCHANGED repositoryVars
         /\ call'.answer = "none" /\ resumed' = resumed
         /\ agent'.at \in {"polling", "off"} /\ agent'.child = "none"
<1>1. /\ \A c \in late : AskOK(c) /\ c \in Call
      /\ AskOK(call.ask) /\ call.ask \in Call
  BY DEF ConversationInv, CallsOK, AgentTypeOK, AskOK
<1>2. CASE PowerOff
  <2>1. /\ agent' = [IdleAgent EXCEPT !.at = "off"] /\ call' = Quiet
        /\ UNCHANGED repositoryVars /\ resumed' = resumed
        /\ issued' = issued /\ late' \subseteq late \cup {call.ask}
    BY <1>2 DEF PowerOff, repositoryVars
  <2>2. agent' \in Agent /\ agent'.at = "off" /\ agent'.child = "none"
    BY <2>1, QuietType DEF Agent, AgentPlace
  <2>3. ConversationInv'
    BY <1>1, <2>1, <2>2, RestsKeepsConversation DEF Resting
  <2> QED
    BY <2>1, <2>2, <2>3, QuietType
<1>3. CASE PowerOn
  <2>1. /\ agent' = IdleAgent /\ call' = Quiet
        /\ UNCHANGED repositoryVars /\ resumed' = resumed
        /\ issued' = issued /\ late' = late
    BY <1>3 DEF PowerOn, Rests, repositoryVars
  <2>2. ConversationInv'
    BY <1>1, <2>1, QuietType, RestsKeepsConversation DEF Resting
  <2> QED
    BY <2>1, <2>2, QuietType
<1> QED
  BY <1>2, <1>3

\* The operator and the process of the control plane.
LEMMA OutsideKeepsConversation ==
  ASSUME ConversationInv, Operate \/ Surroundings
  PROVE  /\ ConversationInv' /\ (OperatorCall \/ Environment)
         /\ agent' = agent /\ late' \subseteq late
         /\ call' = call \/ call'.answer = "failed"
         /\ Surroundings => Environment /\ resumed' = resumed
         /\ resumed => resumed'
<1>1. /\ call \in CallRecord /\ issued \in Nat /\ resumed \in BOOLEAN
      /\ agent.at \in Resting => call.ask = NoCall
  BY QuietType DEF ConversationInv, CallsOK, AgentTypeOK, CallRecord, CallFits
<1>2. agent' = agent /\ call' = Connected(call) /\ late' \subseteq late
  BY DEF Operate, Surroundings
<1>3. OperatorCall \/ Environment
  <2>1. "DeployWindows" \in Operation /\ Machine \in DeviceId
        /\ "waiting" \in {"draft", "waiting"}
    BY AgentAssumption DEF Operation
  <2>2. CASE Operate
    BY <2>1, <2>2 DEF Operate, OperatorCall
  <2> QED
    BY <2>2 DEF Surroundings
<1>4. issued' = issued
  BY <1>3 DEF OperatorCall, Insert, Transition, Remove, Environment, Tick, Crash, Open
<1>5. resumed' \in BOOLEAN /\ (resumed => resumed')
  BY <1>1 DEF Operate, Surroundings
<1>6. /\ call' \in CallRecord /\ call'.ask = call.ask
      /\ call' = call \/ call'.answer = "failed"
      /\ call.ask = NoCall => call' = call
  BY <1>1, <1>2, ConnectedCall
<1>7. call'.answer = "job" =>
        agent.at = "claiming" /\ call'.job \in JobId /\ call'.lease \in 1..issued'
  BY <1>4, <1>6 DEF ConversationInv, CallsOK
<1>8. ConversationInv'
  BY <1>1, <1>2, <1>4, <1>5, <1>6, <1>7, ConversationStays
<1> QED
  BY <1>2, <1>3, <1>5, <1>6, <1>8 DEF Surroundings

\* Serving the agent's call, or a late one.
Serves == \E c \in {call.ask} \cup late, mine \in BOOLEAN :
  /\ Handle(c, mine)
  /\ mine => c = call.ask /\ call.ask # NoCall /\ call.answer = "none"

LEMMA ServeServes == Serve \/ ServeLate => Serves
  BY DEF Serve, ServeLate, Serves

LEMMA ServesKeepsConversation ==
  ASSUME ConversationInv, Serves
  PROVE  ConversationInv' /\ (AgentCall \/ UNCHANGED repositoryVars)
  BY ReplyKeepsConversation, HandleReplies DEF Serves, ConversationInv, CallsOK

LEMMA ConversationStep ==
  ASSUME ConversationInv, [ExecutionNext]_executionVars
  PROVE  ConversationInv' /\ [JobsNext]_repositoryVars
<1>1. CASE UNCHANGED executionVars
  <2>1. /\ UNCHANGED repositoryVars /\ issued' = issued /\ agent' = agent /\ call' = call
        /\ late' = late /\ resumed' = resumed
    BY <1>1 DEF executionVars, repositoryVars, agentVars
  <2> QED
    BY <2>1 DEF ConversationInv, CallsOK, AgentTypeOK, AskOK, CallFits
<1>2. CASE AgentStep
  BY <1>2, AgentStepMoves DEF AgentMove
<1>3. CASE Serve \/ ServeLate
  BY <1>3, ServeServes, ServesKeepsConversation DEF JobsNext
<1>4. CASE Network
  BY <1>4, NetworkKeepsConversation
<1>5. CASE ChildExits
  BY <1>5, ChildExitsKeepsConversation
<1>6. CASE PowerOff \/ PowerOn
  BY <1>6, PowerKeepsConversation
<1>7. CASE Operate \/ Surroundings
  BY <1>7, OutsideKeepsConversation DEF JobsNext
<1> QED
  BY <1>1, <1>2, <1>3, <1>4, <1>5, <1>6, <1>7 DEF ExecutionNext

\* The agent's conversation is well formed, whatever the network does.
LEMMA ExecutionTypes == ExecutionSpec => []ConversationInv
<1>1. ExecutionInit => ConversationInv
  <2> SUFFICES ASSUME ExecutionInit PROVE ConversationInv
    OBVIOUS
  <2>1. issued = 0 /\ agent = IdleAgent /\ call = Quiet /\ late = {} /\ resumed = FALSE
    BY DEF ExecutionInit, JobsInit
  <2>2. AskOK(NoCall)
    BY QuietType DEF AskOK
  <2>3. CallsOK
    BY <2>1, <2>2, QuietType DEF CallsOK, AgentTypeOK
  <2>4. CallFits
    BY <2>1, QuietType DEF CallFits, Executing, Resting
  <2> QED
    BY <2>3, <2>4 DEF ConversationInv
<1>2. ConversationInv /\ [ExecutionNext]_executionVars => ConversationInv'
  BY ConversationStep
<1> QED
  BY <1>1, <1>2, PTL DEF ExecutionSpec

\* The agent, the network and the operator only ever use the calls of the job
\* repository: no delayed call presents a lease that was not issued.
THEOREM AgentRunsTheRepository == ExecutionSpec => JobsSpec
<1>1. ExecutionInit => JobsInit
  BY DEF ExecutionInit
<1>2. ConversationInv /\ [ExecutionNext]_executionVars => [JobsNext]_repositoryVars
  BY ConversationStep
<1> QED
  BY <1>1, <1>2, ExecutionTypes, PTL DEF ExecutionSpec, JobsSpec

\* The agent, its call and the calls it gave up keep their types.
THEOREM AgentTypes == ExecutionSpec => []AgentTypeOK
<1>1. ConversationInv => AgentTypeOK
  BY DEF ConversationInv, CallsOK
<1> QED
  BY <1>1, ExecutionTypes, PTL

------------------------------------------------------------------------------
(* What the calls and the operator do to the record of one job. *)

\* The slot that survives a write to one slot: as it was, as written, or lost.
LEMMA SurvivingSlot ==
  ASSUME RepositoryInv, NEW j \in JobId, NEW job, Commit([jobs EXCEPT ![j] = job]),
         NEW k \in JobId
  PROVE  /\ Surviving[k] = jobs[k]
         /\ \/ Surviving'[k] = jobs[k]
            \/ k = j /\ Surviving'[k] = job
            \/ Surviving'[k] = NoJob
<1> DEFINE next == [jobs EXCEPT ![j] = job]
<1>1. /\ next[j] = job
      /\ k # j => next[k] = jobs[k]
  BY DEF RepositoryInv, JobsTypeOK
<1>2. NoJobs[k] = NoJob
  BY DEF NoJobs
<1> HIDE DEF next
<1>3. Surviving = jobs /\ Surviving' \in {jobs, next, NoJobs}
  BY CommitSurvivors DEF next
<1> QED
  BY <1>1, <1>2, <1>3

\* A tick, a crash or a restart keeps a slot or loses it.
LEMMA EnvironmentSlot ==
  ASSUME RepositoryInv, Environment, NEW k \in JobId
  PROVE  spent' = spent /\ Surviving'[k] \in {Surviving[k], NoJob}
<1>1. NoJobs[k] = NoJob
  BY DEF NoJobs
<1>2. CASE Tick \/ Open
  BY <1>2 DEF Tick, Open, Surviving
<1>3. CASE Crash
  <2>1. Surviving = jobs /\ Surviving' = disk /\ spent' = spent
    BY <1>3 DEF Crash, Surviving
  <2>2. disk = jobs \/ disk = NoJobs
    BY <1>3 DEF Crash, RepositoryInv, MemoryMatchesManifest
  <2> QED
    BY <1>1, <2>1, <2>2
<1> QED
  BY <1>2, <1>3 DEF Environment

LEMMA AbsentFacts == NoJob.state = Absent /\ NoJob.lease = NoLease
  BY DEF NoJob

\* A job on record as succeeded stays so until it is removed, and its id is
\* never drawn again.
LEMMA RecordStays ==
  ASSUME RepositoryInv, [JobsNext]_repositoryVars, NEW j \in JobId, OnRecord(j)
  PROVE  OnRecord(j)'
<1>1. CASE Environment
  BY <1>1, EnvironmentSlot, AbsentFacts DEF OnRecord
<1>2. CASE UNCHANGED repositoryVars
  BY <1>2 DEF repositoryVars, OnRecord, Surviving
<1>3. ASSUME NEW k \in JobId, NEW job \in Job, Replaces(k, job)
      PROVE  OnRecord(j)'
  <2>1. SlotUpdate(jobs[k], job) /\ spent' = spent
    BY <1>3 DEF Replaces
  <2>2. /\ Surviving[j] = jobs[j]
        /\ \/ Surviving'[j] = jobs[j]
           \/ j = k /\ Surviving'[j] = job
           \/ Surviving'[j] = NoJob
    BY <1>3, SurvivingSlot DEF Replaces
  <2>3. ASSUME j = k PROVE job.state \in {"succeeded", Absent}
    <3>1. jobs[k].state \in {"succeeded", Absent}
      BY <2>2, <2>3 DEF OnRecord
    <3>2. ~IsActive(jobs[k])
      BY <3>1 DEF IsActive, Terminal
    <3>3. ~Moved(jobs[k], job)
      BY <3>1 DEF Moved, CanTransition, Transitions, Absent
    <3>4. ~Ended(jobs[k], job)
      BY <3>1 DEF Ended, Absent
    <3>5. Deleted(jobs[k], job)
      BY <2>1, <3>2, <3>3, <3>4 DEF SlotUpdate, Touched, Bound
    <3> QED
      BY <3>5, AbsentFacts DEF Deleted
  <2> QED
    BY <2>1, <2>2, <2>3, AbsentFacts DEF OnRecord
<1>4. ASSUME NEW k \in JobId, NEW job \in Job, Adds(k, job)
      PROVE  OnRecord(j)'
  <2>1. k \notin spent /\ spent' = spent \cup {k}
    BY <1>4 DEF Adds
  <2>2. j # k
    BY <2>1 DEF OnRecord
  <2>3. /\ Surviving[j] = jobs[j]
        /\ Surviving'[j] = jobs[j] \/ Surviving'[j] = NoJob
    BY <1>4, <2>2, SurvivingSlot DEF Adds
  <2> QED
    BY <2>1, <2>3, AbsentFacts DEF OnRecord
<1> QED
  BY <1>1, <1>2, <1>3, <1>4, CallShape

\* A completion that was answered after its write is on record.
LEMMA CompletionIsRecorded ==
  ASSUME RepositoryInv, NEW j \in JobId, NEW l, Complete(j, Machine, l, TRUE),
         up', intact'
  PROVE  OnRecord(j)'
<1> DEFINE job == Finished(jobs[j], TRUE)
           next == [jobs EXCEPT ![j] = job]
<1>1. job.state = "succeeded"
  <2>1. jobs[j] \in Job
    BY DEF RepositoryInv, JobsTypeOK
  <2> QED
    BY <2>1 DEF Finished, Job
<1>2. next[j] = job
  BY DEF RepositoryInv, JobsTypeOK
<1>3. Commit(next) /\ spent' = spent /\ jobs[j].state \in {"running", "paused"}
  BY DEF Complete, HoldsLiveLease, HoldsLease
<1>4. j \in spent
  BY <1>3 DEF RepositoryInv, ListInv, Present, Absent
<1> HIDE DEF next, job
<1>5. jobs' = next
  BY <1>3 DEF Commit, Written, WriteFailed, DiedWriting
<1> QED
  BY <1>1, <1>2, <1>3, <1>4, <1>5 DEF OnRecord, Surviving

\* No call of an agent makes a job run that did not run under its lease: a claim
\* brings a lease of its own.
LEMMA CallsResumeNothing ==
  ASSUME RepositoryInv, AgentCall, NEW k \in JobId, Surviving'[k].state = "running",
         Surviving'[k].lease <= issued
  PROVE  Surviving[k].state = "running" /\ Surviving[k].lease = Surviving'[k].lease
<1>1. ASSUME NEW j \in JobId, NEW job, Commit([jobs EXCEPT ![j] = job]),
             job.state = "running" /\ job.lease <= issued =>
               jobs[j].state = "running" /\ jobs[j].lease = job.lease
      PROVE  Surviving[k].state = "running" /\ Surviving[k].lease = Surviving'[k].lease
  BY <1>1, SurvivingSlot, AbsentFacts DEF Absent
<1>2. PICK j \in JobId, d \in DeviceId :
        \/ LeaseForDevice(j, d)
        \/ \E l \in 1..issued :
              \/ \E stage \in AgentStage : ReportProgress(j, d, l, stage)
              \/ \E succeeded \in BOOLEAN : Complete(j, d, l, succeeded)
              \/ RenewControlLease(j, d, l)
  BY DEF AgentCall
<1>3. jobs \in [JobId -> Job] /\ jobs[j] \in Job /\ issued \in Nat /\ j \in JobId
  BY <1>2 DEF RepositoryInv, JobsTypeOK
<1>4. CASE LeaseForDevice(j, d)
  <2> DEFINE job == Leased(jobs[j], "Preflight", AgentLease)
  <2>1. job.lease = issued + 1
    BY <1>3 DEF Leased, Job
  <2>2. ~(job.lease <= issued)
    BY <1>3, <2>1
  <2>3. Commit([jobs EXCEPT ![j] = job])
    BY <1>4 DEF LeaseForDevice
  <2> HIDE DEF job
  <2> QED
    BY <1>1, <1>3, <2>2, <2>3
<1>5. ASSUME NEW l \in 1..issued, NEW stage \in AgentStage, ReportProgress(j, d, l, stage)
      PROVE  Surviving[k].state = "running" /\ Surviving[k].lease = Surviving'[k].lease
  <2> DEFINE expires == Later(jobs[j].expires, now + AgentLease)
             job == [jobs[j] EXCEPT !.stage = stage, !.expires = expires]
  <2>1. [jobs EXCEPT ![j].stage = stage, ![j].expires = Later(@, now + AgentLease)]
        = [jobs EXCEPT ![j] = job]
    BY <1>3 DEF Job
  <2>2. job.state = jobs[j].state /\ job.lease = jobs[j].lease
    BY <1>3 DEF Job
  <2>3. Commit([jobs EXCEPT ![j] = job])
    BY <1>5, <2>1 DEF ReportProgress
  <2> HIDE DEF job
  <2> QED
    BY <1>1, <1>3, <2>2, <2>3
<1>6. ASSUME NEW l \in 1..issued, NEW succeeded \in BOOLEAN, Complete(j, d, l, succeeded)
      PROVE  Surviving[k].state = "running" /\ Surviving[k].lease = Surviving'[k].lease
  <2> DEFINE job == Finished(jobs[j], succeeded)
  <2>1. job.state # "running"
    BY <1>3 DEF Finished, Job
  <2>2. Commit([jobs EXCEPT ![j] = job])
    BY <1>6 DEF Complete
  <2> HIDE DEF job
  <2> QED
    BY <1>1, <1>3, <2>1, <2>2
<1>7. ASSUME NEW l \in 1..issued, RenewControlLease(j, d, l)
      PROVE  Surviving[k].state = "running" /\ Surviving[k].lease = Surviving'[k].lease
  <2> DEFINE job == [jobs[j] EXCEPT !.expires = now + AgentLease]
  <2>1. [jobs EXCEPT ![j].expires = now + AgentLease] = [jobs EXCEPT ![j] = job]
    BY <1>3
  <2>2. job.state = jobs[j].state /\ job.lease = jobs[j].lease
    BY <1>3 DEF Job
  <2>3. Commit([jobs EXCEPT ![j] = job])
    BY <1>7, <2>1 DEF RenewControlLease
  <2> HIDE DEF job
  <2> QED
    BY <1>1, <1>3, <2>2, <2>3
<1> QED
  BY <1>2, <1>4, <1>5, <1>6, <1>7

\* The operator may make a job run, but not under another lease.
LEMMA OperatorKeepsLease ==
  ASSUME RepositoryInv, OperatorCall, NEW k \in JobId, Surviving'[k].state = "running"
  PROVE  Surviving'[k].lease = Surviving[k].lease
<1>1. ASSUME NEW j \in JobId, NEW job, Commit([jobs EXCEPT ![j] = job]),
             job.state = "running" => job.lease = jobs[j].lease
      PROVE  Surviving'[k].lease = Surviving[k].lease
  BY <1>1, SurvivingSlot, AbsentFacts DEF Absent
<1>2. ASSUME NEW j \in JobId, NEW job \in Job, Adds(j, job)
      PROVE  Surviving'[k].lease = Surviving[k].lease
  BY <1>1, <1>2 DEF Adds
<1>3. ASSUME NEW j \in JobId, NEW next \in JobState, Transition(j, next)
      PROVE  Surviving'[k].lease = Surviving[k].lease
  <2> DEFINE job == [jobs[j] EXCEPT !.state = next]
  <2>1. jobs[j] \in Job /\ jobs \in [JobId -> Job]
    BY DEF RepositoryInv, JobsTypeOK
  <2>2. [jobs EXCEPT ![j].state = next] = [jobs EXCEPT ![j] = job]
    BY <2>1
  <2>3. job.lease = jobs[j].lease
    BY <2>1 DEF Job
  <2>4. Commit([jobs EXCEPT ![j] = job])
    BY <1>3, <2>2 DEF Transition
  <2> HIDE DEF job
  <2> QED
    BY <1>1, <2>3, <2>4
<1>4. ASSUME NEW j \in JobId, Remove(j)
      PROVE  Surviving'[k].lease = Surviving[k].lease
  BY <1>1, <1>4, AbsentFacts DEF Remove, Absent
<1> QED
  BY <1>2, <1>3, <1>4, InsertShape DEF OperatorCall

------------------------------------------------------------------------------
(* The other parts of the invariant. *)

LEMMA ReportsStayOld ==
  ASSUME ConversationInv, ReportsAreOld, [ExecutionNext]_executionVars
  PROVE  ReportsAreOld'
<1>1. ASSUME agent' = agent, late' \subseteq late \cup {call.ask},
             call' = call \/ call'.answer = "failed",
             call' = call => late' \subseteq late
      PROVE  ReportsAreOld'
  <2>1. agent.at \in Executing => call.ask.errand # "complete"
    BY DEF ConversationInv, CallFits, Executing
  <2> QED
    BY <1>1, <2>1 DEF ReportsAreOld
<1>2. CASE UNCHANGED executionVars
  BY <1>2 DEF executionVars, agentVars, ReportsAreOld
<1>3. CASE AgentStep
  <2>1. AgentMove
    BY <1>3, AgentStepMoves
  <2> QED
    BY <2>1 DEF AgentMove, ReportsAreOld
<1>4. CASE Serves
  <2>1. PICK c \in {call.ask} \cup late, mine \in BOOLEAN : Handle(c, mine)
    BY <1>4 DEF Serves
  <2>2. AskOK(c) /\ \A d \in late : AskOK(d)
    BY <2>1 DEF ConversationInv, CallsOK
  <2>3. Reply(c, mine)
    BY <2>1, <2>2, HandleReplies
  <2>4. agent' = agent /\ late' \subseteq late
    BY <2>3 DEF Reply
  <2>5. call'.answer = "job" => call' = call \/ call'.lease = issued + 1
    BY <2>3 DEF Reply
  <2>6. issued \in Nat /\ \A d \in late : d.errand = "complete" => d.lease \in 1..issued
    BY <2>2 DEF AskOK, ConversationInv, CallsOK
  <2> QED
    BY <2>4, <2>5, <2>6 DEF ReportsAreOld
<1>5. CASE Network
  <2>1. GiveUp => call'.answer = "failed" /\ call' # call
    BY DEF GiveUp, ConversationInv, CallsOK, AgentTypeOK
  <2>2. LoseLate => late' \subseteq late
    BY DEF LoseLate
  <2> QED
    BY <1>1, <1>5, <2>1, <2>2, NetworkKeepsConversation DEF Network
<1>6. CASE ChildExits
  BY <1>6, ChildExitsKeepsConversation DEF ReportsAreOld
<1>7. CASE PowerOff \/ PowerOn
  BY <1>7, PowerKeepsConversation DEF ReportsAreOld, Executing
<1>8. CASE Operate \/ Surroundings
  BY <1>1, <1>8, OutsideKeepsConversation
<1> QED
  BY <1>2, <1>3, <1>4, <1>5, <1>6, <1>7, <1>8, ServeServes DEF ExecutionNext

LEMMA SuccessStaysOnRecord ==
  ASSUME RepositoryInv, ConversationInv, SuccessIsOnRecord,
         [ExecutionNext]_executionVars
  PROVE  SuccessIsOnRecord'
<1>1. ASSUME OnRecord(agent.job), agent.at \in {"completing", "rebooting"},
             agent'.job = agent.job
      PROVE  OnRecord(agent.job)'
  <2>1. agent.job \in JobId /\ [JobsNext]_repositoryVars
    BY <1>1, ConversationStep DEF ConversationInv, CallFits
  <2>2. ASSUME NEW j \in JobId, j = agent.job PROVE OnRecord(agent.job)'
    BY <1>1, <2>1, <2>2, RecordStays DEF OnRecord
  <2> QED
    BY <2>1, <2>2
<1>2. ASSUME agent' = agent, call' = call \/ call'.answer # "ok"
      PROVE  SuccessIsOnRecord'
  BY <1>1, <1>2 DEF SuccessIsOnRecord
<1>3. CASE UNCHANGED executionVars
  BY <1>2, <1>3 DEF executionVars, agentVars
<1>4. CASE AgentStep
  <2>1. AgentMove
    BY <1>4, AgentStepMoves
  <2> QED
    BY <1>1, <2>1 DEF AgentMove, SuccessIsOnRecord
<1>5. CASE Serves
  <2>1. PICK c \in {call.ask} \cup late, mine \in BOOLEAN :
          /\ Handle(c, mine)
          /\ mine => c = call.ask /\ call.ask # NoCall
    BY <1>5 DEF Serves
  <2>2. AskOK(c)
    BY <2>1 DEF ConversationInv, CallsOK
  <2>3. Reply(c, mine) /\ agent' = agent
    BY <2>1, <2>2, HandleReplies DEF Reply
  <2>4. CASE call' = call \/ call'.answer # "ok"
    BY <1>2, <2>3, <2>4
  <2>5. CASE call'.answer = "ok" /\ call' # call /\ agent.at = "completing" /\ agent.succeeded
    <3>1. mine /\ c = call.ask /\ c.errand \in {"progress", "complete"}
      BY <2>1, <2>3, <2>5 DEF Reply
    <3>2. c.errand = "complete" /\ c.job = agent.job /\ c.succeeded = agent.succeeded
      BY <2>5, <3>1 DEF ConversationInv, CallFits
    <3>3. Complete(c.job, Machine, c.lease, c.succeeded) /\ up' /\ intact'
      BY <2>3, <2>5, <3>2 DEF Reply
    <3>4. c.job \in JobId /\ c.succeeded = TRUE
      BY <2>2, <2>5, <3>2 DEF AskOK, ConversationInv, CallsOK, AgentTypeOK, Agent
    <3>5. ASSUME NEW j \in JobId, j = c.job PROVE OnRecord(agent.job)'
      <4>1. OnRecord(j)'
        BY <3>3, <3>4, <3>5, CompletionIsRecorded
      <4>2. agent'.job = j
        BY <2>3, <3>2, <3>5
      <4> QED
        BY <4>1, <4>2 DEF OnRecord
    <3> QED
      BY <2>3, <2>5, <3>4, <3>5 DEF SuccessIsOnRecord
  <2>6. CASE call'.answer = "ok" /\ ~(agent.at = "completing" /\ agent.succeeded)
    BY <1>1, <2>3, <2>6 DEF SuccessIsOnRecord
  <2> QED
    BY <2>4, <2>5, <2>6
<1>6. CASE Network
  BY <1>2, <1>6, NetworkKeepsConversation
<1>7. CASE ChildExits
  <2>1. agent.at = "watching"
    BY <1>7 DEF ChildExits, ConversationInv, CallFits
  <2> QED
    BY <1>7, <2>1, ChildExitsKeepsConversation DEF SuccessIsOnRecord
<1>8. CASE PowerOff \/ PowerOn
  BY <1>8, PowerKeepsConversation DEF SuccessIsOnRecord
<1>9. CASE Operate \/ Surroundings
  BY <1>2, <1>9, OutsideKeepsConversation
<1> QED
  BY <1>3, <1>4, <1>5, <1>6, <1>7, <1>8, <1>9, ServeServes DEF ExecutionNext

LEMMA PauseStaysHeld ==
  ASSUME RepositoryInv, ConversationInv, PauseIsHeld, [ExecutionNext]_executionVars
  PROVE  PauseIsHeld'
<1>1. ASSUME agent.at = "watching" PROVE agent.job \in JobId /\ agent.lease <= issued
  BY <1>1 DEF ConversationInv, CallsOK, CallFits
<1>2. ASSUME UNCHANGED repositoryVars PROVE Surviving' = Surviving
  BY <1>2 DEF repositoryVars, Surviving
\* A step that only the operator could use to resume the job, and did not.
<1>3. ASSUME agent' = agent, call' = call \/ call'.answer = "failed",
             resumed => resumed',
             agent.at = "watching" /\ RunsForAgent' => RunsForAgent \/ resumed'
      PROVE  PauseIsHeld'
  <2>1. agent.child = "suspended" => agent.at = "watching"
    BY DEF ConversationInv, CallFits
  <2> QED
    BY <1>3, <2>1 DEF PauseIsHeld
<1>4. CASE UNCHANGED executionVars
  BY <1>2, <1>3, <1>4 DEF executionVars, agentVars, RunsForAgent
<1>5. CASE AgentStep
  <2>1. AgentMove
    BY <1>5, AgentStepMoves
  <2>2. Surviving' = Surviving /\ call'.answer = "none" /\ resumed' = resumed
    BY <1>2, <2>1 DEF AgentMove
  <2>3. ASSUME agent'.child = "suspended" PROVE resumed \/ ~RunsForAgent'
    BY <2>1, <2>2, <2>3 DEF AgentMove, PauseIsHeld, RunsForAgent
  <2> QED
    BY <2>2, <2>3 DEF PauseIsHeld
<1>6. CASE Serves
  <2>1. PICK c \in {call.ask} \cup late, mine \in BOOLEAN :
          /\ Handle(c, mine)
          /\ mine => c = call.ask /\ call.ask # NoCall /\ call.answer = "none"
    BY <1>6 DEF Serves
  <2>2. AskOK(c)
    BY <2>1 DEF ConversationInv, CallsOK
  <2>3. Reply(c, mine) /\ agent' = agent /\ (AgentCall \/ UNCHANGED repositoryVars)
    BY <2>1, <2>2, HandleReplies DEF Reply
  <2>4. ASSUME agent.at = "watching", RunsForAgent'
        PROVE  RunsForAgent
    BY <1>1, <1>2, <2>3, <2>4, CallsResumeNothing DEF RunsForAgent
  <2>5. ASSUME mine, agent.at = "watching"
        PROVE  c.job = agent.job /\ c.lease = agent.lease
    BY <2>1, <2>5 DEF ConversationInv, CallFits, Executing
  <2>6. agent.child = "suspended" => agent.at = "watching"
    BY DEF ConversationInv, CallFits
  <2>7. up => Surviving = jobs
    BY DEF Surviving
  <2>8. ASSUME agent.at = "watching",
               agent.child = "suspended" \/ call'.answer = "paused",
               RunsForAgent'
        PROVE  resumed'
    <3>1. RunsForAgent
      BY <2>4, <2>8
    <3>2. ASSUME mine, up, jobs[c.job].state = "paused" PROVE FALSE
      BY <2>5, <2>7, <2>8, <3>1, <3>2 DEF RunsForAgent
    <3>3. resumed' = resumed
      BY <2>3, <3>2 DEF Reply
    <3>4. call'.answer = "paused" => call' = call
      BY <2>3, <3>2 DEF Reply
    <3> QED
      BY <2>8, <3>1, <3>3, <3>4 DEF PauseIsHeld
  <2>9. ASSUME agent.child = "suspended", call'.answer = "running"
        PROVE  resumed'
    <3>1. CASE call' = call
      <4>1. resumed
        BY <2>9, <3>1 DEF PauseIsHeld
      <4>2. ~mine
        BY <2>1, <2>9, <3>1
      <4> QED
        BY <2>3, <4>1, <4>2 DEF Reply
    <3>2. CASE call' # call
      <4>1. /\ mine /\ HoldsLease(c.job, Machine, c.lease) /\ up
            /\ jobs[c.job].state = "running"
        BY <2>3, <2>9, <3>2 DEF Reply
      <4>2. RunsForAgent
        BY <2>5, <2>6, <2>7, <2>9, <4>1 DEF RunsForAgent, HoldsLease
      <4>3. resumed
        BY <2>6, <2>9, <4>2 DEF PauseIsHeld
      <4> QED
        BY <2>3, <4>1, <4>3 DEF Reply
    <3> QED
      BY <3>1, <3>2
  <2> QED
    BY <2>3, <2>6, <2>8, <2>9 DEF PauseIsHeld
<1>7. CASE Network
  BY <1>2, <1>3, <1>7, NetworkKeepsConversation DEF RunsForAgent
<1>8. CASE ChildExits
  BY <1>2, <1>8, ChildExitsKeepsConversation DEF PauseIsHeld, RunsForAgent, ChildExits, ConversationInv, CallFits
<1>9. CASE PowerOff \/ PowerOn
  BY <1>9, PowerKeepsConversation DEF PauseIsHeld
<1>10. CASE Operate
  <2>1. /\ agent' = agent
        /\ call' = call \/ call'.answer = "failed"
        /\ resumed => resumed'
    BY <1>10, OutsideKeepsConversation
  <2>2. OperatorCall
    <3>1. "DeployWindows" \in Operation /\ Machine \in DeviceId
          /\ "waiting" \in {"draft", "waiting"}
      BY AgentAssumption DEF Operation
    <3> QED
      BY <1>10, <3>1 DEF Operate, OperatorCall
  <2>3. ASSUME agent.at = "watching", RunsForAgent' PROVE RunsForAgent \/ resumed'
    <3>1. /\ agent.job \in JobId /\ Surviving'[agent.job].state = "running"
          /\ Surviving'[agent.job].lease = agent.lease
      BY <1>1, <2>1, <2>3 DEF RunsForAgent
    <3>2. Surviving[agent.job].lease = agent.lease
      BY <2>2, <3>1, OperatorKeepsLease
    <3>3. Surviving[agent.job].state # "running" => resumed'
      BY <1>10, <3>1 DEF Operate
    <3> QED
      BY <3>2, <3>3 DEF RunsForAgent
  <2> QED
    BY <1>3, <2>1, <2>3
<1>11. CASE Surroundings
  <2>1. /\ Environment /\ agent' = agent
        /\ call' = call \/ call'.answer = "failed"
        /\ resumed => resumed'
    BY <1>11, OutsideKeepsConversation
  <2>2. ASSUME agent.at = "watching", RunsForAgent' PROVE RunsForAgent
    BY <1>1, <2>1, <2>2, EnvironmentSlot, AbsentFacts DEF RunsForAgent, Absent
  <2> QED
    BY <1>3, <2>1, <2>2
<1> QED
  BY <1>4, <1>5, <1>6, <1>7, <1>8, <1>9, <1>10, <1>11, ServeServes DEF ExecutionNext

------------------------------------------------------------------------------
(* The theorems. *)

\* The invariant of the agent, beside the one of the repository it works for.
THEOREM ExecutionInvariant == ExecutionSpec => [](RepositoryInv /\ ExecutionInv)
<1>1. ExecutionInit => ReportsAreOld /\ SuccessIsOnRecord /\ PauseIsHeld
  <2> SUFFICES ASSUME ExecutionInit PROVE ReportsAreOld /\ SuccessIsOnRecord /\ PauseIsHeld
    OBVIOUS
  <2>1. agent = IdleAgent /\ call = Quiet /\ late = {}
    BY DEF ExecutionInit
  <2> QED
    BY <2>1, QuietType DEF ReportsAreOld, SuccessIsOnRecord, PauseIsHeld, Executing
<1>2. /\ RepositoryInv /\ ConversationInv /\ [ExecutionNext]_executionVars
      /\ ReportsAreOld /\ SuccessIsOnRecord /\ PauseIsHeld
      => (ReportsAreOld /\ SuccessIsOnRecord /\ PauseIsHeld)'
  BY ReportsStayOld, SuccessStaysOnRecord, PauseStaysHeld
<1>3. ExecutionSpec => []RepositoryInv
  BY AgentRunsTheRepository, RepositoryInvariant, PTL
<1>4. ExecutionSpec => [](ReportsAreOld /\ SuccessIsOnRecord /\ PauseIsHeld)
  BY <1>1, <1>2, <1>3, ExecutionTypes, PTL DEF ExecutionSpec
<1>5. ConversationInv /\ ReportsAreOld /\ SuccessIsOnRecord /\ PauseIsHeld => ExecutionInv
  BY DEF ExecutionInv
<1> QED
  BY <1>3, <1>4, <1>5, ExecutionTypes, PTL

\* A machine that reboots into its new system has its job on record as
\* succeeded, through any crash of the host and any failed write.
THEOREM RebootIsOnRecord == ExecutionSpec => []RebootsOnlyOnRecord
<1>1. ExecutionInv => RebootsOnlyOnRecord
  BY DEF ExecutionInv, SuccessIsOnRecord, OnRecord, RebootsOnlyOnRecord, Surviving
<1> QED
  BY <1>1, ExecutionInvariant, PTL

\* A suspended process is resumed only after the operator made the job run.
THEOREM ResumesWhenAsked == ExecutionSpec => ResumesOnlyWhenAsked
<1>1. ASSUME ExecutionInv, [ExecutionNext]_executionVars,
             agent.child = "suspended", agent'.child = "running"
      PROVE  resumed
  <2>1. ConversationInv
    BY <1>1 DEF ExecutionInv
  <2>2. CASE AgentStep
    <3>1. AgentMove
      BY <2>1, <2>2, AgentStepMoves
    <3> QED
      BY <1>1, <3>1 DEF AgentMove, ExecutionInv, PauseIsHeld
  <2>3. agent' # agent
    BY <1>1
  <2>4. ~Serves
    <3> SUFFICES ASSUME Serves PROVE agent' = agent
      BY <2>3
    <3> QED
      BY DEF Serves, Handle
  <2>5. ~ChildExits
    BY <1>1 DEF ChildExits
  <2>6. ~(PowerOff \/ PowerOn)
    BY <1>1, <2>1, PowerKeepsConversation
  <2>7. ~(Network \/ Operate \/ Surroundings)
    BY <2>1, <2>3, NetworkKeepsConversation, OutsideKeepsConversation
  <2>8. ~UNCHANGED executionVars
    BY <2>3 DEF executionVars, agentVars
  <2> QED
    BY <1>1, <2>2, <2>4, <2>5, <2>6, <2>7, <2>8, ServeServes DEF ExecutionNext
<1>2. ExecutionInv /\ [ExecutionNext]_executionVars
      => [agent.child = "suspended" /\ agent'.child = "running" => resumed]_executionVars
  BY <1>1
<1>3. ExecutionSpec => []ExecutionInv
  BY ExecutionInvariant, PTL
<1> QED
  BY <1>2, <1>3, PTL DEF ExecutionSpec, ResumesOnlyWhenAsked

\* A write to one slot leaves every other as it was, or loses it.
LEMMA OtherSlots ==
  ASSUME RepositoryInv, NEW j \in JobId, NEW job, Commit([jobs EXCEPT ![j] = job]),
         NEW k \in JobId, jobs'[k] # jobs[k], jobs'[k] # NoJob
  PROVE  k = j /\ jobs'[k] = job
<1> DEFINE next == [jobs EXCEPT ![j] = job]
<1>1. /\ next[j] = job
      /\ k # j => next[k] = jobs[k]
  BY DEF RepositoryInv, JobsTypeOK
<1>2. NoJobs[k] = NoJob
  BY DEF NoJobs
<1> HIDE DEF next
<1>3. jobs' \in {jobs, next, NoJobs}
  BY CommitOutcome DEF next
<1> QED
  BY <1>1, <1>2, <1>3

\* Only a completion ends a job that runs under a lease and clears the lease.
LEMMA OnlyCompletionEnds ==
  ASSUME RepositoryInv, NEW j \in JobId, jobs[j].state \in {"running", "paused"},
         jobs[j].lease # NoLease,
         jobs'[j].state \in {"succeeded", "failed"}, jobs'[j].lease = NoLease
  PROVE  /\ ~Environment /\ ~OperatorCall
         /\ \A k \in JobId : \A l, stage : ~ReportProgress(k, Machine, l, stage)
         /\ \A k \in JobId : \A l : ~RenewControlLease(k, Machine, l)
         /\ \A k \in JobId : ~LeaseForDevice(k, Machine)
         /\ \A k \in JobId, succeeded \in BOOLEAN : \A l :
              Complete(k, Machine, l, succeeded) => k = j /\ l = jobs[j].lease
<1>1. jobs \in [JobId -> Job] /\ jobs[j] \in Job
  BY DEF RepositoryInv, JobsTypeOK
<1>2. jobs'[j] # jobs[j] /\ jobs'[j] # NoJob
  BY AbsentFacts DEF Absent
<1>3. ASSUME NEW k \in JobId, NEW job, Commit([jobs EXCEPT ![k] = job])
      PROVE  k = j /\ jobs'[j] = job
  BY <1>2, <1>3, OtherSlots
<1>4. ~Environment
  <2>1. CASE Tick \/ Crash
    <3>1. NoJobs[j] = NoJob
      BY DEF NoJobs
    <3> QED
      BY <1>2, <2>1, <3>1 DEF Tick, Crash
  <2>2. CASE Open
    <3>1. jobs[j] = NoJob
      BY <2>2 DEF Open, RepositoryInv, NoJobs
    <3> QED
      BY <3>1, AbsentFacts DEF Absent
  <2> QED
    BY <2>1, <2>2 DEF Environment
<1>5. ~OperatorCall
  <2>1. ASSUME NEW k \in JobId, NEW job \in Job, Adds(k, job) PROVE FALSE
    BY <1>3, <2>1 DEF Adds
  <2>2. ASSUME NEW k \in JobId, NEW next \in JobState, Transition(k, next) PROVE FALSE
    <3> DEFINE job == [jobs[k] EXCEPT !.state = next]
    <3>1. [jobs EXCEPT ![k].state = next] = [jobs EXCEPT ![k] = job]
      BY <1>1
    <3>2. Commit([jobs EXCEPT ![k] = job])
      BY <2>2, <3>1 DEF Transition
    <3>3. k = j /\ jobs'[j] = job
      BY <1>3, <3>2
    <3> QED
      BY <1>1, <3>3 DEF Job
  <2>3. ASSUME NEW k \in JobId, Remove(k) PROVE FALSE
    BY <1>2, <1>3, <2>3 DEF Remove
  <2> QED
    BY <2>1, <2>2, <2>3, InsertShape DEF OperatorCall
<1>6. ASSUME NEW k \in JobId, NEW l, NEW stage, ReportProgress(k, Machine, l, stage)
      PROVE  FALSE
  <2> DEFINE job == [jobs[k] EXCEPT !.stage = stage,
                                    !.expires = Later(jobs[k].expires, now + AgentLease)]
  <2>1. [jobs EXCEPT ![k].stage = stage, ![k].expires = Later(@, now + AgentLease)]
        = [jobs EXCEPT ![k] = job]
    BY <1>1 DEF Job
  <2>2. k = j /\ jobs'[j] = job
    BY <1>3, <1>6, <2>1 DEF ReportProgress
  <2>3. job.lease = jobs[k].lease
    BY <1>1 DEF Job
  <2> QED
    BY <2>2, <2>3
<1>7. ASSUME NEW k \in JobId, NEW l, RenewControlLease(k, Machine, l) PROVE FALSE
  <2> DEFINE job == [jobs[k] EXCEPT !.expires = now + AgentLease]
  <2>1. [jobs EXCEPT ![k].expires = now + AgentLease] = [jobs EXCEPT ![k] = job]
    BY <1>1
  <2>2. k = j /\ jobs'[j] = job
    BY <1>3, <1>7, <2>1 DEF RenewControlLease
  <2>3. job.lease = jobs[k].lease
    BY <1>1 DEF Job
  <2> QED
    BY <2>2, <2>3
<1>8. ASSUME NEW k \in JobId, LeaseForDevice(k, Machine) PROVE FALSE
  <2>1. k = j /\ jobs'[j] = Leased(jobs[k], "Preflight", AgentLease)
    BY <1>3, <1>8 DEF LeaseForDevice
  <2>2. Leased(jobs[j], "Preflight", AgentLease).state = "running"
    BY <1>1 DEF Leased, Job
  <2> QED
    BY <2>1, <2>2
<1>9. ASSUME NEW k \in JobId, NEW l, NEW succeeded \in BOOLEAN,
             Complete(k, Machine, l, succeeded)
      PROVE  k = j /\ l = jobs[j].lease
  <2>1. k = j
    BY <1>3, <1>9 DEF Complete
  <2> QED
    BY <1>9, <2>1 DEF Complete, HoldsLiveLease, HoldsLease
<1> QED
  BY <1>4, <1>5, <1>6, <1>7, <1>8, <1>9

\* No report of the agent ends an attempt the agent still works on.
THEOREM ReportsEndFinishedWork == ExecutionSpec => ReportEndsOnlyFinishedWork
<1>1. ASSUME RepositoryInv, ExecutionInv, [ExecutionNext]_executionVars, NEW j \in JobId,
             jobs[j].state \in {"running", "paused"},
             jobs'[j].state \in {"succeeded", "failed"}, jobs'[j].lease = NoLease,
             agent.job = j, agent.lease = jobs[j].lease, agent.at \in Executing
      PROVE  FALSE
  <2>1. ConversationInv /\ ReportsAreOld
    BY <1>1 DEF ExecutionInv
  <2>2. jobs[j].lease # NoLease /\ agent.lease \in 1..issued
    BY <1>1, <2>1 DEF ConversationInv, CallsOK, CallFits, Executing, NoLease
  <2>3. ~UNCHANGED repositoryVars
    BY <1>1 DEF repositoryVars
  <2>4. ~(Operate \/ Surroundings)
    BY <1>1, <2>1, <2>2, OutsideKeepsConversation, OnlyCompletionEnds
  <2>5. ~(Network \/ ChildExits \/ PowerOff \/ PowerOn)
    BY <2>1, <2>3, NetworkKeepsConversation, ChildExitsKeepsConversation,
       PowerKeepsConversation
  <2>6. ~AgentStep
    BY <2>1, <2>3, AgentStepMoves DEF AgentMove
  <2>7. ~UNCHANGED executionVars
    BY <2>3 DEF executionVars
  <2>8. PICK c \in {call.ask} \cup late, mine \in BOOLEAN : Handle(c, mine)
    BY <1>1, <2>4, <2>5, <2>6, <2>7, ServeServes DEF ExecutionNext, Serves
  <2>9. AskOK(c)
    BY <2>1, <2>8 DEF ConversationInv, CallsOK
  <2>10. ~Replied(c, mine, "nothing") /\ ~Replied(c, mine, "refused")
         /\ ~Replied(c, mine, jobs[c.job].state)
    BY <2>3 DEF Replied
  <2>11. c.errand = "complete" /\ c.lease = jobs[j].lease
    <3>1. CASE c.errand = "claim" /\ ServeClaim(c, mine)
      BY <1>1, <2>2, <2>10, <3>1, OnlyCompletionEnds DEF ServeClaim
    <3>2. CASE c.errand = "progress" /\ ServeProgress(c, mine)
      <4>1. c.job \in JobId
        BY <2>9, <3>2 DEF AskOK
      <4> QED
        BY <1>1, <2>2, <2>10, <3>2, <4>1, OnlyCompletionEnds DEF ServeProgress
    <3>3. CASE c.errand = "control" /\ ServeControl(c, mine)
      <4>1. c.job \in JobId
        BY <2>9, <3>3 DEF AskOK
      <4> QED
        BY <1>1, <2>2, <2>10, <3>3, <4>1, OnlyCompletionEnds DEF ServeControl
    <3>4. CASE c.errand = "complete" /\ ServeComplete(c, mine)
      <4>1. c.job \in JobId /\ c.succeeded \in BOOLEAN
        BY <2>9, <3>4 DEF AskOK, Call
      <4> QED
        BY <1>1, <2>2, <2>10, <3>4, <4>1, OnlyCompletionEnds DEF ServeComplete
    <3> QED
      BY <2>8, <3>1, <3>2, <3>3, <3>4 DEF Handle
  <2>12. CASE c = call.ask
    BY <1>1, <2>1, <2>11, <2>12 DEF ConversationInv, CallFits, Executing
  <2>13. CASE c \in late
    BY <1>1, <2>1, <2>11, <2>13 DEF ReportsAreOld
  <2> QED
    BY <2>8, <2>12, <2>13
<1>2. RepositoryInv /\ ExecutionInv /\ [ExecutionNext]_executionVars
      => [\A j \in JobId :
            ( /\ jobs[j].state \in {"running", "paused"}
              /\ jobs'[j].state \in {"succeeded", "failed"} /\ jobs'[j].lease = NoLease )
            => ~(/\ agent.job = j /\ agent.lease = jobs[j].lease
                 /\ agent.at \in {"starting", "awaiting", "watching"})]_executionVars
  BY <1>1 DEF Executing
<1> QED
  BY <1>2, ExecutionInvariant, PTL DEF ExecutionSpec, ReportEndsOnlyFinishedWork

==============================================================================
