---------------------------- MODULE AgentPresence ----------------------------
(***************************************************************************)
(* How the agents of crates/agent/src/main.rs keep their machine on the    *)
(* host's list: an agent registers, then sends a heartbeat and claims a    *)
(* job in a loop, and registers again after any error.  A machine may      *)
(* report another of its network adapters each time it is asked, loses     *)
(* power at any point, and its calls may be lost, or served after it gave  *)
(* them up; the operator may remove any machine from the list.             *)
(*                                                                         *)
(* A registration must show the enrollment token.  Every start of the      *)
(* control plane draws a new one and then writes it into the boot image;   *)
(* an agent reads the image's token when its machine boots and never       *)
(* again, while its heartbeats show the device token it was granted.  An   *)
(* enrollment token is only ever compared with the current one and is      *)
(* never drawn twice, so of each it is kept whether it is the current one. *)
(*                                                                         *)
(* Ids and tokens are random: a new one is any that nobody holds, so the   *)
(* run is not cut short by a number of registrations.  Executing a job     *)
(* takes place between two heartbeats and is not here.                     *)
(***************************************************************************)
EXTENDS DeviceRegistry

CONSTANTS
  Machine,
  Adapter,     \* the MAC addresses of each machine's adapters
  MaxLate,     \* bound: calls given up and not yet served or lost
  MaxDevices   \* bound: with more records, heartbeats report no other adapter

ASSUME PresenceAssumption ==
  /\ Adapter \in [Machine -> SUBSET Mac]
  /\ MaxLate \in Nat /\ MaxDevices \in Nat

VARIABLES
  synced,      \* whether the boot image holds the current enrollment token
  machine,     \* the agents
  late         \* calls given up by their sender

presenceVars == <<devices, synced, machine, late>>

\* enrolls: a registration shows the current enrollment token.
Call == [kind : {"none", "register", "heartbeat"}, enrolls : BOOLEAN,
         id : DeviceId \cup {None}, token : Token \cup {None},
         mac : Mac \cup {None}, disks : Inventory \cup {{}}]

NoCall == [kind |-> "none", enrolls |-> FALSE, id |-> None, token |-> None,
           mac |-> None, disks |-> {}]

\* An agent: which loop it is in, whether it booted with the current enrollment
\* token, the registration it holds, its call in progress, and the answer with
\* the registration it grants.
AgentRecord ==
  [at : {"registering", "beating", "off"}, enrolls : BOOLEAN,
   id : DeviceId \cup {None}, token : Token \cup {None}, call : Call,
   answer : {"none", "ok", "refused"}, granted : (DeviceId \X Token) \cup {<<>>}]

PresenceTypeOK ==
  /\ RegistryTypeOK
  /\ synced \in BOOLEAN
  /\ machine \in [Machine -> AgentRecord]
  /\ late \in SUBSET Call

Started(enrolls) ==
  [at |-> "registering", enrolls |-> enrolls, id |-> None, token |-> None,
   call |-> NoCall, answer |-> "none", granted |-> <<>>]

PresenceInit ==
  /\ RegistryInit
  /\ synced = TRUE
  /\ machine = [m \in Machine |-> Started(TRUE)]
  /\ late = {}

------------------------------------------------------------------------------
(* The host. *)

HeldIds ==
  {devices[k].id : k \in DOMAIN devices} \cup {c.id : c \in late}
    \cup UNION {{machine[m].id, machine[m].call.id} : m \in Machine}
    \cup {machine[m].granted[1] : m \in {n \in Machine : machine[n].granted # <<>>}}

HeldTokens(id) ==
  {devices[k].token : k \in {n \in DOMAIN devices : devices[n].id = id}}
    \cup {c.token : c \in {b \in late : b.id = id}}
    \cup UNION { {t \in Token : machine[m].granted = <<id, t>>} : m \in Machine }
    \cup UNION { {machine[m].token, machine[m].call.token} :
                   m \in {n \in Machine : machine[n].id = id} }

\* Uuid::new_v4 and generate_secret.  Ids are only compared, and a token only
\* with the one on the record of its id, so which of the unheld ones is drawn
\* does not matter.
FreshId        == CHOOSE id \in DeviceId : id \notin HeldIds
FreshToken(id) == CHOOSE token \in Token : token \notin HeldTokens(id)

\* register_agent, with the registration it grants.
Registers(c, id, token) ==
  /\ c.kind = "register" /\ c.enrolls
  /\ id = IF FirstWith(c.mac) # 0 THEN devices[FirstWith(c.mac)].id ELSE FreshId
  /\ token = FreshToken(id)
  /\ Register(id, token, c.mac, c.disks)

\* agent_heartbeat, accepted.
Beats(c) == c.kind = "heartbeat" /\ Heartbeat(c.id, c.token, c.mac, c.disks)

\* The calls the host turns away: a registration with the token of an earlier
\* start, or a heartbeat with a token the device has no more.
Refuses(c) ==
  /\ \/ c.kind = "register" /\ ~c.enrolls
     \/ c.kind = "heartbeat" /\ ~Authenticates(c.id, c.token)
  /\ UNCHANGED devices

Serve(m) ==
  LET c == machine[m].call
  IN  /\ \/ \E id \in DeviceId, token \in Token :
              /\ Registers(c, id, token)
              /\ machine' = [machine EXCEPT ![m].call = NoCall, ![m].answer = "ok",
                                            ![m].granted = <<id, token>>]
         \/ /\ Beats(c)
            /\ machine' = [machine EXCEPT ![m].call = NoCall, ![m].answer = "ok"]
         \/ /\ Refuses(c)
            /\ machine' = [machine EXCEPT ![m].call = NoCall, ![m].answer = "refused"]
      /\ UNCHANGED <<synced, late>>

ServeLate ==
  \E c \in late :
    /\ \/ \E id \in DeviceId, token \in Token : Registers(c, id, token)
       \/ Beats(c)
       \/ Refuses(c)
    /\ late' = late \ {c}
    /\ UNCHANGED <<synced, machine>>

\* start_control_plane, after a stop or a restart of the desktop: a new
\* enrollment token, and every other copy is out of date.  The list of machines
\* is read from its file.
StartControlPlane ==
  /\ synced' = FALSE
  /\ machine' = [m \in Machine |->
       [machine[m] EXCEPT !.enrolls = FALSE, !.call.enrolls = FALSE]]
  /\ late' = {[c EXCEPT !.enrolls = FALSE] : c \in late}
  /\ UNCHANGED devices

\* sync_agent_bootstrap reaches the boot image.  It may fail after every start.
SyncBootImage ==
  /\ synced' = TRUE
  /\ UNCHANGED <<devices, machine, late>>

------------------------------------------------------------------------------
(* The agent. *)

PowerOn(m) ==
  /\ machine[m].at = "off"
  /\ machine' = [machine EXCEPT ![m] = Started(synced)]
  /\ UNCHANGED <<devices, synced, late>>

\* register_agent or send_heartbeat, with the inventory of the moment.
Send(m) ==
  /\ machine[m].at # "off" /\ machine[m].call = NoCall /\ machine[m].answer = "none"
  /\ \E mac \in Adapter[m], disks \in Inventory :
       /\ \/ Len(devices) <= MaxDevices
          \/ Known(machine[m].id) => mac = RecordOf(machine[m].id).mac
       /\ machine' = [machine EXCEPT ![m].call =
            IF machine[m].at = "registering"
            THEN [NoCall EXCEPT !.kind = "register", !.enrolls = machine[m].enrolls,
                                !.mac = mac, !.disks = disks]
            ELSE [NoCall EXCEPT !.kind = "heartbeat", !.id = machine[m].id,
                                !.token = machine[m].token,
                                !.mac = mac, !.disks = disks]]
  /\ UNCHANGED <<devices, synced, late>>

Registered(m) ==
  /\ machine[m].at = "registering" /\ machine[m].answer = "ok"
  /\ machine' = [machine EXCEPT ![m] =
       [Started(machine[m].enrolls) EXCEPT !.at = "beating",
          !.id = machine[m].granted[1], !.token = machine[m].granted[2]]]
  /\ UNCHANGED <<devices, synced, late>>

\* Slip: the heartbeat loop goes on after an error.
BeatsOnForever(m) ==
  /\ machine[m].answer # "none"
  /\ \/ /\ machine[m].at = "beating"
        /\ machine' = [machine EXCEPT ![m].answer = "none"]
     \/ /\ machine[m].at = "registering" /\ machine[m].answer = "refused"
        /\ machine' = [machine EXCEPT ![m] = Started(machine[m].enrolls)]
  /\ UNCHANGED <<devices, synced, late>>

\* After an accepted heartbeat the agent claims a job and stays in the loop.
\* When the claim fails, or the heartbeat or the registration was refused, it
\* registers (again) with nothing kept of the registration it had.
BeatsOn(m) ==
  /\ machine[m].answer # "none"
  /\ \/ /\ machine[m].at = "beating" /\ machine[m].answer = "ok"
        /\ machine' = [machine EXCEPT ![m].answer = "none"]
     \/ /\ machine[m].at = "beating" \/ machine[m].answer # "ok"
        /\ machine' = [machine EXCEPT ![m] = Started(machine[m].enrolls)]
  /\ UNCHANGED <<devices, synced, late>>

------------------------------------------------------------------------------
(* What disturbs it. *)

\* A call in progress and not yet served may be served later.
MayLinger(m) ==
  \/ late' = late
  \/ /\ machine[m].call # NoCall
     /\ Cardinality(late) < MaxLate
     /\ late' = late \cup {machine[m].call}

\* The agent sees an error, whether the call was served or not, and registers
\* (again).
GiveUp(m) ==
  /\ machine[m].call # NoCall \/ machine[m].answer # "none"
  /\ machine' = [machine EXCEPT ![m] = Started(machine[m].enrolls)]
  /\ MayLinger(m)
  /\ UNCHANGED <<devices, synced>>

PowerOff(m) ==
  /\ machine[m].at # "off"
  /\ machine' = [machine EXCEPT ![m] = [Started(FALSE) EXCEPT !.at = "off"]]
  /\ MayLinger(m)
  /\ UNCHANGED <<devices, synced>>

LoseLate ==
  \E c \in late : late' = late \ {c} /\ UNCHANGED <<devices, synced, machine>>

OperatorRemoves ==
  \E id \in DeviceId : RemoveDevice(id) /\ UNCHANGED <<synced, machine, late>>

Disturbance ==
  \/ \E m \in Machine : GiveUp(m) \/ PowerOff(m)
  \/ LoseLate \/ ServeLate
  \/ OperatorRemoves \/ StartControlPlane

AgentStep(m) == PowerOn(m) \/ Send(m) \/ Registered(m) \/ BeatsOn(m)

PresenceNext == \/ \E m \in Machine : AgentStep(m) \/ Serve(m)
                \/ SyncBootImage
                \/ Disturbance

PresenceSpec == PresenceInit /\ [][PresenceNext]_presenceVars

\* The agent never stops by itself, and the host serves what reaches it.
FairPresenceSpec ==
  PresenceSpec /\ \A m \in Machine : /\ WF_presenceVars(AgentStep(m))
                                     /\ WF_presenceVars(Serve(m))

------------------------------------------------------------------------------
(* Properties. *)

\* The machine holds the registration its record asks for.
Online(m) == machine[m].id # None /\ Authenticates(machine[m].id, machine[m].token)

\* The agent asks for a registration with the enrollment token of an earlier
\* start of the control plane.
TurnedAway(m) == machine[m].at = "registering" /\ ~machine[m].enrolls

\* Once nothing disturbs them any more, every agent gets back on the list and
\* stays connected, whatever was removed, replaced or lost before: none goes on
\* with a registration the host does not accept.  The one exception is an agent
\* that must register after the control plane was started again: register_agent
\* refuses its enrollment token until the machine boots from a synced image.
\* (An agent with an outdated token whose registration still stands stays
\* connected.)
AgentsComeBack ==
  <>[][~Disturbance]_presenceVars
    => \A m \in Machine : []<>Online(m) \/ <>[]TurnedAway(m)
==============================================================================
