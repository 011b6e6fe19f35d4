---------------------------- MODULE DhcpExchange ----------------------------
(***************************************************************************)
(* PxeLeases with the machines it serves, over a network that loses        *)
(* packets.                                                                *)
(*                                                                         *)
(* The machines' DHCP clients are external.  A machine starts without an   *)
(* address, asks for one, and once it is acknowledged uses it until the    *)
(* lease ends, counted from when it asked.  One packet is on its way       *)
(* between a machine and the service, and a new one takes the place of one *)
(* that was lost.                                                          *)
(***************************************************************************)
EXTENDS PxeLeases

CONSTANTS
  StorageFaults    \* whether writing pxe-leases.json may fail

ASSUME ExchangeAssumption == StorageFaults \in BOOLEAN

VARIABLES
  machine,     \* the DHCP client of each machine
  packet,      \* the packet between each machine and the service
  unwritten    \* history: machines whose lease a restart forgot, until they
               \* are given one again

exchangeVars == <<leases, saved, pool, saving, machine, packet, unwritten>>

NoPacket == [kind |-> "none", ip |-> 0, age |-> 0]
Packet(kind, ip) == [kind |-> kind, ip |-> ip, age |-> 0]

ClientMessage == {"discover", "request", "release", "decline"}

\* ip is the address a machine has been offered or uses, and left is what is
\* left of its lease.  A machine that selects and has sent nothing may be off.
Unaddressed == [phase |-> "selecting", ip |-> 0, left |-> 0]

ExchangeTypeOK ==
  /\ LeasesTypeOK
  /\ machine \in [Machine -> [phase : {"selecting", "requesting", "bound"},
                              ip : Address \cup {0}, left : 0..LeaseLength]]
  /\ packet \in [Machine -> [kind : {"none"} \cup ClientMessage \cup ServerMessage,
                             ip : Address \cup {0}, age : 0..LeaseLength]]
  /\ unwritten \in SUBSET Machine

ExchangeInit ==
  /\ LeasesInit
  /\ machine = [m \in Machine |-> Unaddressed]
  /\ packet = [m \in Machine |-> NoPacket]
  /\ unwritten = {}

Uses(m, ip) == machine[m].phase = "bound" /\ machine[m].ip = ip

------------------------------------------------------------------------------
(* The machines. *)

\* Machine m is left in the given state, with a packet sent or dropped.
Becomes(m, phase, ip, left, sent) ==
  /\ machine' = [machine EXCEPT ![m] = [phase |-> phase, ip |-> ip, left |-> left]]
  /\ packet' = [packet EXCEPT ![m] = sent]
  /\ UNCHANGED leaseVars

\* The machine asks for the first time, or again because the packet or its answer
\* was lost; when a request stays unanswered it may start over.
Ask(m) ==
  /\ packet[m] = NoPacket
  /\ \/ /\ machine[m].phase \in {"selecting", "requesting"}
        /\ Becomes(m, "selecting", 0, 0, Packet("discover", 0))
     \/ /\ machine[m].phase = "requesting"
        /\ Becomes(m, "requesting", machine[m].ip, 0, Packet("request", machine[m].ip))
  /\ UNCHANGED unwritten

TakeOffer(m) ==
  /\ machine[m].phase = "selecting" /\ packet[m].kind = "offer"
  /\ Becomes(m, "requesting", packet[m].ip, 0, Packet("request", packet[m].ip))
  /\ UNCHANGED unwritten

TakeAck(m) ==
  /\ machine[m].phase \in {"requesting", "bound"} /\ packet[m].kind = "ack"
  /\ packet[m].age < LeaseLength
  /\ Becomes(m, "bound", packet[m].ip, LeaseLength - packet[m].age, NoPacket)
  /\ UNCHANGED unwritten

\* The machine found the acknowledged address in use by a host the service does
\* not know.
Decline(m) ==
  /\ machine[m].phase = "requesting" /\ packet[m].kind = "ack"
  /\ Becomes(m, "selecting", 0, 0, Packet("decline", 0))
  /\ unwritten' = unwritten \ {m}

\* The machine was refused, or acknowledged when the lease had already ended.
StartOver(m) ==
  /\ packet[m].kind = "nak" \/ (packet[m].kind = "ack" /\ packet[m].age = LeaseLength)
  /\ Becomes(m, "selecting", 0, 0, Packet("discover", 0))
  /\ unwritten' = unwritten \ {m}

Renew(m) ==
  /\ machine[m].phase = "bound" /\ packet[m] = NoPacket
  /\ packet' = [packet EXCEPT ![m] = Packet("request", machine[m].ip)]
  /\ UNCHANGED <<leaseVars, machine, unwritten>>

\* The machine leaves the network, having released its address or not.
PowerOff(m) ==
  /\ machine[m].phase # "selecting"
  /\ \/ Becomes(m, "selecting", 0, 0, NoPacket)
     \/ machine[m].phase = "bound" /\ Becomes(m, "selecting", 0, 0, Packet("release", 0))
  /\ unwritten' = unwritten \ {m}

MachineStep(m) ==
  \/ Ask(m) \/ TakeOffer(m) \/ TakeAck(m) \/ StartOver(m)

------------------------------------------------------------------------------
(* The service. *)

\* run_dhcp receives the packet of m.  A packet's age counts from the request.
Receive(m) ==
  /\ \/ /\ Absorbs(m, packet[m].kind)
        /\ packet' = [packet EXCEPT ![m] = NoPacket]
        /\ UNCHANGED unwritten
     \/ \E answer \in ServerMessage, given \in Address \cup {0} :
          /\ Answers(m, packet[m].kind, packet[m].ip, answer, given)
          /\ packet' = [packet EXCEPT ![m] =
                          [kind |-> answer, ip |-> given,
                           age |-> IF answer = "ack" THEN packet[m].age ELSE 0]]
          /\ unwritten' = IF answer = "nak" THEN unwritten ELSE unwritten \ {m}
  /\ UNCHANGED machine

SaveLeases ==
  /\ Save \/ (StorageFaults /\ SaveFails)
  /\ UNCHANGED <<machine, packet, unwritten>>

Start == StartService /\ UNCHANGED <<machine, packet, unwritten>>
Stop  == StopService /\ UNCHANGED <<machine, packet, unwritten>>

------------------------------------------------------------------------------
(* The environment. *)

\* A packet is lost; while the service does not run, every packet is.
LosePacket(m) ==
  /\ packet[m] # NoPacket
  /\ packet' = [packet EXCEPT ![m] = NoPacket]
  /\ UNCHANGED <<leaseVars, machine, unwritten>>

\* The desktop process dies and is started again.
Crash ==
  /\ Restart
  /\ unwritten' = unwritten \cup {m \in Machine : leases[m] # saved[m]}
  /\ UNCHANGED <<machine, packet>>

\* A bound machine whose lease ends has no address any more.
Ends(m) == machine[m].phase = "bound" /\ machine[m].left = 1

Older(n) == IF n < LeaseLength THEN n + 1 ELSE n

TimePasses ==
  /\ Tick
  /\ machine' = [m \in Machine |->
                   IF Ends(m) THEN Unaddressed
                   ELSE IF machine[m].phase = "bound"
                        THEN [machine[m] EXCEPT !.left = @ - 1] ELSE machine[m]]
  /\ packet' = [m \in Machine |->
                  IF Ends(m) THEN NoPacket
                  ELSE IF packet[m].kind \in {"request", "ack"}
                       THEN [packet[m] EXCEPT !.age = Older(@)] ELSE packet[m]]
  /\ unwritten' = {m \in unwritten : ~Ends(m)}

\* A tick goes by while a machine waits for its address.
SlowAnswer == TimePasses /\ \E m \in Machine : machine[m].phase \in {"selecting", "requesting"}

Disturbance ==
  \/ \E m \in Machine : LosePacket(m) \/ PowerOff(m) \/ Decline(m)
  \/ Crash \/ Stop

ExchangeNext ==
  \/ \E m \in Machine : MachineStep(m) \/ Renew(m) \/ Receive(m)
  \/ SaveLeases \/ Start
  \/ TimePasses
  \/ Disturbance

ExchangeSpec == ExchangeInit /\ [][ExchangeNext]_exchangeVars

\* Machines go on, the task goes on, and every packet that stays in its queue is
\* received, however many others there are.
FairExchangeSpec ==
  /\ ExchangeSpec
  /\ \A m \in Machine : WF_exchangeVars(MachineStep(m)) /\ SF_exchangeVars(Receive(m))
  /\ WF_exchangeVars(SaveLeases)

------------------------------------------------------------------------------
(* Properties. *)

\* Two machines use one address only if the process died before the lease of one
\* of them was in the file: offers, renewals, expiry, releases, lost answers, and
\* a pool that changes between two runs never give an address out twice.
AddressHasOneUser ==
  \A m, k \in Machine : \A ip \in Address :
    Uses(m, ip) /\ Uses(k, ip) => m = k \/ {m, k} \cap unwritten # {}

\* With an address for every machine, once the network is quiet, the service
\* stays up and an exchange is shorter than a tick, every machine gets an
\* address, whatever the pool was before and whatever is left in the table.
MachinesGetAddresses ==
  /\ <>[][~Disturbance /\ ~SlowAnswer]_exchangeVars
  /\ <>[](Cardinality(pool) >= Cardinality(Machine))
  => \A m \in Machine : []<>(machine[m].phase = "bound")
==============================================================================
