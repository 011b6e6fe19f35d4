-------------------------- MODULE NetworkBootProofs --------------------------
(***************************************************************************)
(* Theorems about what boots a machine from the network: DhcpExchange and  *)
(* TftpTransfer.                                                           *)
(*                                                                         *)
(* DhcpExchange, for all machines, addresses, pools and lease lengths.     *)
(* The invariant says two things.  No two machines have a live lease on    *)
(* one address, in memory or in the file, which a restart turns into the   *)
(* memory.  And a machine whose lease no restart forgot holds a lease on   *)
(* the address it uses, or is about to use, that lasts at least as long as *)
(* the machine believes.                                                   *)
(*                                                                         *)
(* TftpTransfer, for any number of requests, any file and block size, any  *)
(* width of the block number, and any number of tries, losses and early    *)
(* timeouts.  The task is never more than one packet ahead of the machine  *)
(* and never behind it, and no datagram on its way is ahead of its sender. *)
(* So a datagram that is not older than a round of block numbers and has   *)
(* the number of the packet that is waited for is that packet.             *)
(***************************************************************************)
EXTENDS DhcpExchange, TftpTransfer, FiniteSetTheorems, TLAPS

------------------------------------------------------------------------------
(* DhcpExchange: the invariant. *)

\* No two machines have a lease on one address.
DistinctAddresses(table) ==
  \A m, k \in Machine : table[m].ip # 0 /\ table[m].ip = table[k].ip => m = k

\* Machine m has a lease on ip with at least n ticks left.
Leased(m, ip, n) == leases[m].ip = ip /\ leases[m].left >= n

\* A machine holds the lease it uses, and the one an acknowledgement on its way
\* gives it.
HoldsItsLease(m) ==
  /\ machine[m].phase = "bound" => Leased(m, machine[m].ip, machine[m].left)
  /\ packet[m].kind = "ack" /\ packet[m].age < LeaseLength =>
       Leased(m, packet[m].ip, LeaseLength - packet[m].age)

\* An acknowledgement names an address, and a bound machine, which has time left,
\* asks for nothing but its own address.
AsksForItsAddress(m) ==
  /\ packet[m].kind = "ack" => packet[m].ip # 0
  /\ machine[m].phase = "bound" =>
       /\ machine[m].ip # 0 /\ machine[m].left > 0
       /\ packet[m].kind \in {"none", "request", "ack", "nak"}
       /\ packet[m].kind \in {"request", "ack"} => packet[m].ip = machine[m].ip

ExchangeInv ==
  /\ ExchangeTypeOK
  /\ DistinctAddresses(leases) /\ DistinctAddresses(saved)
  /\ \A m \in Machine : AsksForItsAddress(m) /\ (m \notin unwritten => HoldsItsLease(m))

------------------------------------------------------------------------------
(* The table. *)

\* What LeasesAssumption says of the pools.
LEMMA PoolFacts ==
  ASSUME pool \in Pools \cup {{}}
  PROVE  pool \subseteq Address /\ 0 \notin pool
BY LeasesAssumption

\* A lease on an address nobody else has keeps the addresses distinct.
LEMMA NewLeaseIsDistinct ==
  ASSUME NEW m \in Machine, NEW ip \in Address,
         leases \in [Machine -> Lease \cup {NoLease}],
         DistinctAddresses(leases),
         ~TakenBy(Machine \ {m}, ip)
  PROVE  /\ [leases EXCEPT ![m] = NewLease(ip)] \in [Machine -> Lease \cup {NoLease}]
         /\ DistinctAddresses([leases EXCEPT ![m] = NewLease(ip)])
<1>1. NewLease(ip) \in Lease
  BY LeasesAssumption DEF NewLease, Lease
<1>2. [leases EXCEPT ![m] = NewLease(ip)] \in [Machine -> Lease \cup {NoLease}]
  BY <1>1
<1>3. \A k \in Machine : k # m => leases[k].ip # ip
  BY DEF TakenBy
<1>4. NewLease(ip).ip = ip
  BY DEF NewLease
<1>5. DistinctAddresses([leases EXCEPT ![m] = NewLease(ip)])
  BY <1>3, <1>4 DEF DistinctAddresses
<1>6. QED
  BY <1>2, <1>5

\* Dropping a lease keeps them distinct.
LEMMA DroppedLeaseIsDistinct ==
  ASSUME NEW m \in Machine,
         leases \in [Machine -> Lease \cup {NoLease}],
         DistinctAddresses(leases)
  PROVE  /\ [leases EXCEPT ![m] = NoLease] \in [Machine -> Lease \cup {NoLease}]
         /\ DistinctAddresses([leases EXCEPT ![m] = NoLease])
BY DEF DistinctAddresses, NoLease

\* retain keeps the type of a lease and its address, or drops it.
LEMMA AgedLease ==
  ASSUME NEW lease \in Lease \cup {NoLease}
  PROVE  /\ Aged(lease) \in Lease \cup {NoLease}
         /\ Aged(lease).ip # 0 => Aged(lease).ip = lease.ip
         /\ lease.left > 1 =>
              Aged(lease).ip = lease.ip /\ Aged(lease).left = lease.left - 1
<1>1. lease.left \in 0..LeaseLength /\ LeaseLength \in Nat
  BY LeasesAssumption DEF Lease, NoLease
<1>2. CASE lease.left > 1
  <2>1. lease \in Lease
    BY <1>2 DEF NoLease
  <2>2. Aged(lease) = [lease EXCEPT !.left = lease.left - 1]
    BY <1>2 DEF Aged
  <2>3. QED
    BY <1>1, <1>2, <2>1, <2>2 DEF Lease
<1>3. CASE ~(lease.left > 1)
  <2>1. Aged(lease) = NoLease
    BY <1>3 DEF Aged
  <2>2. QED
    BY <1>3, <2>1 DEF NoLease
<1>4. QED
  BY <1>2, <1>3

\* retain keeps a whole table distinct.
LEMMA AgedTable ==
  ASSUME NEW table \in [Machine -> Lease \cup {NoLease}], DistinctAddresses(table)
  PROVE  /\ [m \in Machine |-> Aged(table[m])] \in [Machine -> Lease \cup {NoLease}]
         /\ DistinctAddresses([m \in Machine |-> Aged(table[m])])
<1>1. \A m \in Machine : /\ Aged(table[m]) \in Lease \cup {NoLease}
                         /\ Aged(table[m]).ip # 0 => Aged(table[m]).ip = table[m].ip
  BY AgedLease
<1>2. QED
  BY <1>1 DEF DistinctAddresses

------------------------------------------------------------------------------
(* The steps. *)

LEMMA ExchangeInitInv == ExchangeInit => ExchangeInv
<1> SUFFICES ASSUME ExchangeInit PROVE ExchangeInv
  OBVIOUS
<1>1. 0 \in 0..LeaseLength
  BY LeasesAssumption
<1>2. LeasesTypeOK
  BY DEF ExchangeInit, LeasesInit, LeasesTypeOK, NoLeases
<1>3. ExchangeTypeOK
  BY <1>1, <1>2 DEF ExchangeInit, ExchangeTypeOK, Unaddressed, NoPacket
<1>4. DistinctAddresses(leases) /\ DistinctAddresses(saved)
  BY DEF ExchangeInit, LeasesInit, NoLeases, NoLease, DistinctAddresses
<1>5. \A m \in Machine : AsksForItsAddress(m) /\ HoldsItsLease(m)
  BY DEF ExchangeInit, AsksForItsAddress, HoldsItsLease, Unaddressed, NoPacket
<1>6. QED
  BY <1>3, <1>4, <1>5 DEF ExchangeInv

\* What a machine does by itself: its new state and packet must fit the table.
LEMMA MachineStepInv ==
  ASSUME ExchangeInv, NEW m \in Machine,
         NEW phase \in {"selecting", "requesting", "bound"},
         NEW ip \in Address \cup {0}, NEW left \in 0..LeaseLength,
         NEW sent \in [kind : {"none"} \cup ClientMessage, ip : Address \cup {0}, age : {0}],
         Becomes(m, phase, ip, left, sent),
         unwritten' \in {unwritten, unwritten \ {m}},
         phase = "bound" => /\ ip # 0 /\ left > 0 /\ sent.kind = "none"
                            /\ m \notin unwritten' => Leased(m, ip, left)
  PROVE  ExchangeInv'
<1>1. LeaseLength \in Nat \ {0}
  BY LeasesAssumption
<1>2. /\ machine' = [machine EXCEPT ![m] = [phase |-> phase, ip |-> ip, left |-> left]]
      /\ packet' = [packet EXCEPT ![m] = sent]
      /\ leases' = leases /\ saved' = saved /\ pool' = pool /\ saving' = saving
  BY DEF Becomes, leaseVars
<1>3. ExchangeTypeOK'
  BY <1>1, <1>2 DEF ExchangeInv, ExchangeTypeOK, LeasesTypeOK
<1>4. DistinctAddresses(leases)' /\ DistinctAddresses(saved)'
  BY <1>2 DEF ExchangeInv, DistinctAddresses
<1>5. ASSUME NEW k \in Machine
      PROVE  AsksForItsAddress(k)' /\ (k \notin unwritten' => HoldsItsLease(k)')
  <2>1. CASE k = m
    <3>1. /\ machine'[k] = [phase |-> phase, ip |-> ip, left |-> left]
          /\ packet'[k] = sent
      BY <1>2, <2>1 DEF ExchangeInv, ExchangeTypeOK
    <3>2. sent.kind # "ack"
      BY DEF ClientMessage
    <3>3. QED
      BY <1>2, <2>1, <3>1, <3>2 DEF AsksForItsAddress, HoldsItsLease, Leased
  <2>2. CASE k # m
    <3>1. machine'[k] = machine[k] /\ packet'[k] = packet[k] /\ leases'[k] = leases[k]
      BY <1>2, <2>2 DEF ExchangeInv, ExchangeTypeOK
    <3>2. AsksForItsAddress(k) /\ (k \notin unwritten => HoldsItsLease(k))
      BY DEF ExchangeInv
    <3>3. k \notin unwritten' => k \notin unwritten
      BY <2>2
    <3>4. QED
      BY <3>1, <3>2, <3>3 DEF AsksForItsAddress, HoldsItsLease, Leased
  <2>3. QED
    BY <2>1, <2>2
<1>6. QED
  BY <1>3, <1>4, <1>5 DEF ExchangeInv

\* The steps of a machine, one by one.
LEMMA MachinesKeepInv ==
  ASSUME ExchangeInv, NEW m \in Machine, MachineStep(m) \/ PowerOff(m) \/ Decline(m)
  PROVE  ExchangeInv'
<1> USE LeasesAssumption
<1>1. /\ machine[m].ip \in Address \cup {0}
      /\ packet[m].ip \in Address \cup {0} /\ packet[m].age \in 0..LeaseLength
      /\ 0 \in 0..LeaseLength
  BY DEF ExchangeInv, ExchangeTypeOK
<1>2. \A kind \in {"none"} \cup ClientMessage, ip \in Address \cup {0} :
        Packet(kind, ip) \in [kind : {"none"} \cup ClientMessage, ip : Address \cup {0}, age : {0}]
  BY DEF Packet
<1>3. NoPacket \in [kind : {"none"} \cup ClientMessage, ip : Address \cup {0}, age : {0}]
  BY DEF NoPacket
<1>4. CASE Ask(m)
  BY <1>1, <1>2, <1>4, MachineStepInv DEF Ask, ClientMessage
<1>5. CASE TakeOffer(m)
  BY <1>1, <1>2, <1>5, MachineStepInv DEF TakeOffer, ClientMessage
<1>6. CASE TakeAck(m)
  <2>1. HoldsItsLease(m) \/ m \in unwritten
    BY DEF ExchangeInv
  <2> DEFINE left == LeaseLength - packet[m].age
  <2>2. left \in 0..LeaseLength /\ left > 0
    BY <1>1, <1>6 DEF TakeAck
  <2>3. QED
    <3>1. packet[m].ip # 0
      BY <1>6 DEF TakeAck, ExchangeInv, AsksForItsAddress
    <3>2. m \notin unwritten' => Leased(m, packet[m].ip, left)
      BY <1>6, <2>1 DEF TakeAck, HoldsItsLease
    <3>3. NoPacket.kind = "none"
      BY DEF NoPacket
    <3>4. Becomes(m, "bound", packet[m].ip, left, NoPacket) /\ unwritten' = unwritten
      BY <1>6 DEF TakeAck
    <3> HIDE DEF left
    <3>5. QED
      BY <1>1, <1>3, <2>2, <3>1, <3>2, <3>3, <3>4, MachineStepInv
<1>7. CASE StartOver(m)
  BY <1>1, <1>2, <1>7, MachineStepInv DEF StartOver, ClientMessage
<1>8. CASE PowerOff(m)
  BY <1>1, <1>2, <1>3, <1>8, MachineStepInv DEF PowerOff, ClientMessage
<1>9. CASE Decline(m)
  BY <1>1, <1>2, <1>9, MachineStepInv DEF Decline, ClientMessage
<1>10. QED
  BY <1>4, <1>5, <1>6, <1>7, <1>8, <1>9 DEF MachineStep

\* The packet of a machine is lost, or a bound machine asks to renew its lease.
LEMMA PacketStepInv ==
  ASSUME ExchangeInv, NEW m \in Machine, LosePacket(m) \/ Renew(m)
  PROVE  ExchangeInv'
<1>1. PICK sent \in {NoPacket, Packet("request", machine[m].ip)} :
        /\ packet' = [packet EXCEPT ![m] = sent]
        /\ sent # NoPacket => machine[m].phase = "bound"
  BY DEF LosePacket, Renew
<1>2. leases' = leases /\ saved' = saved /\ pool' = pool /\ saving' = saving
      /\ machine' = machine /\ unwritten' = unwritten
  BY DEF LosePacket, Renew, leaseVars
<1>3. /\ sent \in [kind : {"none", "request"}, ip : Address \cup {0}, age : 0..LeaseLength]
      /\ sent.kind = "request" =>
           machine[m].phase = "bound" /\ sent.ip = machine[m].ip
  BY <1>1, LeasesAssumption DEF NoPacket, Packet, ExchangeInv, ExchangeTypeOK
<1>4. ExchangeTypeOK'
  BY <1>1, <1>2, <1>3 DEF ExchangeInv, ExchangeTypeOK, LeasesTypeOK, ClientMessage
<1>5. DistinctAddresses(leases)' /\ DistinctAddresses(saved)'
  BY <1>2 DEF ExchangeInv, DistinctAddresses
<1>6. ASSUME NEW k \in Machine
      PROVE  AsksForItsAddress(k)' /\ (k \notin unwritten' => HoldsItsLease(k)')
  <2>1. packet'[k] = IF k = m THEN sent ELSE packet[k]
    BY <1>1 DEF ExchangeInv, ExchangeTypeOK
  <2>2. AsksForItsAddress(k) /\ (k \notin unwritten => HoldsItsLease(k))
    BY DEF ExchangeInv
  <2>3. QED
    BY <1>2, <1>3, <2>1, <2>2 DEF AsksForItsAddress, HoldsItsLease, Leased
<1>7. QED
  BY <1>4, <1>5, <1>6 DEF ExchangeInv

\* A packet the service answers: only the lease of its sender changes, to one on
\* the address the answer names.
LEMMA AnswerInv ==
  ASSUME ExchangeInv, NEW m \in Machine, Receive(m)
  PROVE  ExchangeInv'
<1> USE LeasesAssumption
<1>1. /\ leases \in [Machine -> Lease \cup {NoLease}] /\ DistinctAddresses(leases)
      /\ pool \in Pools \cup {{}}
      /\ saved' = saved /\ pool' = pool /\ machine' = machine
  BY DEF ExchangeInv, ExchangeTypeOK, LeasesTypeOK, Receive, Answers, Absorbs
<1>2. pool \subseteq Address /\ 0 \notin pool
  BY <1>1, PoolFacts
<1>3. ASSUME NEW sent \in [kind : {"none", "offer", "ack", "nak"}, ip : Address \cup {0},
                          age : 0..LeaseLength],
             packet' = [packet EXCEPT ![m] = sent],
             saving' \in BOOLEAN,
             leases' \in [Machine -> Lease \cup {NoLease}], DistinctAddresses(leases'),
             \A k \in Machine : k # m => leases'[k] = leases[k],
             unwritten' \in {unwritten, unwritten \ {m}},
             AsksForItsAddress(m)' /\ (m \notin unwritten' => HoldsItsLease(m)')
      PROVE  ExchangeInv'
  <2>1. ExchangeTypeOK'
    BY <1>1, <1>3 DEF ExchangeInv, ExchangeTypeOK, LeasesTypeOK, ServerMessage
  <2>2. DistinctAddresses(leases)' /\ DistinctAddresses(saved)'
    BY <1>1, <1>3 DEF ExchangeInv, DistinctAddresses
  <2>3. ASSUME NEW k \in Machine, k # m
        PROVE  AsksForItsAddress(k)' /\ (k \notin unwritten' => HoldsItsLease(k)')
    <3>1. packet'[k] = packet[k] /\ leases'[k] = leases[k]
      BY <1>3, <2>3 DEF ExchangeInv, ExchangeTypeOK
    <3>2. AsksForItsAddress(k) /\ (k \notin unwritten => HoldsItsLease(k))
      BY DEF ExchangeInv
    <3>3. k \notin unwritten' => k \notin unwritten
      BY <1>3, <2>3
    <3>4. QED
      BY <1>1, <3>1, <3>2, <3>3 DEF AsksForItsAddress, HoldsItsLease, Leased
  <2>4. QED
    BY <1>3, <2>1, <2>2, <2>3 DEF ExchangeInv
<1> DEFINE Known == AsksForItsAddress(m) /\ (m \notin unwritten => HoldsItsLease(m))
<1>4. Known /\ packet[m] \in [kind : {"none"} \cup ClientMessage \cup ServerMessage,
                              ip : Address \cup {0}, age : 0..LeaseLength]
  BY DEF ExchangeInv, ExchangeTypeOK
<1>5. packet \in [Machine -> [kind : {"none"} \cup ClientMessage \cup ServerMessage,
                              ip : Address \cup {0}, age : 0..LeaseLength]]
      /\ machine[m].left \in 0..LeaseLength
  BY DEF ExchangeInv, ExchangeTypeOK
<1>6. CASE Absorbs(m, packet[m].kind) /\ packet' = [packet EXCEPT ![m] = NoPacket]
           /\ UNCHANGED unwritten
  <2>1. machine[m].phase # "bound" /\ NoPacket.kind = "none"
    BY <1>4, <1>6 DEF Absorbs, AsksForItsAddress, NoPacket
  <2>2. packet'[m] = NoPacket
    BY <1>5, <1>6
  <2>3. AsksForItsAddress(m)' /\ HoldsItsLease(m)'
    BY <1>1, <2>1, <2>2 DEF AsksForItsAddress, HoldsItsLease
  <2>4. /\ leases' \in [Machine -> Lease \cup {NoLease}] /\ DistinctAddresses(leases')
        /\ \A k \in Machine : k # m => leases'[k] = leases[k]
        /\ saving' \in BOOLEAN
    <3>1. saving' \in BOOLEAN
      BY <1>6 DEF Absorbs, ExchangeInv, ExchangeTypeOK, LeasesTypeOK
    <3>2. CASE UNCHANGED leases
      BY <1>1, <3>1, <3>2
    <3>3. CASE leases' = [leases EXCEPT ![m] = NoLease]
      BY <1>1, <3>1, <3>3, DroppedLeaseIsDistinct
    <3>4. QED
      BY <1>6, <3>2, <3>3 DEF Absorbs
  <2>5. NoPacket \in [kind : {"none", "offer", "ack", "nak"}, ip : Address \cup {0},
                      age : 0..LeaseLength]
    BY DEF NoPacket
  <2>6. QED
    BY <1>3, <1>6, <2>3, <2>4, <2>5
<1>7. ASSUME NEW answer \in ServerMessage, NEW given \in Address \cup {0},
             Answers(m, packet[m].kind, packet[m].ip, answer, given),
             packet' = [packet EXCEPT ![m] =
                         [kind |-> answer, ip |-> given,
                          age |-> IF answer = "ack" THEN packet[m].age ELSE 0]],
             unwritten' = IF answer = "nak" THEN unwritten ELSE unwritten \ {m}
      PROVE  ExchangeInv'
  <2> DEFINE sent == [kind |-> answer, ip |-> given,
                      age |-> IF answer = "ack" THEN packet[m].age ELSE 0]
  <2>1. /\ sent \in [kind : {"none", "offer", "ack", "nak"}, ip : Address \cup {0},
                     age : 0..LeaseLength]
        /\ sent.kind = answer /\ sent.ip = given
        /\ answer = "ack" => sent.age = packet[m].age
    BY <1>4 DEF ServerMessage
  <2>2. packet'[m] = sent /\ packet' = [packet EXCEPT ![m] = sent]
    BY <1>5, <1>7
  <2>3. unwritten' \in {unwritten, unwritten \ {m}} /\ saving' \in BOOLEAN
    BY <1>7 DEF Answers
  <2> HIDE DEF sent
  <2>4. CASE packet[m].kind = "discover" /\ answer = "offer" /\ Offers(m, given)
    <3>1. machine[m].phase # "bound"
      BY <1>4, <2>4 DEF AsksForItsAddress
    <3>2. AsksForItsAddress(m)' /\ HoldsItsLease(m)'
      BY <1>1, <2>1, <2>2, <2>4, <3>1 DEF AsksForItsAddress, HoldsItsLease
    <3>3. CASE UNCHANGED leases
      BY <1>1, <1>3, <2>1, <2>2, <2>3, <3>2, <3>3
    <3>4. CASE leases' = [leases EXCEPT ![m] = NewLease(given)] /\ given \in Free
      <4>1. given \in Address /\ ~TakenBy(Machine \ {m}, given)
        BY <1>2, <3>4 DEF Free, TakenBy
      <4>2. /\ leases' \in [Machine -> Lease \cup {NoLease}] /\ DistinctAddresses(leases')
            /\ \A k \in Machine : k # m => leases'[k] = leases[k]
        BY <1>1, <3>4, <4>1, NewLeaseIsDistinct
      <4>3. QED
        BY <1>3, <2>1, <2>2, <2>3, <3>2, <4>2
    <3>5. QED
      BY <2>4, <3>3, <3>4 DEF Offers
  <2>5. CASE packet[m].kind = "request" /\ answer = "ack" /\ given = packet[m].ip
             /\ Assigns(m, packet[m].ip)
    <3>1. /\ given \in Address /\ given # 0 /\ ~TakenBy(Machine \ {m}, given)
          /\ leases' = [leases EXCEPT ![m] = NewLease(given)]
      BY <1>2, <2>5 DEF Assigns, Assignable
    <3>2. /\ leases' \in [Machine -> Lease \cup {NoLease}] /\ DistinctAddresses(leases')
          /\ \A k \in Machine : k # m => leases'[k] = leases[k]
      BY <1>1, <3>1, NewLeaseIsDistinct
    <3>3. leases'[m].ip = given /\ leases'[m].left = LeaseLength
      BY <1>1, <3>1 DEF NewLease
    <3>4. AsksForItsAddress(m)'
      BY <1>1, <1>4, <2>1, <2>2, <2>5, <3>1 DEF AsksForItsAddress
    <3>5. machine[m].phase = "bound" => machine[m].ip = given
      BY <1>4, <2>5 DEF AsksForItsAddress
    <3>6. HoldsItsLease(m)'
      BY <1>1, <1>4, <1>5, <2>1, <2>2, <3>3, <3>5 DEF HoldsItsLease, Leased
    <3>7. QED
      BY <1>3, <2>1, <2>2, <2>3, <3>2, <3>4, <3>6
  <2>6. CASE packet[m].kind = "request" /\ answer = "nak" /\ given = 0
             /\ Refuses(m, packet[m].ip)
    <3>1. leases' = leases /\ unwritten' = unwritten
      BY <1>7, <2>6 DEF Refuses
    <3>2. AsksForItsAddress(m)' /\ (m \notin unwritten' => HoldsItsLease(m)')
      BY <1>1, <1>4, <2>1, <2>2, <2>6, <3>1 DEF AsksForItsAddress, HoldsItsLease, Leased
    <3>3. QED
      BY <1>1, <1>3, <2>1, <2>2, <2>3, <3>1, <3>2
  <2>7. QED
    BY <1>7, <2>4, <2>5, <2>6 DEF Answers
<1>8. QED
  BY <1>6, <1>7 DEF Receive

\* What leaves the machines, the packets and the table alone.
LEMMA ServiceInv ==
  ASSUME ExchangeInv, SaveLeases \/ Start \/ Stop
  PROVE  ExchangeInv'
<1>1. leases' = leases /\ machine' = machine /\ packet' = packet /\ unwritten' = unwritten
  BY DEF SaveLeases, Save, SaveFails, Start, StartService, Stop, StopService
<1>2. /\ saved' \in {leases, saved} /\ pool' \in Pools \cup {{}}
      /\ saving' \in BOOLEAN
  BY DEF SaveLeases, Save, SaveFails, Start, StartService, Stop, StopService,
         ExchangeInv, ExchangeTypeOK, LeasesTypeOK
<1>3. ExchangeTypeOK'
  BY <1>1, <1>2 DEF ExchangeInv, ExchangeTypeOK, LeasesTypeOK
<1>4. DistinctAddresses(leases)' /\ DistinctAddresses(saved)'
  BY <1>1, <1>2 DEF ExchangeInv, DistinctAddresses
<1>5. QED
  BY <1>1, <1>3, <1>4 DEF ExchangeInv, AsksForItsAddress, HoldsItsLease, Leased

\* A restart changes only leases that were not in the file.
LEMMA CrashInv ==
  ASSUME ExchangeInv, Crash
  PROVE  ExchangeInv'
<1>1. /\ leases' = saved /\ saved' = saved /\ pool' = {} /\ saving' = FALSE
      /\ machine' = machine /\ packet' = packet
      /\ unwritten' = unwritten \cup {m \in Machine : leases[m] # saved[m]}
  BY DEF Crash, Restart
<1>2. ExchangeTypeOK'
  BY <1>1 DEF ExchangeInv, ExchangeTypeOK, LeasesTypeOK
<1>3. DistinctAddresses(leases)' /\ DistinctAddresses(saved)'
  BY <1>1 DEF ExchangeInv, DistinctAddresses
<1>4. \A m \in Machine : m \notin unwritten' => m \notin unwritten /\ leases'[m] = leases[m]
  BY <1>1
<1>5. \A m \in Machine : AsksForItsAddress(m)' /\ (m \notin unwritten' => HoldsItsLease(m)')
  BY <1>1, <1>4 DEF ExchangeInv, AsksForItsAddress, HoldsItsLease, Leased
<1>6. QED
  BY <1>2, <1>3, <1>5 DEF ExchangeInv

\* Time takes a tick from the leases and from what the machines believe, and an
\* acknowledgement on its way grows as old.
LEMMA TimeInv ==
  ASSUME ExchangeInv, TimePasses
  PROVE  ExchangeInv'
<1> USE LeasesAssumption
<1>1. /\ leases \in [Machine -> Lease \cup {NoLease}] /\ DistinctAddresses(leases)
      /\ saved \in [Machine -> Lease \cup {NoLease}] /\ DistinctAddresses(saved)
      /\ leases' = [m \in Machine |-> Aged(leases[m])]
      /\ saved' = [m \in Machine |-> Aged(saved[m])]
      /\ pool' = pool /\ saving' = saving
  BY DEF ExchangeInv, ExchangeTypeOK, LeasesTypeOK, TimePasses, Tick
<1>2. /\ leases' \in [Machine -> Lease \cup {NoLease}] /\ DistinctAddresses(leases')
      /\ saved' \in [Machine -> Lease \cup {NoLease}] /\ DistinctAddresses(saved')
  BY <1>1, AgedTable
<1>3. ASSUME NEW m \in Machine
      PROVE  /\ machine'[m] \in [phase : {"selecting", "requesting", "bound"},
                                 ip : Address \cup {0}, left : 0..LeaseLength]
             /\ packet'[m] \in [kind : {"none"} \cup ClientMessage \cup ServerMessage,
                                ip : Address \cup {0}, age : 0..LeaseLength]
             /\ AsksForItsAddress(m)'
             /\ m \notin unwritten' => HoldsItsLease(m)'
  <2>1. /\ machine[m] \in [phase : {"selecting", "requesting", "bound"},
                           ip : Address \cup {0}, left : 0..LeaseLength]
        /\ packet[m] \in [kind : {"none"} \cup ClientMessage \cup ServerMessage,
                          ip : Address \cup {0}, age : 0..LeaseLength]
        /\ leases[m] \in Lease \cup {NoLease}
        /\ AsksForItsAddress(m)
        /\ m \notin unwritten => HoldsItsLease(m)
    BY <1>1 DEF ExchangeInv, ExchangeTypeOK
  <2>2. CASE Ends(m)
    <3>1. machine'[m] = Unaddressed /\ packet'[m] = NoPacket
      BY <2>2 DEF TimePasses
    <3>2. QED
      BY <3>1 DEF Unaddressed, NoPacket, AsksForItsAddress, HoldsItsLease
  <2>3. CASE ~Ends(m)
    <3>1. /\ machine'[m] = IF machine[m].phase = "bound"
                           THEN [machine[m] EXCEPT !.left = machine[m].left - 1]
                           ELSE machine[m]
          /\ packet'[m] = IF packet[m].kind \in {"request", "ack"}
                          THEN [packet[m] EXCEPT !.age = Older(packet[m].age)]
                          ELSE packet[m]
          /\ m \in unwritten' <=> m \in unwritten
      BY <2>3 DEF TimePasses
    <3>2. machine[m].phase = "bound" => machine[m].left > 1
      BY <2>1, <2>3 DEF AsksForItsAddress, Ends
    <3>3. /\ machine'[m] \in [phase : {"selecting", "requesting", "bound"},
                              ip : Address \cup {0}, left : 0..LeaseLength]
          /\ machine'[m].phase = machine[m].phase /\ machine'[m].ip = machine[m].ip
          /\ machine[m].phase = "bound" => machine'[m].left = machine[m].left - 1
      BY <2>1, <3>1, <3>2
    <3>4. Older(packet[m].age) \in 0..LeaseLength
      BY <2>1 DEF Older
    <3>5. /\ packet'[m] \in [kind : {"none"} \cup ClientMessage \cup ServerMessage,
                             ip : Address \cup {0}, age : 0..LeaseLength]
          /\ packet'[m].kind = packet[m].kind /\ packet'[m].ip = packet[m].ip
          /\ packet[m].kind = "ack" => packet'[m].age = Older(packet[m].age)
      BY <2>1, <3>1, <3>4
    <3>6. AsksForItsAddress(m)'
      BY <2>1, <3>2, <3>3, <3>5 DEF AsksForItsAddress
    <3>7. leases'[m] = Aged(leases[m])
      BY <1>1
    <3>8. /\ leases[m].left \in 0..LeaseLength
          /\ leases[m].left > 1 =>
               leases'[m].ip = leases[m].ip /\ leases'[m].left = leases[m].left - 1
      BY <2>1, <3>7, AgedLease DEF Lease, NoLease
    <3>9. ASSUME HoldsItsLease(m) PROVE HoldsItsLease(m)'
      <4>1. machine[m].phase = "bound" => Leased(m, machine[m].ip, machine[m].left)'
        BY <2>1, <3>2, <3>3, <3>8, <3>9 DEF HoldsItsLease, Leased
      <4>2. ASSUME packet'[m].kind = "ack", packet'[m].age < LeaseLength
            PROVE  Leased(m, packet[m].ip, LeaseLength - packet[m].age)'
        <5>1. packet'[m].age = packet[m].age + 1
          BY <2>1, <3>5, <4>2 DEF Older
        <5>2. Leased(m, packet[m].ip, LeaseLength - packet[m].age)
          BY <2>1, <3>5, <3>9, <4>2, <5>1 DEF HoldsItsLease
        <5>3. leases[m].left > 1
          BY <2>1, <3>8, <4>2, <5>1, <5>2 DEF Leased
        <5>4. QED
          BY <2>1, <3>5, <3>8, <5>1, <5>2, <5>3 DEF Leased
      <4>3. QED
        BY <3>3, <4>1, <4>2 DEF HoldsItsLease
    <3>10. QED
      BY <2>1, <3>1, <3>3, <3>5, <3>6, <3>9
  <2>4. QED
    BY <2>2, <2>3
<1>4. ExchangeTypeOK'
  <2>1. /\ machine' = [m \in Machine |-> machine'[m]] /\ packet' = [m \in Machine |-> packet'[m]]
        /\ unwritten' \subseteq unwritten
    BY DEF TimePasses
  <2>2. QED
    BY <1>1, <1>2, <1>3, <2>1 DEF ExchangeInv, ExchangeTypeOK, LeasesTypeOK
<1>5. QED
  BY <1>2, <1>3, <1>4 DEF ExchangeInv, DistinctAddresses

------------------------------------------------------------------------------
(* The theorems. *)

LEMMA NextInv ==
  ASSUME ExchangeInv, [ExchangeNext]_exchangeVars
  PROVE  ExchangeInv'
<1>1. CASE UNCHANGED exchangeVars
  BY <1>1 DEF exchangeVars, ExchangeInv, ExchangeTypeOK, LeasesTypeOK, DistinctAddresses,
              AsksForItsAddress, HoldsItsLease, Leased
<1>2. CASE \E m \in Machine : MachineStep(m) \/ PowerOff(m) \/ Decline(m)
  BY <1>2, MachinesKeepInv
<1>3. CASE \E m \in Machine : LosePacket(m) \/ Renew(m)
  BY <1>3, PacketStepInv
<1>4. CASE \E m \in Machine : Receive(m)
  BY <1>4, AnswerInv
<1>5. CASE SaveLeases \/ Start \/ Stop
  BY <1>5, ServiceInv
<1>6. CASE Crash
  BY <1>6, CrashInv
<1>7. CASE TimePasses
  BY <1>7, TimeInv
<1>8. QED
  BY <1>1, <1>2, <1>3, <1>4, <1>5, <1>6, <1>7 DEF ExchangeNext, Disturbance

\* The invariant behind the others: addresses are leased once, in memory and in
\* the file, and what a machine believes of its lease is in the table unless a
\* restart forgot it.
THEOREM ExchangeInvariant == ExchangeSpec => []ExchangeInv
<1>1. QED
  BY ExchangeInitInv, NextInv, PTL DEF ExchangeSpec

\* The lease table, the file, the packets and the machines keep their types.
THEOREM ExchangeTypes == ExchangeSpec => []ExchangeTypeOK
<1>1. ExchangeInv => ExchangeTypeOK
  BY DEF ExchangeInv
<1>2. QED
  BY <1>1, ExchangeInvariant, PTL

\* allocate_lease and assign_requested_lease never give an address to a second
\* machine while the first may use it, except one whose lease a restart forgot.
THEOREM OneUserPerAddress == ExchangeSpec => []AddressHasOneUser
<1>1. ExchangeInv => AddressHasOneUser
  <2> SUFFICES ASSUME ExchangeInv, NEW m \in Machine, NEW k \in Machine,
                      NEW ip \in Address, Uses(m, ip), Uses(k, ip),
                      m \notin unwritten, k \notin unwritten
               PROVE  m = k
    BY DEF AddressHasOneUser
  <2>1. leases[m].ip = ip /\ leases[k].ip = ip /\ ip # 0
    BY LeasesAssumption DEF ExchangeInv, HoldsItsLease, Leased, Uses
  <2>2. QED
    BY <2>1 DEF ExchangeInv, DistinctAddresses
<1>2. QED
  BY <1>1, ExchangeInvariant, PTL

------------------------------------------------------------------------------
(* TftpTransfer: division. *)

LEMMA Division ==
  ASSUME NEW n \in Nat, NEW b \in Nat \ {0}, NEW q, NEW r, q = n \div b, r = n % b
  PROVE  q \in Nat /\ r \in 0..(b - 1) /\ n = b * q + r
  OBVIOUS

LEMMA Multiples ==
  ASSUME NEW b \in Nat, NEW x \in Nat, NEW y \in Nat, x < y
  PROVE  b * x + b <= b * y
<1>1. y = x + 1 + (y - x - 1) /\ y - x - 1 \in Nat
  OBVIOUS
<1>2. ASSUME NEW z \in Nat, y = x + 1 + z PROVE b * x + b <= b * y
  <2>1. b * y = b * x + b + b * z /\ b * z \in Nat
    BY <1>2
  <2> QED
    BY <2>1
<1> QED
  BY <1>1, <1>2

\* The quotient is the only number of whole blocks that fit.
LEMMA QuotientIsUnique ==
  ASSUME NEW n \in Nat, NEW b \in Nat \ {0}, NEW q \in Nat,
         b * q <= n, n < b * q + b
  PROVE  n \div b = q
<1>1. PICK p, r : p = n \div b /\ r = n % b
  OBVIOUS
<1>2. p \in Nat /\ r \in 0..(b - 1) /\ n = b * p + r
  BY <1>1
<1>3. ~(p < q) /\ ~(q < p)
  BY <1>2, Multiples
<1> QED
  BY <1>1, <1>2, <1>3

\* Two numbers less than a round apart are told apart by what is left of them.
LEMMA RoundIsEnough ==
  ASSUME NEW a \in Nat, NEW c \in Nat, NEW m \in Nat \ {0},
         a % m = c % m, c <= a, a - c < m
  PROVE  a = c
<1>1. PICK p, q, r : p = a \div m /\ q = c \div m /\ r = a % m
  OBVIOUS
<1>2. p \in Nat /\ q \in Nat /\ r \in Nat /\ a = m * p + r /\ c = m * q + r
  BY <1>1
<1>3. ~(p < q) /\ ~(q < p)
  BY <1>2, Multiples
<1> QED
  BY <1>2, <1>3

\* The packets of a file: its whole blocks and one short one, perhaps empty.
LEMMA PacketsOfFile ==
  ASSUME size \in FileSize
  PROVE  LastPacket \in Nat \ {0} /\ LastPacket = size \div BlockSize + 1
<1>1. size \in Nat /\ BlockSize \in Nat \ {0}
  BY TftpAssumption
<1>2. PICK q, r : q = size \div BlockSize /\ r = size % BlockSize
  OBVIOUS
<1>3. q \in Nat /\ r \in 0..(BlockSize - 1) /\ size = BlockSize * q + r
  BY <1>1, <1>2
<1>4. CASE r = 0
  <2>1. DataPackets = q
    BY <1>1, <1>3, <1>4, QuotientIsUnique DEF DataPackets
  <2> QED
    BY <1>1, <1>2, <1>3, <1>4, <2>1 DEF LastPacket
<1>5. CASE r # 0
  <2>1. BlockSize * (q + 1) = BlockSize * q + BlockSize
    BY <1>1, <1>3
  <2>2. DataPackets = q + 1
    BY <1>1, <1>3, <1>5, <2>1, QuotientIsUnique DEF DataPackets
  <2> QED
    BY <1>1, <1>2, <1>3, <1>5, <2>2 DEF LastPacket
<1> QED
  BY <1>4, <1>5

------------------------------------------------------------------------------
(* What the network holds. *)

Packets(bags, t) == BagToSet(bags[t])

LEMMA AddedPackets ==
  ASSUME NEW bags, bags = [t \in Transfer |-> bags[t]], NEW t \in Transfer, NEW d,
         NEW u \in Transfer
  PROVE  /\ Added(bags, t, d) = [v \in Transfer |-> Added(bags, t, d)[v]]
         /\ Packets(Added(bags, t, d), u)
              \subseteq Packets(bags, u) \cup (IF u = t THEN {d} ELSE {})
<1>1. BagToSet(bags[t] (+) SetToBag({d})) \subseteq BagToSet(bags[t]) \cup {d}
  BY DEF BagToSet, (+), SetToBag
<1> QED
  BY <1>1 DEF Added, Packets

LEMMA RemovedPackets ==
  ASSUME NEW bags, bags = [t \in Transfer |-> bags[t]], NEW t \in Transfer, NEW d,
         NEW u \in Transfer
  PROVE  /\ Removed(bags, t, d) = [v \in Transfer |-> Removed(bags, t, d)[v]]
         /\ Packets(Removed(bags, t, d), u) \subseteq Packets(bags, u)
<1>1. BagToSet(bags[t] (-) SetToBag({d})) \subseteq BagToSet(bags[t])
  BY DEF BagToSet, (-), SetToBag
<1> QED
  BY <1>1 DEF Removed, Packets

------------------------------------------------------------------------------
(* The invariant. *)

Task == [phase : Phase, packet : Nat, tries : Nat, waiting : BOOLEAN, met : {"answers", "silence"}]

TftpTypes ==
  /\ size \in FileSize
  /\ server \in [Transfer -> Task]
  /\ toClient = [t \in Transfer |-> toClient[t]]
  /\ toServer = [t \in Transfer |-> toServer[t]]
  /\ received \in [Transfer -> Seq(Nat)]

\* A task that has not begun to serve sends nothing.
OnlyServingSends(t) ==
  server[t].phase \in {"none", "refused"} => Packets(toClient, t) = {}

\* The task is at the machine's last packet or one ahead, the datagrams on their
\* way are of what was sent and received so far, and the machine has its packets
\* in order.
InStep(t) ==
  /\ Len(received[t]) <= server[t].packet
  /\ server[t].packet <= Len(received[t]) + 1
  /\ server[t].packet <= LastPacket
  /\ Packets(toClient, t) \subseteq 0..server[t].packet
  /\ Packets(toServer, t) \subseteq (0..Len(received[t])) \cup {Refusal}
  /\ server[t].phase = "none" => server[t].packet = 0
  /\ server[t].phase = "sent" => Len(received[t]) = LastPacket
  /\ OnlyServingSends(t)

TftpInv == TftpTypes /\ \A t \in Transfer : InStep(t)

\* A datagram that ends the wait for a packet answers this packet: the machine
\* has it.
LEMMA AnswersTheLast ==
  ASSUME TftpInv, NEW t \in Transfer, NEW d \in Heard(t), Acknowledges(t, d)
  PROVE  d = server[t].packet /\ Len(received[t]) = server[t].packet
<1>1. /\ server[t].packet \in Nat /\ Len(received[t]) \in Nat
      /\ Modulus \in Nat \ {0}
  BY TftpAssumption DEF TftpInv, TftpTypes, Task
<1>2. d \in 0..Len(received[t])
  BY DEF Heard, Packets, Acknowledges, TftpInv, InStep
<1>3. /\ server[t].packet % Modulus = d % Modulus
      /\ server[t].packet - d < Modulus
      /\ Len(received[t]) <= server[t].packet
  BY DEF Heard, Acknowledges, Number, TftpInv, InStep
<1>4. d = server[t].packet
  BY <1>1, <1>2, <1>3, RoundIsEnough
<1> QED
  BY <1>1, <1>2, <1>3, <1>4

\* A datagram that the machine takes for the packet it expects is this packet.
LEMMA ExpectedIsNext ==
  ASSUME TftpInv, NEW t \in Transfer, NEW d \in Arriving(t)
  PROVE  LET last == Len(received[t])
         IN  /\ last \in Nat /\ d \in 0..(last + 1) /\ d <= server[t].packet
             /\ Number(d) = Number(last + 1) => d = last + 1
             /\ Number(d) = Number(last) => d \in 0..last
<1> DEFINE last == Len(received[t])
<1>1. /\ server[t].packet \in Nat /\ last \in Nat
      /\ Modulus \in Nat \ {0} /\ 1 < Modulus
  BY TftpAssumption DEF TftpInv, TftpTypes, Task
<1>2. /\ d \in 0..server[t].packet /\ server[t].packet <= last + 1
      /\ last + 1 - d < Modulus
  BY DEF Arriving, Packets, TftpInv, InStep
<1> HIDE DEF last
<1>0. PICK next : next = last + 1
  OBVIOUS
<1>3. Number(d) = Number(next) => d = next
  <2>1. next \in Nat /\ d \in Nat /\ d <= next /\ next - d < Modulus
    BY <1>0, <1>1, <1>2
  <2> QED
    BY <1>1, <2>1, RoundIsEnough DEF Number
<1>4. Number(next) # Number(last)
  <2>1. next \in Nat /\ last <= next /\ next - last < Modulus /\ next # last
    BY <1>0, <1>1
  <2> QED
    BY <1>1, <2>1, RoundIsEnough DEF Number
<1>5. d \in 0..(last + 1) /\ d <= server[t].packet
  BY <1>1, <1>2
<1> QED
  BY <1>0, <1>1, <1>3, <1>4, <1>5 DEF last

LEMMA TftpInitInv == TftpInit => TftpInv
<1> SUFFICES ASSUME TftpInit PROVE TftpInv
  OBVIOUS
<1>1. Idle \in Task
  BY DEF Idle, Task, Phase
<1>2. TftpTypes
  BY <1>1 DEF TftpInit, TftpTypes
<1>3. LastPacket \in Nat \ {0}
  BY <1>2, PacketsOfFile DEF TftpTypes
<1>4. BagToSet(EmptyBag) = {}
  BY DEF BagToSet, EmptyBag, SetToBag
<1>5. ASSUME NEW t \in Transfer PROVE InStep(t)
  BY <1>3, <1>4 DEF TftpInit, InStep, Idle, Packets, OnlyServingSends
<1> QED
  BY <1>2, <1>5 DEF TftpInv

LEMMA SameFile ==
  ASSUME UNCHANGED fileVars
  PROVE  size' = size /\ LastPacket' = LastPacket
  BY DEF fileVars, LastPacket, DataPackets

\* Only the task of t changes.
OnlyTask(t) ==
  /\ server' \in [Transfer -> Task]
  /\ \A u \in Transfer \ {t} : server'[u] = server[u]

\* The datagrams of every socket are among those it had.
NoNewAnswers ==
  /\ toServer' = [u \in Transfer |-> toServer'[u]]
  /\ \A u \in Transfer : Packets(toServer', u) \subseteq Packets(toServer, u)

\* So are the packets of every transfer, except that t may send its own.
OnlySends(t) ==
  /\ toClient' = [u \in Transfer |-> toClient'[u]]
  /\ \A u \in Transfer :
       Packets(toClient', u) \subseteq
         Packets(toClient, u) \cup (IF u = t THEN {server[t].packet} ELSE {})

LEMMA TaskMoves ==
  ASSUME TftpInv, NEW t \in Transfer, UNCHANGED <<fileVars, received>>,
         OnlyTask(t), OnlySends(t), NoNewAnswers,
         server'[t].packet >= server[t].packet,
         Len(received[t]) <= server'[t].packet,
         server'[t].packet <= Len(received[t]) + 1,
         server'[t].packet <= LastPacket,
         server'[t].phase = "none" => server'[t].packet = 0,
         server'[t].phase = "sent" => Len(received[t]) = LastPacket,
         OnlyServingSends(t)'
  PROVE  TftpInv'
<1>1. TftpTypes'
  BY DEF TftpInv, TftpTypes, fileVars, OnlyTask, OnlySends, NoNewAnswers
<1>2. ASSUME NEW u \in Transfer PROVE InStep(u)'
  <2>1. /\ server[u].packet \in Nat /\ server'[u].packet \in Nat
        /\ server[u].packet <= server'[u].packet
        /\ u # t => server'[u] = server[u]
        /\ received'[u] = received[u] /\ LastPacket' = LastPacket
    BY SameFile DEF TftpInv, TftpTypes, Task, OnlyTask
  <2>2. /\ Packets(toClient', u) \subseteq 0..server'[u].packet
        /\ Packets(toServer', u) \subseteq (0..Len(received[u])) \cup {Refusal}
    BY <2>1 DEF TftpInv, InStep, OnlySends, NoNewAnswers
  <2>3. /\ Packets(toClient, u)' = Packets(toClient', u)
        /\ Packets(toServer, u)' = Packets(toServer', u)
    BY DEF Packets
  <2>4. OnlyServingSends(u)'
    <3>1. CASE u # t
      BY <2>1, <2>3, <3>1 DEF TftpInv, InStep, OnlySends, OnlyServingSends
    <3> QED
      BY <3>1
  <2> QED
    BY <2>1, <2>2, <2>3, <2>4 DEF InStep, TftpInv
<1> QED
  BY <1>1, <1>2 DEF TftpInv

LEMMA EmptiedPackets ==
  ASSUME NEW t \in Transfer, toServer = [u \in Transfer |-> toServer[u]],
         toServer' = Closed(t)
  PROVE  NoNewAnswers
  BY DEF NoNewAnswers, Closed, Packets, BagToSet, EmptyBag, SetToBag

LEMMA HeardPackets ==
  ASSUME NEW t \in Transfer, NEW d, toServer = [u \in Transfer |-> toServer[u]],
         toServer' = Removed(toServer, t, d)
  PROVE  NoNewAnswers
<1> DEFINE rest == Removed(toServer, t, d)
<1>1. rest = [v \in Transfer |-> rest[v]]
  BY RemovedPackets
<1>2. \A u \in Transfer : Packets(rest, u) \subseteq Packets(toServer, u)
  BY RemovedPackets
<1>3. toServer' = rest
  OBVIOUS
<1> HIDE DEF rest
<1> QED
  BY <1>1, <1>2, <1>3 DEF NoNewAnswers

LEMMA NothingSent ==
  ASSUME TftpInv, NEW t \in Transfer, UNCHANGED toClient
  PROVE  OnlySends(t)
  BY DEF OnlySends, TftpInv, TftpTypes

LEMMA RequestKeepsInv ==
  ASSUME TftpInv, NEW t \in Transfer, Request(t)
  PROVE  TftpInv'
<1>1. /\ server \in [Transfer -> Task] /\ server[t].packet = 0
      /\ Len(received[t]) = 0 /\ LastPacket \in Nat \ {0}
  BY PacketsOfFile DEF Request, TftpInv, TftpTypes, InStep, Task
<1>2. /\ OnlyTask(t) /\ server'[t].phase \in {"serving", "refused", "failed"}
      /\ server'[t].packet \in {0, 1}
  <2>1. CASE server' = [server EXCEPT ![t].phase = "serving",
                                      ![t].packet = IF options THEN 0 ELSE 1]
    <3>1. CASE options
      <4>1. server' = [server EXCEPT ![t].phase = "serving", ![t].packet = 0]
        BY <2>1, <3>1
      <4> QED
        BY <1>1, <4>1 DEF OnlyTask, Task, Phase
    <3>2. CASE ~options
      <4>1. server' = [server EXCEPT ![t].phase = "serving", ![t].packet = 1]
        BY <2>1, <3>2
      <4> QED
        BY <1>1, <4>1 DEF OnlyTask, Task, Phase
    <3> QED
      BY <3>1, <3>2
  <2>2. CASE server' = [server EXCEPT ![t].phase = "refused"]
    BY <1>1, <2>2 DEF OnlyTask, Task, Phase
  <2>3. CASE server' = [server EXCEPT ![t].phase = "failed"]
    BY <1>1, <2>3 DEF OnlyTask, Task, Phase
  <2> QED
    BY <2>1, <2>2, <2>3 DEF Request
<1>3. UNCHANGED <<fileVars, received>> /\ OnlySends(t) /\ NoNewAnswers
  BY NothingSent DEF Request, NoNewAnswers, TftpInv, TftpTypes
<1>4. OnlyServingSends(t)'
  BY DEF Request, TftpInv, InStep, OnlyServingSends, Packets
<1> QED
  BY <1>1, <1>2, <1>3, <1>4, TaskMoves

LEMMA SendKeepsInv ==
  ASSUME TftpInv, NEW t \in Transfer, Send(t)
  PROVE  TftpInv'
<1>1. server \in [Transfer -> Task] /\ server[t].packet \in Nat /\ InStep(t)
  BY DEF TftpInv, TftpTypes, Task
<1>2. /\ OnlyTask(t) /\ server'[t].phase = server[t].phase
      /\ server'[t].packet = server[t].packet
  BY <1>1 DEF OnlyTask, Send, Task, CountedTry
<1>3. OnlySends(t)
  <2> DEFINE more == Added(toClient, t, server[t].packet)
  <2>1. toClient = [v \in Transfer |-> toClient[v]] /\ toClient' = more
    BY DEF Send, TftpInv, TftpTypes
  <2>2. more = [v \in Transfer |-> more[v]]
    BY <2>1, AddedPackets
  <2>3. \A u \in Transfer :
          Packets(more, u) \subseteq
            Packets(toClient, u) \cup (IF u = t THEN {server[t].packet} ELSE {})
    BY <2>1, AddedPackets
  <2> HIDE DEF more
  <2> QED
    BY <2>1, <2>2, <2>3 DEF OnlySends
<1>4. UNCHANGED <<fileVars, received>> /\ NoNewAnswers
  BY DEF Send, NoNewAnswers, TftpInv, TftpTypes
<1>5. OnlyServingSends(t)'
  BY <1>2 DEF Send, Serving, OnlyServingSends
<1> QED
  BY <1>1, <1>2, <1>3, <1>4, <1>5, TaskMoves DEF InStep

\* A try ends without its answer, or the task gives up or fails.
LEMMA RestKeepsInv ==
  ASSUME TftpInv, NEW t \in Transfer, OnlyTask(t), NoNewAnswers,
         server'[t].packet = server[t].packet,
         server'[t].phase \in {server[t].phase, "abandoned", "failed"},
         UNCHANGED <<fileVars, received, toClient>>
  PROVE  TftpInv'
<1>1. InStep(t) /\ OnlySends(t) /\ server[t].packet \in Nat
  BY NothingSent DEF TftpInv, TftpTypes, Task
<1>2. OnlyServingSends(t)'
  BY <1>1 DEF InStep, OnlyServingSends, Packets
<1> QED
  BY <1>1, <1>2, TaskMoves DEF InStep

LEMMA HearKeepsInv ==
  ASSUME TftpInv, NEW t \in Transfer, Hear(t)
  PROVE  TftpInv'
<1>1. /\ server \in [Transfer -> Task] /\ InStep(t) /\ server[t].packet \in Nat
      /\ toServer = [u \in Transfer |-> toServer[u]]
      /\ LastPacket \in Nat
  BY PacketsOfFile DEF TftpInv, TftpTypes, Task
<1>2. PICK d \in Heard(t) :
        /\ toServer' = IF Acknowledges(t, d) /\ server[t].packet = LastPacket
                       THEN Closed(t) ELSE Removed(toServer, t, d)
        /\ IF Acknowledges(t, d) THEN Advance(t)
           ELSE server' = [server EXCEPT ![t].waiting = FALSE,
                    ![t].met = IF d = Refusal THEN "silence" ELSE @]
  BY DEF Hear
<1>3. /\ UNCHANGED <<fileVars, toClient, received>> /\ OnlySends(t)
      /\ server[t].phase = "serving"
  BY NothingSent DEF Hear, Serving
<1>4. NoNewAnswers
  BY <1>1, <1>2, EmptiedPackets, HeardPackets
<1>5. CASE ~Acknowledges(t, d)
  <2>1. /\ OnlyTask(t) /\ server'[t].packet = server[t].packet
        /\ server'[t].phase = server[t].phase
    <3>1. CASE d = Refusal
      <4>1. server' = [server EXCEPT ![t].waiting = FALSE, ![t].met = "silence"]
        BY <1>2, <1>5, <3>1
      <4> QED
        BY <1>1, <4>1 DEF OnlyTask, Task
    <3>2. CASE d # Refusal
      <4>1. server' = [server EXCEPT ![t].waiting = FALSE, ![t].met = @]
        BY <1>2, <1>5, <3>2
      <4> QED
        BY <1>1, <4>1 DEF OnlyTask, Task
    <3> QED
      BY <3>1, <3>2
  <2> QED
    BY <1>3, <1>4, <2>1, RestKeepsInv
<1>6. CASE Acknowledges(t, d) /\ server[t].packet < LastPacket
  <2>1. /\ OnlyTask(t) /\ server'[t].packet = server[t].packet + 1
        /\ server'[t].phase = server[t].phase
    BY <1>1, <1>2, <1>6 DEF OnlyTask, Task, Advance
  <2>2. Len(received[t]) = server[t].packet
    BY <1>6, AnswersTheLast
  <2>3. OnlyServingSends(t)'
    BY <1>3, <2>1 DEF OnlyServingSends
  <2> QED
    BY <1>1, <1>3, <1>4, <1>6, <2>1, <2>2, <2>3, TaskMoves
<1>7. CASE Acknowledges(t, d) /\ ~(server[t].packet < LastPacket)
  <2>1. /\ OnlyTask(t) /\ server'[t].packet = server[t].packet
        /\ server'[t].phase = "sent"
    BY <1>1, <1>2, <1>7 DEF OnlyTask, Task, Phase, Advance
  <2>2. Len(received[t]) = server[t].packet /\ server[t].packet = LastPacket
    BY <1>1, <1>7, AnswersTheLast DEF InStep
  <2>3. OnlyServingSends(t)'
    BY <2>1 DEF OnlyServingSends
  <2> QED
    BY <1>1, <1>3, <1>4, <2>1, <2>2, <2>3, TaskMoves
<1> QED
  BY <1>5, <1>6, <1>7

LEMMA WaitKeepsInv ==
  ASSUME TftpInv, NEW t \in Transfer, Wait(t)
  PROVE  TftpInv'
<1>1. server \in [Transfer -> Task] /\ toServer = [u \in Transfer |-> toServer[u]]
  BY DEF TftpInv, TftpTypes
<1>2. /\ OnlyTask(t) /\ server'[t].packet = server[t].packet
      /\ server'[t].phase = server[t].phase
  BY <1>1 DEF OnlyTask, Wait, Task
<1>3. NoNewAnswers /\ UNCHANGED <<fileVars, received, toClient>>
  BY <1>1 DEF Wait, NoNewAnswers
<1> QED
  BY <1>2, <1>3, RestKeepsInv

LEMMA GiveUpKeepsInv ==
  ASSUME TftpInv, NEW t \in Transfer, GiveUp(t)
  PROVE  TftpInv'
<1>1. server \in [Transfer -> Task] /\ toServer = [u \in Transfer |-> toServer[u]]
  BY DEF TftpInv, TftpTypes
<1>2. /\ OnlyTask(t) /\ server'[t].packet = server[t].packet
      /\ server'[t].phase = "abandoned"
  BY <1>1 DEF OnlyTask, GiveUp, Task, Phase
<1>3. NoNewAnswers /\ UNCHANGED <<fileVars, received, toClient>>
  BY <1>1, EmptiedPackets DEF GiveUp
<1> QED
  BY <1>2, <1>3, RestKeepsInv

LEMMA FailKeepsInv ==
  ASSUME TftpInv, NEW t \in Transfer, Fail(t)
  PROVE  TftpInv'
<1>1. server \in [Transfer -> Task] /\ toServer = [u \in Transfer |-> toServer[u]]
  BY DEF TftpInv, TftpTypes
<1>2. /\ OnlyTask(t) /\ server'[t].packet = server[t].packet
      /\ server'[t].phase = "failed"
  BY <1>1 DEF OnlyTask, Fail, Task, Phase
<1>3. NoNewAnswers /\ UNCHANGED <<fileVars, received, toClient>>
  BY <1>1, EmptiedPackets DEF Fail
<1> QED
  BY <1>2, <1>3, RestKeepsInv

\* The packets of every transfer are among those it had.
NoNewPackets ==
  /\ toClient' = [u \in Transfer |-> toClient'[u]]
  /\ \A u \in Transfer : Packets(toClient', u) \subseteq Packets(toClient, u)

\* Only the machine's part of t changes: it may take its next packet and answers
\* a packet that it has.
OnlyMachine(t) ==
  /\ received' \in [Transfer -> Seq(Nat)]
  /\ \A u \in Transfer \ {t} : received'[u] = received[u]
  /\ Len(received[t]) <= Len(received'[t])
  /\ Len(received'[t]) <= server[t].packet

OnlyAnswers(t) ==
  /\ toServer' = [u \in Transfer |-> toServer'[u]]
  /\ \A u \in Transfer :
       Packets(toServer', u) \subseteq
         Packets(toServer, u)
           \cup (IF u = t THEN (0..Len(received'[t])) \cup {Refusal} ELSE {})

LEMMA MachineMoves ==
  ASSUME TftpInv, NEW t \in Transfer, UNCHANGED <<fileVars, server>>,
         NoNewPackets, OnlyMachine(t), OnlyAnswers(t)
  PROVE  TftpInv'
<1>1. TftpTypes'
  BY DEF TftpInv, TftpTypes, fileVars, NoNewPackets, OnlyMachine, OnlyAnswers
<1>2. ASSUME NEW u \in Transfer PROVE InStep(u)'
  <2>1. /\ server'[u] = server[u] /\ server[u].packet \in Nat
        /\ Len(received[u]) \in Nat /\ Len(received'[u]) \in Nat
        /\ u # t => received'[u] = received[u]
        /\ LastPacket' = LastPacket /\ LastPacket \in Nat
    BY SameFile, PacketsOfFile DEF TftpInv, TftpTypes, Task, OnlyMachine
  <2>2. /\ Len(received[u]) <= Len(received'[u])
        /\ Len(received'[u]) <= server[u].packet
    BY <2>1 DEF OnlyMachine, TftpInv, InStep
  <2>3. /\ Packets(toClient', u) \subseteq 0..server[u].packet
        /\ Packets(toServer', u) \subseteq (0..Len(received'[u])) \cup {Refusal}
    BY <2>1, <2>2 DEF TftpInv, InStep, NoNewPackets, OnlyAnswers
  <2>4. /\ Packets(toClient, u)' = Packets(toClient', u)
        /\ Packets(toServer, u)' = Packets(toServer', u)
    BY DEF Packets
  <2>5. /\ server[u].packet <= Len(received[u]) + 1 /\ server[u].packet <= LastPacket
        /\ server[u].phase = "none" => server[u].packet = 0
        /\ server[u].phase = "sent" => Len(received[u]) = LastPacket
    BY DEF InStep, TftpInv
  <2>6. /\ server[u].packet <= Len(received'[u]) + 1
        /\ server[u].phase = "sent" => Len(received'[u]) = LastPacket
    BY <2>1, <2>2, <2>5
  <2>7. OnlyServingSends(u)'
    BY <2>1, <2>4 DEF TftpInv, InStep, NoNewPackets, OnlyServingSends
  <2> QED
    BY <2>1, <2>2, <2>3, <2>4, <2>5, <2>6, <2>7, Zenon DEF InStep
<1> QED
  BY <1>1, <1>2 DEF TftpInv

LEMMA TakenPackets ==
  ASSUME TftpInv, NEW t \in Transfer, NEW d, toClient' = Removed(toClient, t, d)
  PROVE  NoNewPackets
<1> DEFINE rest == Removed(toClient, t, d)
<1>1. toClient = [v \in Transfer |-> toClient[v]] /\ toClient' = rest
  BY DEF TftpInv, TftpTypes
<1>2. rest = [v \in Transfer |-> rest[v]]
  BY <1>1, RemovedPackets
<1>3. \A u \in Transfer : Packets(rest, u) \subseteq Packets(toClient, u)
  BY <1>1, RemovedPackets
<1> HIDE DEF rest
<1> QED
  BY <1>1, <1>2, <1>3 DEF NoNewPackets

LEMMA AnsweredPackets ==
  ASSUME TftpInv, NEW t \in Transfer, NEW d \in (0..Len(received'[t])) \cup {Refusal},
         Answer(t, d) \/ UNCHANGED toServer
  PROVE  OnlyAnswers(t)
<1>1. toServer = [v \in Transfer |-> toServer[v]]
  BY DEF TftpInv, TftpTypes
<1>2. CASE UNCHANGED toServer
  BY <1>1, <1>2 DEF OnlyAnswers
<1>3. CASE toServer' = Added(toServer, t, d)
  <2> DEFINE more == Added(toServer, t, d)
  <2>1. toServer' = more
    BY <1>3
  <2>2. more = [v \in Transfer |-> more[v]]
    BY <1>1 DEF Added
  <2>3. \A u \in Transfer :
          Packets(more, u) \subseteq
            Packets(toServer, u) \cup (IF u = t THEN {d} ELSE {})
    BY <1>1, AddedPackets
  <2> HIDE DEF more
  <2> QED
    BY <2>1, <2>2, <2>3 DEF OnlyAnswers
<1> QED
  BY <1>2, <1>3 DEF Answer

\* What the machine takes is the packet after the last it has.
LEMMA TakesTheNext ==
  ASSUME TftpInv, NEW t \in Transfer, Take(t)
  PROVE  /\ \/ UNCHANGED received
            \/ /\ Len(received[t]) + 1 <= server[t].packet
               /\ received' = [received EXCEPT ![t] = Append(@, Len(@) + 1)]
         /\ server[t].phase \notin {"none", "refused"}
         /\ NoNewPackets /\ OnlyMachine(t) /\ OnlyAnswers(t)
<1> DEFINE last == Len(received[t])
<1>1. /\ received \in [Transfer -> Seq(Nat)] /\ last \in Nat
      /\ server[t].packet \in Nat /\ last <= server[t].packet
  BY DEF TftpInv, TftpTypes, InStep, Task
<1>2. PICK d \in Arriving(t) :
        /\ toClient' = Removed(toClient, t, d)
        /\ LET joins    == chosen = 0 /\ d <= 1
               expected == d # 0 /\ Number(d) = Number(last + 1) /\ ~Finished(t)
               repeated == Number(d) = Number(last)
           IN  /\ chosen' = IF joins THEN t ELSE chosen
               /\ received' = IF (joins \/ chosen = t) /\ expected
                              THEN [received EXCEPT ![t] = Append(@, d)] ELSE received
               /\ \/ chosen' = t /\ (expected \/ repeated) /\ Answer(t, d)
                  \/ /\ chosen' # t /\ chosen' # 0
                     /\ Answer(t, Refusal) \/ UNCHANGED toServer
                  \/ UNCHANGED toServer
  BY DEF Take
<1>3. /\ d \in 0..(last + 1) /\ d <= server[t].packet
      /\ Number(d) = Number(last + 1) => d = last + 1
      /\ Number(d) = Number(last) => d \in 0..last
  BY ExpectedIsNext
<1> HIDE DEF last
<1>4. \/ UNCHANGED received
      \/ /\ d = last + 1 /\ d <= server[t].packet
         /\ received' = [received EXCEPT ![t] = Append(@, d)]
  BY <1>2, <1>3
<1>5. NoNewPackets
  BY <1>2, TakenPackets
<1>6. OnlyMachine(t) /\ Len(received'[t]) \in Nat /\ last <= Len(received'[t])
  <2>1. CASE UNCHANGED received
    BY <1>1, <2>1 DEF OnlyMachine, last
  <2>2. CASE /\ d = last + 1 /\ d <= server[t].packet
             /\ received' = [received EXCEPT ![t] = Append(@, d)]
    <3>1. /\ received' \in [Transfer -> Seq(Nat)]
          /\ received'[t] = Append(received[t], d)
          /\ \A u \in Transfer \ {t} : received'[u] = received[u]
      BY <1>1, <2>2
    <3>2. Len(received'[t]) = d
      BY <1>1, <2>2, <3>1 DEF last
    <3> QED
      BY <1>1, <2>2, <3>1, <3>2 DEF OnlyMachine, last
  <2> QED
    BY <1>4, <2>1, <2>2
<1>7. \/ d \in 0..Len(received'[t]) /\ Answer(t, d)
      \/ Answer(t, Refusal)
      \/ UNCHANGED toServer
  <2>1. CASE chosen' = t /\ Number(d) = Number(last) /\ Answer(t, d)
    BY <1>1, <1>3, <1>6, <2>1
  <2>2. CASE /\ chosen' = t /\ Answer(t, d)
             /\ d # 0 /\ Number(d) = Number(last + 1) /\ ~Finished(t)
    <3>1. t # 0
      BY TftpAssumption
    <3>2. received' = [received EXCEPT ![t] = Append(@, d)] /\ d = last + 1
      BY <1>2, <1>3, <2>2, <3>1
    <3>3. Len(received'[t]) = d
      BY <1>1, <3>2 DEF last
    <3> QED
      BY <1>1, <2>2, <3>2, <3>3
  <2> QED
    BY <1>2, <2>1, <2>2
<1>8. OnlyAnswers(t)
  BY <1>6, <1>7, AnsweredPackets
<1>9. server[t].phase \notin {"none", "refused"}
  BY DEF Arriving, Packets, TftpInv, InStep, OnlyServingSends
<1> QED
  BY <1>4, <1>5, <1>6, <1>8, <1>9 DEF last

LEMMA TakeKeepsInv ==
  ASSUME TftpInv, NEW t \in Transfer, Take(t)
  PROVE  TftpInv'
<1>1. UNCHANGED <<fileVars, server>>
  BY DEF Take
<1> QED
  BY <1>1, TakesTheNext, MachineMoves

LEMMA LoseKeepsInv ==
  ASSUME TftpInv, NEW t \in Transfer, Lose(t)
  PROVE  TftpInv'
<1>1. /\ toClient = [u \in Transfer |-> toClient[u]]
      /\ toServer = [u \in Transfer |-> toServer[u]]
      /\ server[t].packet \in Nat /\ server \in [Transfer -> Task]
  BY DEF TftpInv, TftpTypes, Task
<1>2. UNCHANGED <<fileVars, server, received>>
  BY DEF Lose
<1>3. NoNewPackets /\ NoNewAnswers
  <2>1. CASE /\ \E d \in BagToSet(toClient[t]) : toClient' = Removed(toClient, t, d)
             /\ UNCHANGED toServer
    BY <1>1, <2>1, TakenPackets DEF NoNewAnswers
  <2>2. CASE /\ \E d \in BagToSet(toServer[t]) : toServer' = Removed(toServer, t, d)
             /\ UNCHANGED toClient
    BY <1>1, <2>2, HeardPackets DEF NoNewPackets
  <2> QED
    BY <2>1, <2>2 DEF Lose
<1>4. OnlyMachine(t) /\ OnlyAnswers(t)
  BY <1>1, <1>2, <1>3 DEF OnlyMachine, OnlyAnswers, NoNewAnswers, TftpInv, TftpTypes, InStep
<1> QED
  BY <1>2, <1>3, <1>4, MachineMoves

LEMMA StutterKeepsInv ==
  ASSUME TftpInv, UNCHANGED <<fileVars, server, toClient, toServer, received>>
  PROVE  TftpInv'
<1>1. TftpTypes'
  BY DEF TftpInv, TftpTypes, fileVars
<1>2. ASSUME NEW u \in Transfer PROVE InStep(u)'
  <2>1. InStep(u) /\ LastPacket' = LastPacket
    BY SameFile DEF TftpInv
  <2>2. /\ Packets(toClient, u)' = Packets(toClient, u)
        /\ Packets(toServer, u)' = Packets(toServer, u)
    BY DEF Packets
  <2> QED
    BY <2>1, <2>2 DEF InStep, OnlyServingSends
<1> QED
  BY <1>1, <1>2 DEF TftpInv

LEMMA StepKeepsInv == TftpInv /\ [TftpNext]_tftpVars => TftpInv'
<1> SUFFICES ASSUME TftpInv, [TftpNext]_tftpVars PROVE TftpInv'
  OBVIOUS
<1>1. ASSUME NEW t \in Transfer, Request(t) PROVE TftpInv'
  BY <1>1, RequestKeepsInv
<1>2. ASSUME NEW t \in Transfer, TaskStep(t) \/ Fail(t) PROVE TftpInv'
  BY <1>2, SendKeepsInv, HearKeepsInv, WaitKeepsInv, GiveUpKeepsInv, FailKeepsInv
  DEF TaskStep
<1>3. ASSUME NEW t \in Transfer, Take(t) PROVE TftpInv'
  BY <1>3, TakeKeepsInv
<1>4. ASSUME NEW t \in Transfer, Lose(t) PROVE TftpInv'
  BY <1>4, LoseKeepsInv
<1>5. CASE Reset
  BY <1>5, StutterKeepsInv DEF Reset
<1>6. CASE UNCHANGED tftpVars
  BY <1>6, StutterKeepsInv DEF tftpVars, fileVars
<1> QED
  BY <1>1, <1>2, <1>3, <1>4, <1>5, <1>6 DEF TftpNext

\* The task of serve_tftp_request and the machine never lose step: what the task
\* sends is the machine's last packet or the next one, and only a task whose
\* machine has the whole file ends as sent.
THEOREM TransferStaysInStep == TftpSpec => []TftpInv
  BY TftpInitInv, StepKeepsInv, PTL DEF TftpSpec

------------------------------------------------------------------------------
(* The refinement. *)

Outcomes == [t \in Transfer |->
               IF server[t].phase = "abandoned" THEN "failed" ELSE server[t].phase]

Reports == [t \in Transfer |-> Recorded(t)]

Count == size \div BlockSize + 1

LEMMA InitDelivers == TftpInit => Delivered!DeliveryInit
<1> SUFFICES ASSUME TftpInit PROVE Delivered!DeliveryInit
  OBVIOUS
<1>1. Count \in Nat \ {0}
  BY PacketsOfFile DEF TftpInit, Count
<1>2. \A t \in Transfer : server[t].phase = "none"
  BY DEF TftpInit, Idle
<1>3. Outcomes = [t \in Transfer |-> "none"]
  BY <1>2 DEF Outcomes
<1>4. Reports = [t \in Transfer |-> "nothing"]
  BY <1>2 DEF Reports, Recorded
<1> QED
  BY <1>1, <1>3, <1>4 DEF TftpInit, Delivered!DeliveryInit, Count, Outcomes, Reports

\* A step that leaves the file, what the machine has and the outcomes is none.
LEMMA KeptOutcomes ==
  ASSUME UNCHANGED <<size, received>>,
         \A u \in Transfer : server'[u].phase = server[u].phase
  PROVE  UNCHANGED <<Count, received, Outcomes, Reports>>
  BY DEF Count, Outcomes, Reports, Recorded

\* A step that changes the phase of one task.
LEMMA ReportedOutcome ==
  ASSUME NEW t \in Transfer, NEW phase, NEW outcome, NEW report,
         server'[t].phase = phase,
         outcome = (IF phase = "abandoned" THEN "failed" ELSE phase),
         report = (CASE phase \in {"sent", "refused"}     -> "boot_file_sent"
                     [] phase \in {"abandoned", "failed"} -> "tftp_failed"
                     [] OTHER                             -> "nothing"),
         \A u \in Transfer \ {t} : server'[u] = server[u]
  PROVE  /\ Outcomes' = [Outcomes EXCEPT ![t] = outcome]
         /\ Reports' = [Reports EXCEPT ![t] = report]
<1>1. Recorded(t)' = report
  BY DEF Recorded
<1>2. \A u \in Transfer \ {t} : Recorded(u)' = Recorded(u)
  BY DEF Recorded
<1> QED
  BY <1>1, <1>2 DEF Outcomes, Reports

LEMMA RequestDelivers ==
  ASSUME TftpInv, NEW t \in Transfer, Request(t)
  PROVE  Delivered!DeliveryNext
<1>1. UNCHANGED <<size, received>> /\ Outcomes[t] = "none" /\ Reports[t] = "nothing"
  BY DEF Request, fileVars, Outcomes, Reports, Recorded
<1>2. /\ server'[t].phase \in {"serving", "refused", "failed"}
      /\ \A u \in Transfer \ {t} : server'[u] = server[u]
  BY DEF Request, TftpInv, TftpTypes, Task
<1>3. CASE server'[t].phase = "serving"
  <2>1. /\ Outcomes' = [Outcomes EXCEPT ![t] = "serving"]
        /\ Reports' = [Reports EXCEPT ![t] = "nothing"]
    BY <1>2, <1>3, ReportedOutcome
  <2>2. UNCHANGED Reports
    BY <1>1, <2>1 DEF Reports
  <2>3. Delivered!Begin(t)
    BY <1>1, <2>1, <2>2 DEF Delivered!Begin, Outcomes, Reports, Count
  <2> QED
    BY <2>3 DEF Delivered!DeliveryNext
<1>4. CASE server'[t].phase = "refused"
  <2>1. /\ Outcomes' = [Outcomes EXCEPT ![t] = "refused"]
        /\ Reports' = [Reports EXCEPT ![t] = "boot_file_sent"]
    BY <1>2, <1>4, ReportedOutcome
  <2>2. Delivered!Refuse(t)
    BY <1>1, <2>1 DEF Delivered!Refuse, Outcomes, Reports, Count
  <2> QED
    BY <2>2 DEF Delivered!DeliveryNext
<1>5. CASE server'[t].phase = "failed"
  <2>1. /\ Outcomes' = [Outcomes EXCEPT ![t] = "failed"]
        /\ Reports' = [Reports EXCEPT ![t] = "tftp_failed"]
    BY <1>2, <1>5, ReportedOutcome
  <2>2. Delivered!Fail(t)
    BY <1>1, <2>1 DEF Delivered!Fail, Outcomes, Reports, Count
  <2> QED
    BY <2>2 DEF Delivered!DeliveryNext
<1> QED
  BY <1>2, <1>3, <1>4, <1>5

\* A task that gives up, or cannot read or send, has failed.
LEMMA FailureDelivers ==
  ASSUME TftpInv, NEW t \in Transfer, GiveUp(t) \/ Fail(t)
  PROVE  Delivered!DeliveryNext
<1>1. UNCHANGED <<size, received>> /\ server[t].phase = "serving"
  BY DEF GiveUp, Fail, fileVars, Serving
<1>2. Outcomes[t] = "serving"
  BY <1>1 DEF Outcomes
<1>3. /\ server'[t].phase \in {"abandoned", "failed"}
      /\ \A u \in Transfer \ {t} : server'[u] = server[u]
  BY DEF GiveUp, Fail, TftpInv, TftpTypes, Task
<1>4. /\ Outcomes' = [Outcomes EXCEPT ![t] = "failed"]
      /\ Reports' = [Reports EXCEPT ![t] = "tftp_failed"]
  BY <1>3, ReportedOutcome
<1>5. Delivered!Fail(t)
  BY <1>1, <1>2, <1>4 DEF Delivered!Fail, Outcomes, Reports, Count
<1> QED
  BY <1>5 DEF Delivered!DeliveryNext

LEMMA HearDelivers ==
  ASSUME TftpInv, NEW t \in Transfer, Hear(t)
  PROVE  Delivered!DeliveryNext \/ UNCHANGED <<Count, received, Outcomes, Reports>>
<1>1. server \in [Transfer -> Task] /\ Count = LastPacket
  BY PacketsOfFile DEF TftpInv, TftpTypes, Count
<1>2. UNCHANGED <<size, received>> /\ server[t].phase = "serving"
  BY DEF Hear, fileVars, Serving
<1>3. PICK d \in Heard(t) :
        IF Acknowledges(t, d) THEN Advance(t)
        ELSE server' = [server EXCEPT ![t].waiting = FALSE,
                  ![t].met = IF d = Refusal THEN "silence" ELSE @]
  BY DEF Hear
<1>4. CASE ~Acknowledges(t, d) \/ server[t].packet < LastPacket
  <2>1. \A u \in Transfer : server'[u].phase = server[u].phase
    BY <1>1, <1>3, <1>4 DEF Advance, Task
  <2> QED
    BY <1>2, <2>1, KeptOutcomes
<1>5. CASE Acknowledges(t, d) /\ ~(server[t].packet < LastPacket)
  <2>1. /\ server'[t].phase = "sent"
        /\ \A u \in Transfer \ {t} : server'[u] = server[u]
    BY <1>1, <1>3, <1>5 DEF Advance, Task
  <2>2. Len(received[t]) = LastPacket
    <3>1. server[t].packet \in Nat /\ LastPacket \in Nat /\ server[t].packet <= LastPacket
      BY <1>1, PacketsOfFile DEF Task, TftpInv, TftpTypes, InStep
    <3> QED
      BY <1>5, <3>1, AnswersTheLast
  <2>3. /\ Outcomes' = [Outcomes EXCEPT ![t] = "sent"]
        /\ Reports' = [Reports EXCEPT ![t] = "boot_file_sent"]
    BY <2>1, ReportedOutcome
  <2>4. Outcomes[t] = "serving"
    BY <1>2 DEF Outcomes
  <2>5. Delivered!ReportSent(t)
    BY <1>1, <1>2, <2>2, <2>3, <2>4 DEF Delivered!ReportSent, Outcomes, Reports, Count
  <2> QED
    BY <2>5 DEF Delivered!DeliveryNext
<1> QED
  BY <1>4, <1>5

LEMMA TakeDelivers ==
  ASSUME TftpInv, NEW t \in Transfer, Take(t)
  PROVE  Delivered!DeliveryNext \/ UNCHANGED <<Count, received, Outcomes, Reports>>
<1>1. UNCHANGED <<size, server>>
  BY DEF Take, fileVars
<1>2. UNCHANGED <<Count, Outcomes, Reports>>
  BY <1>1 DEF Outcomes, Reports, Recorded, Count
<1>3. CASE UNCHANGED received
  BY <1>2, <1>3
<1>4. CASE /\ Len(received[t]) + 1 <= server[t].packet
           /\ received' = [received EXCEPT ![t] = Append(@, Len(@) + 1)]
  <2>1. /\ server[t].packet \in Nat /\ Len(received[t]) \in Nat
        /\ LastPacket \in Nat /\ server[t].packet <= LastPacket
        /\ server[t].phase \in Phase /\ Count = LastPacket
        /\ server[t].phase = "sent" => Len(received[t]) = LastPacket
    BY PacketsOfFile DEF TftpInv, TftpTypes, Task, InStep, Count
  <2>2. Len(received[t]) < Count /\ server[t].phase # "sent"
    BY <1>4, <2>1
  <2>3. server[t].phase \in {"serving", "abandoned", "failed"}
    BY <2>1, <2>2, TakesTheNext DEF Phase
  <2>4. Outcomes[t] \in {"serving", "failed"}
    BY <2>3 DEF Outcomes
  <2>5. Delivered!Deliver(t)
    BY <1>2, <1>4, <2>2, <2>4 DEF Delivered!Deliver, Outcomes, Reports, Count
  <2> QED
    BY <2>5 DEF Delivered!DeliveryNext
<1> QED
  BY <1>3, <1>4, TakesTheNext

LEMMA StepDelivers ==
  TftpInv /\ [TftpNext]_tftpVars
    => Delivered!DeliveryNext \/ UNCHANGED <<Count, received, Outcomes, Reports>>
<1> SUFFICES ASSUME TftpInv, [TftpNext]_tftpVars
             PROVE  Delivered!DeliveryNext \/ UNCHANGED <<Count, received, Outcomes, Reports>>
  OBVIOUS
<1>1. ASSUME NEW t \in Transfer, Send(t) \/ Wait(t)
      PROVE  UNCHANGED <<Count, received, Outcomes, Reports>>
  <2>1. UNCHANGED <<size, received>>
    BY <1>1 DEF Send, Wait, fileVars
  <2>2. server \in [Transfer -> Task]
    BY DEF TftpInv, TftpTypes
  <2>3. CASE Send(t)
    BY <2>1, <2>2, <2>3, KeptOutcomes DEF Send, Task
  <2>4. CASE Wait(t)
    BY <2>1, <2>2, <2>4, KeptOutcomes DEF Wait, Task
  <2> QED
    BY <1>1, <2>3, <2>4
<1>2. ASSUME NEW t \in Transfer, Lose(t)
      PROVE  UNCHANGED <<Count, received, Outcomes, Reports>>
  BY <1>2, KeptOutcomes DEF Lose, fileVars
<1>3. CASE Reset
  BY <1>3, KeptOutcomes DEF Reset, fileVars
<1>4. CASE UNCHANGED tftpVars
  BY <1>4, KeptOutcomes DEF tftpVars
<1> QED
  BY <1>1, <1>2, <1>3, <1>4, RequestDelivers, FailureDelivers, HearDelivers, TakeDelivers
  DEF TftpNext, TaskStep

\* For any file, any network and any machine, the transfers deliver what
\* FileDelivery promises: in order, once, and boot_file_sent for a transfer that
\* was begun only when the whole file was delivered; for a request that was
\* refused it is recorded with nothing delivered.
THEOREM TransfersDeliver == TftpSpec => ImplementsDelivery
<1>1. TftpInv /\ [TftpNext]_tftpVars => [Delivered!DeliveryNext]_Delivered!deliveryVars
  BY StepDelivers DEF Delivered!deliveryVars, Count, Outcomes, Reports
<1>2. TftpSpec => Delivered!DeliveryInit
  BY InitDelivers DEF TftpSpec
<1> QED
  BY <1>1, <1>2, TransferStaysInStep, PTL
  DEF TftpSpec, ImplementsDelivery, Delivered!Delivery

------------------------------------------------------------------------------
(* The counters and the machine's packets. *)

Waits(a) == IF a.waiting THEN 1 ELSE 0

\* A packet is not sent more often than the code tries.
CountedTries(t) == server[t].tries <= MaxTries

\* A timeout that comes too early counts as a fault.
EarlyAreFaults ==
  /\ early \in [Transfer -> Nat]
  /\ \A t \in Transfer : early[t] <= faults

TransferInv ==
  /\ \A t \in Transfer : CountedTries(t) /\ received[t] \in Seq(1..LastPacket)
  /\ options \in BOOLEAN
  /\ chosen \in Transfer \cup {0}
  /\ faults \in 0..MaxFaults
  /\ EarlyAreFaults

LEMMA InitTransferInv == TftpInit => TransferInv
<1> SUFFICES ASSUME TftpInit PROVE TransferInv
  OBVIOUS
<1>1. MaxTries \in Nat /\ MaxFaults \in Nat
  BY TftpAssumption
<1>2. ASSUME NEW t \in Transfer
      PROVE  CountedTries(t) /\ received[t] \in Seq(1..LastPacket)
  BY <1>1 DEF TftpInit, CountedTries, Waits, Idle
<1> QED
  BY <1>1, <1>2 DEF TftpInit, TransferInv, EarlyAreFaults

\* What a step of a task does to the counters, and how a step counts a fault.
LEMMA TriesStayCounted ==
  ASSUME TftpInv, TransferInv, [TftpNext]_tftpVars, NEW t \in Transfer
  PROVE  CountedTries(t)'
<1>1. /\ server \in [Transfer -> Task] /\ server[t].tries \in Nat
      /\ server[t].met \in {"answers", "silence"} /\ server[t].waiting \in BOOLEAN
      /\ server[t].tries <= MaxTries /\ MaxTries \in Nat
  BY TftpAssumption DEF TftpInv, TftpTypes, Task, TransferInv, CountedTries
<1>2. CASE server'[t] = server[t]
  BY <1>1, <1>2 DEF CountedTries
<1>3. ASSUME Request(t) PROVE CountedTries(t)'
  <2>1. /\ server'[t].tries = server[t].tries /\ server'[t].met = server[t].met
        /\ server'[t].waiting = server[t].waiting
    BY <1>1, <1>3 DEF Request, Task
  <2> QED
    BY <1>1, <2>1 DEF CountedTries, Waits
<1>4. ASSUME Send(t) PROVE CountedTries(t)'
  <2>1. /\ server'[t].tries = server[t].tries + 1 /\ server'[t].met = server[t].met
        /\ server'[t].waiting = TRUE /\ server[t].waiting = FALSE
        /\ server[t].tries < MaxTries
    BY <1>1, <1>4 DEF Send, Task, CountedTry, Tries
  <2> QED
    BY <1>1, <2>1 DEF CountedTries, Waits
<1>5. ASSUME Hear(t) PROVE CountedTries(t)'
  <2>1. PICK d \in Heard(t) :
          \/ server' = [server EXCEPT ![t].waiting = FALSE,
                                      ![t].met = IF d = Refusal THEN "silence" ELSE @]
          \/ server' = [server EXCEPT ![t].packet = @ + 1, ![t].tries = 0,
                                      ![t].waiting = FALSE, ![t].met = "answers"]
          \/ server' = [server EXCEPT ![t].phase = "sent", ![t].waiting = FALSE]
    BY <1>5 DEF Hear, Advance
  <2>2. /\ server'[t].waiting = FALSE /\ server[t].waiting = TRUE
        /\ \/ /\ server'[t].tries = server[t].tries
              /\ server'[t].met \in {"answers", "silence"}
           \/ server'[t].tries = 0 /\ server'[t].met = "answers"
    BY <1>1, <1>5, <2>1 DEF Task, Hear
  <2> QED
    BY <1>1, <2>2 DEF CountedTries, Waits
<1>6. ASSUME Wait(t) PROVE CountedTries(t)'
  <2>1. /\ server'[t].tries = server[t].tries
        /\ server'[t].met = "silence"
        /\ server'[t].waiting = FALSE /\ server[t].waiting = TRUE
    BY <1>1, <1>6 DEF Wait, Task
  <2> QED
    BY <1>1, <2>1 DEF CountedTries, Waits
<1>7. ASSUME GiveUp(t) \/ Fail(t) PROVE CountedTries(t)'
  <2>1. /\ server'[t].tries = server[t].tries /\ server'[t].met = server[t].met
        /\ server'[t].waiting = server[t].waiting
    BY <1>1, <1>7 DEF GiveUp, Fail, Task
  <2> QED
    BY <1>1, <2>1 DEF CountedTries, Waits
<1>8. ASSUME NEW u \in Transfer \ {t}, Request(u) \/ TaskStep(u) \/ Fail(u)
      PROVE  server'[t] = server[t]
  BY <1>1, <1>8 DEF Request, TaskStep, Send, Hear, Wait, GiveUp, Fail, Advance
<1>9. ASSUME NEW u \in Transfer, Take(u) \/ Lose(u) PROVE server'[t] = server[t]
  BY <1>9 DEF Take, Lose
<1>10. CASE Reset \/ UNCHANGED tftpVars
  BY <1>2, <1>10 DEF Reset, tftpVars
<1> QED
  BY <1>2, <1>3, <1>4, <1>5, <1>6, <1>7, <1>8, <1>9, <1>10 DEF TftpNext, TaskStep

LEMMA PacketsAreOfTheFile ==
  ASSUME TftpInv, TransferInv, [TftpNext]_tftpVars, NEW t \in Transfer
  PROVE  received'[t] \in Seq(1..LastPacket')
<1>1. UNCHANGED fileVars
  BY DEF TftpNext, TaskStep, Request, Send, Hear, Wait, GiveUp, Fail, Take, Lose, Reset,
         tftpVars, fileVars
<1>2. LastPacket' = LastPacket /\ LastPacket \in Nat
  BY <1>1, SameFile, PacketsOfFile DEF TftpInv, TftpTypes
<1>3. received[t] \in Seq(1..LastPacket)
  BY DEF TransferInv
<1>4. ASSUME NEW u \in Transfer, Take(u) PROVE received'[t] \in Seq(1..LastPacket)
  <2>1. CASE UNCHANGED received
    BY <1>3, <2>1
  <2>2. CASE /\ Len(received[u]) + 1 <= server[u].packet
             /\ received' = [received EXCEPT ![u] = Append(@, Len(@) + 1)]
    <3>1. /\ received \in [Transfer -> Seq(Nat)] /\ Len(received[u]) \in Nat
          /\ server[u].packet \in Nat /\ server[u].packet <= LastPacket
      BY DEF TftpInv, TftpTypes, Task, InStep
    <3>2. Len(received[u]) + 1 \in 1..LastPacket
      BY <1>2, <2>2, <3>1
    <3>3. CASE u = t
      <4>1. received'[t] = Append(received[t], Len(received[t]) + 1)
        BY <2>2, <3>1, <3>3
      <4> QED
        BY <1>3, <3>2, <3>3, <4>1
    <3>4. CASE u # t
      BY <1>3, <2>2, <3>1, <3>4
    <3> QED
      BY <3>3, <3>4
  <2> QED
    BY <1>4, <2>1, <2>2, TakesTheNext
<1>5. CASE UNCHANGED received
  BY <1>2, <1>3, <1>5
<1>6. ASSUME NEW u \in Transfer, Request(u) \/ TaskStep(u) \/ Fail(u) \/ Lose(u)
      PROVE  UNCHANGED received
  BY <1>6 DEF Request, TaskStep, Send, Hear, Wait, GiveUp, Fail, Lose
<1>7. CASE Reset \/ UNCHANGED tftpVars
  BY <1>5, <1>7 DEF Reset, tftpVars
<1> QED
  BY <1>2, <1>4, <1>5, <1>6, <1>7 DEF TftpNext

LEMMA StepTransferInv ==
  TftpInv /\ TransferInv /\ [TftpNext]_tftpVars => TransferInv'
<1> SUFFICES ASSUME TftpInv, TransferInv, [TftpNext]_tftpVars PROVE TransferInv'
  OBVIOUS
<1>1. chosen' \in Transfer \cup {0}
  <2>1. \/ chosen' \in {0, chosen}
        \/ \E t \in Transfer : chosen' = t
    BY DEF TftpNext, TaskStep, Request, Send, Hear, Wait, GiveUp, Fail, Take, Lose, Reset, tftpVars
  <2> QED
    BY <2>1 DEF TransferInv
<1>2. faults' \in 0..MaxFaults
  <2>1. UNCHANGED faults \/ (faults < MaxFaults /\ faults' = faults + 1)
    BY DEF TftpNext, TaskStep, Request, Send, Hear, Wait, GiveUp, Fail, Take, Lose, Reset, tftpVars
  <2> QED
    BY <2>1, TftpAssumption DEF TransferInv
<1>3. options' \in BOOLEAN
  BY DEF TransferInv, TftpNext, TaskStep, Request, Send, Hear, Wait, GiveUp, Fail, Take, Lose,
         Reset, tftpVars, fileVars
<1>4. \A t \in Transfer : CountedTries(t)' /\ received'[t] \in Seq(1..LastPacket')
  BY TriesStayCounted, PacketsAreOfTheFile
<1>5. EarlyAreFaults'
  <2>1. faults \in Nat /\ EarlyAreFaults
    BY TftpAssumption DEF TransferInv
  <2>2. CASE UNCHANGED early /\ (UNCHANGED faults \/ faults' = faults + 1)
    BY <2>1, <2>2 DEF EarlyAreFaults
  <2>3. ASSUME NEW t \in Transfer, faults' = faults + 1, early' = [early EXCEPT ![t] = @ + 1]
        PROVE  EarlyAreFaults'
    BY <2>1, <2>3 DEF EarlyAreFaults
  <2>4. \/ UNCHANGED early /\ (UNCHANGED faults \/ faults' = faults + 1)
        \/ \E t \in Transfer : faults' = faults + 1 /\ early' = [early EXCEPT ![t] = @ + 1]
    BY DEF TftpNext, TaskStep, Request, Send, Hear, Wait, GiveUp, Fail, Take, Lose, Reset,
           tftpVars
  <2> QED
    BY <2>2, <2>3, <2>4
<1> QED
  BY <1>1, <1>2, <1>3, <1>4, <1>5 DEF TransferInv

\* Every task of serve_tftp_request stays within the tries of a packet and the
\* packets of its file, and so do the machine and the network.
THEOREM TransferTypes == TftpSpec => []TftpTypeOK
<1>1. TftpInv /\ TransferInv => TftpTypeOK
  <2> SUFFICES ASSUME TftpInv, TransferInv PROVE TftpTypeOK
    OBVIOUS
  <2>1. LastPacket \in Nat /\ server \in [Transfer -> Task] /\ MaxTries \in Nat
    BY PacketsOfFile, TftpAssumption DEF TftpInv, TftpTypes
  <2>2. ASSUME NEW t \in Transfer
        PROVE  /\ server[t].tries \in 0..MaxTries /\ server[t].met \in {"answers", "silence"}
               /\ server[t].packet \in 0..LastPacket
               /\ Packets(toClient, t) \subseteq 0..LastPacket
               /\ Packets(toServer, t) \subseteq (0..LastPacket) \cup {Refusal}
               /\ received[t] \in Seq(1..LastPacket)
    <3>1. /\ server[t] \in Task /\ server[t].tries \in Nat /\ server[t].met \in {"answers", "silence"}
          /\ server[t].packet \in Nat /\ Len(received[t]) \in Nat
          /\ server[t].waiting \in BOOLEAN
          /\ InStep(t) /\ CountedTries(t) /\ received[t] \in Seq(1..LastPacket)
      BY <2>1 DEF Task, TftpInv, TftpTypes, TransferInv
    <3>2. server[t].tries \in 0..MaxTries /\ server[t].met \in {"answers", "silence"}
      BY <2>1, <3>1 DEF CountedTries, Waits
    <3>3. server[t].packet <= LastPacket /\ Len(received[t]) <= LastPacket
      BY <2>1, <3>1 DEF InStep
    <3>4. /\ Packets(toClient, t) \subseteq 0..server[t].packet
          /\ Packets(toServer, t) \subseteq (0..Len(received[t])) \cup {Refusal}
      BY <3>1 DEF InStep
    <3>5. 0..server[t].packet \subseteq 0..LastPacket
      BY <2>1, <3>1, <3>3
    <3>6. 0..Len(received[t]) \subseteq 0..LastPacket
      BY <2>1, <3>1, <3>3
    <3> QED
      BY <2>1, <3>1, <3>2, <3>3, <3>4, <3>5, <3>6
  <2>3. server \in [Transfer -> [phase : Phase, packet : Nat, tries : 0..MaxTries,
                                 waiting : BOOLEAN, met : {"answers", "silence"}]]
    BY <2>1, <2>2 DEF Task
  <2>4. size \in FileSize
    BY DEF TftpInv, TftpTypes
  <2>5. early \in [Transfer -> 0..MaxFaults]
    BY TftpAssumption DEF TransferInv, EarlyAreFaults
  <2> QED
    BY <2>2, <2>3, <2>4, <2>5 DEF TftpTypeOK, TransferInv, Packets
<1> QED
  BY <1>1, InitTransferInv, StepTransferInv, TransferStaysInStep, TftpInitInv, PTL DEF TftpSpec

------------------------------------------------------------------------------
(* How many datagrams of the kinds D a bag holds, copies counted: the size *)
(* of a set with an element for each copy.                                 *)

Copies(b, D) == UNION {{d} \X (1..b[d]) : d \in D \cap DOMAIN b}

CountOf(b, D) == Cardinality(Copies(b, D))

FiniteBag(b) ==
  /\ b \in [DOMAIN b -> Nat \ {0}]
  /\ IsFiniteSet(Copies(b, DOMAIN b))

LEMMA CopiesOf ==
  ASSUME NEW b, NEW D, NEW d, NEW i
  PROVE  <<d, i>> \in Copies(b, D) <=> d \in D /\ d \in DOMAIN b /\ i \in 1..b[d]
  BY DEF Copies

LEMMA CopiesArePairs ==
  ASSUME NEW b, NEW D, NEW x \in Copies(b, D)
  PROVE  x = <<x[1], x[2]>>
  BY DEF Copies

LEMMA CountFewer ==
  ASSUME NEW b, FiniteBag(b), NEW D, NEW E, E \cap DOMAIN b \subseteq D
  PROVE  /\ IsFiniteSet(Copies(b, D)) /\ CountOf(b, D) \in Nat
         /\ CountOf(b, E) \in Nat /\ CountOf(b, E) <= CountOf(b, D)
<1>1. Copies(b, D) \subseteq Copies(b, DOMAIN b) /\ Copies(b, E) \subseteq Copies(b, D)
  BY DEF Copies
<1>2. IsFiniteSet(Copies(b, D))
  BY <1>1, FS_Subset DEF FiniteBag
<1>3. IsFiniteSet(Copies(b, E)) /\ Cardinality(Copies(b, E)) <= Cardinality(Copies(b, D))
  BY <1>1, <1>2, FS_Subset
<1> QED
  BY <1>2, <1>3, FS_CardinalityType DEF CountOf

LEMMA CountNone ==
  ASSUME NEW b, NEW D, D \cap DOMAIN b = {}
  PROVE  CountOf(b, D) = 0
<1>1. Copies(b, D) = {}
  BY DEF Copies
<1> QED
  BY <1>1, FS_EmptySet DEF CountOf

LEMMA EmptyIsFinite == FiniteBag(EmptyBag)
<1>1. DOMAIN EmptyBag = {} /\ EmptyBag \in [DOMAIN EmptyBag -> Nat \ {0}]
  BY DEF EmptyBag, SetToBag
<1>2. Copies(EmptyBag, DOMAIN EmptyBag) = {}
  BY <1>1 DEF Copies
<1> QED
  BY <1>1, <1>2, FS_EmptySet DEF FiniteBag

LEMMA CountMore ==
  ASSUME NEW b, FiniteBag(b), NEW d, NEW c, c = b (+) SetToBag({d})
  PROVE  /\ FiniteBag(c)
         /\ \A D : CountOf(c, D) <= CountOf(b, D) + 1
         /\ \A D : d \notin D => CountOf(c, D) = CountOf(b, D)
<1> DEFINE n == IF d \in DOMAIN b THEN b[d] ELSE 0
<1>1. /\ DOMAIN c = DOMAIN b \cup {d} /\ n \in Nat /\ c[d] = n + 1
      /\ c \in [DOMAIN c -> Nat \ {0}]
      /\ \A e \in DOMAIN b \ {d} : c[e] = b[e]
  BY DEF FiniteBag, (+), SetToBag
<1>2. ASSUME NEW D PROVE Copies(c, D) \subseteq Copies(b, D) \cup {<<d, n + 1>>}
  <2> SUFFICES ASSUME NEW x \in Copies(c, D)
               PROVE  x \in Copies(b, D) \/ x = <<d, n + 1>>
    OBVIOUS
  <2>1. PICK e, i : x = <<e, i>>
    BY CopiesArePairs
  <2>2. e \in D /\ e \in DOMAIN c /\ i \in 1..c[e]
    BY <2>1, CopiesOf
  <2>3. CASE e # d
    BY <1>1, <2>1, <2>2, <2>3, CopiesOf
  <2>4. CASE e = d /\ i # n + 1
    <3>1. i \in 1..n /\ n # 0
      BY <1>1, <2>2, <2>4
    <3>2. d \in DOMAIN b /\ i \in 1..b[d]
      BY <3>1
    <3> QED
      BY <2>1, <2>2, <2>4, <3>2, CopiesOf
  <2> QED
    BY <2>1, <2>3, <2>4
<1>3. FiniteBag(c)
  <2>1. Copies(c, DOMAIN c) \subseteq Copies(b, DOMAIN b) \cup {<<d, n + 1>>}
    <3>1. Copies(b, DOMAIN c) \subseteq Copies(b, DOMAIN b)
      BY DEF Copies
    <3> QED
      BY <1>2, <3>1
  <2>2. IsFiniteSet(Copies(b, DOMAIN b) \cup {<<d, n + 1>>})
    BY FS_AddElement DEF FiniteBag
  <2> DEFINE S == Copies(b, DOMAIN b) \cup {<<d, n + 1>>}
             T == Copies(c, DOMAIN c)
  <2>3. T \in SUBSET S
    BY <2>1
  <2>4. IsFiniteSet(S)
    BY <2>2
  <2> HIDE DEF S, T
  <2>5. IsFiniteSet(T)
    BY <2>3, <2>4, FS_Subset
  <2> QED
    BY <1>1, <2>5 DEF FiniteBag, T
<1>4. ASSUME NEW D PROVE CountOf(c, D) <= CountOf(b, D) + 1
  <2>1. IsFiniteSet(Copies(b, D)) /\ CountOf(b, D) \in Nat /\ CountOf(c, D) \in Nat
    BY <1>3, CountFewer
  <2>2. /\ IsFiniteSet(Copies(b, D) \cup {<<d, n + 1>>})
        /\ Cardinality(Copies(b, D) \cup {<<d, n + 1>>})
             \in {CountOf(b, D), CountOf(b, D) + 1}
    BY <2>1, FS_AddElement DEF CountOf
  <2>3. CountOf(c, D) <= Cardinality(Copies(b, D) \cup {<<d, n + 1>>})
    BY <1>2, <2>2, FS_Subset DEF CountOf
  <2> QED
    BY <2>1, <2>2, <2>3
<1>5. ASSUME NEW D, d \notin D PROVE CountOf(c, D) = CountOf(b, D)
  <2>1. Copies(c, D) = Copies(b, D)
    BY <1>1, <1>5 DEF Copies
  <2> QED
    BY <2>1 DEF CountOf
<1> QED
  BY <1>3, <1>4, <1>5

LEMMA CountLess ==
  ASSUME NEW b, FiniteBag(b), NEW d \in DOMAIN b, NEW c, c = b (-) SetToBag({d})
  PROVE  /\ FiniteBag(c)
         /\ \A D : CountOf(c, D) <= CountOf(b, D)
         /\ \A D : d \in D => CountOf(c, D) <= CountOf(b, D) - 1
<1>1. /\ DOMAIN c \subseteq DOMAIN b /\ c \in [DOMAIN c -> Nat \ {0}]
      /\ b[d] \in Nat \ {0}
      /\ \A e \in DOMAIN c : c[e] = IF e = d THEN b[e] - 1 ELSE b[e]
  BY DEF FiniteBag, (-), SetToBag
<1>2. ASSUME NEW D PROVE Copies(c, D) \subseteq Copies(b, D) \ {<<d, b[d]>>}
  <2> SUFFICES ASSUME NEW x \in Copies(c, D)
               PROVE  x \in Copies(b, D) /\ x # <<d, b[d]>>
    OBVIOUS
  <2>1. PICK e, i : x = <<e, i>>
    BY CopiesArePairs
  <2>2. e \in D /\ e \in DOMAIN c /\ i \in 1..c[e]
    BY <2>1, CopiesOf
  <2>3. e \in DOMAIN b /\ i \in 1..b[e] /\ (e = d => i # b[d])
    BY <1>1, <2>2 DEF FiniteBag
  <2> QED
    BY <2>1, <2>2, <2>3, CopiesOf
<1>3. FiniteBag(c)
  <2>1. Copies(c, DOMAIN c) \subseteq Copies(b, DOMAIN b)
    <3>1. Copies(b, DOMAIN c) \subseteq Copies(b, DOMAIN b)
      BY DEF Copies
    <3> QED
      BY <1>2, <3>1
  <2> QED
    BY <1>1, <2>1, FS_Subset DEF FiniteBag
<1>4. ASSUME NEW D
      PROVE  /\ CountOf(c, D) <= CountOf(b, D)
             /\ d \in D => CountOf(c, D) <= CountOf(b, D) - 1
  <2>1. IsFiniteSet(Copies(b, D)) /\ CountOf(b, D) \in Nat /\ CountOf(c, D) \in Nat
    BY <1>3, CountFewer
  <2>2. /\ IsFiniteSet(Copies(b, D) \ {<<d, b[d]>>})
        /\ Cardinality(Copies(b, D) \ {<<d, b[d]>>})
             = IF <<d, b[d]>> \in Copies(b, D) THEN CountOf(b, D) - 1 ELSE CountOf(b, D)
    BY <2>1, FS_RemoveElement DEF CountOf
  <2>3. CountOf(c, D) <= Cardinality(Copies(b, D) \ {<<d, b[d]>>})
    BY <1>2, <2>2, FS_Subset DEF CountOf
  <2>4. d \in D => <<d, b[d]>> \in Copies(b, D)
    BY <1>1, CopiesOf
  <2> QED
    BY <2>1, <2>2, <2>3, <2>4
<1> QED
  BY <1>3, <1>4

------------------------------------------------------------------------------
(* Late answers.  Every early timeout puts a datagram more under way than  *)
(* the packet and its answer that a transfer needs, and a try that hears   *)
(* neither silence nor a refusal hears an answer to an earlier packet,     *)
(* which is one of these.                                                  *)

LivePackets(t) == {d \in Int : Len(received[t]) + 1 - d < Modulus}
LiveAnswers(t) == {d \in Int : d = Refusal \/ server[t].packet - d < Modulus}

LatePackets(t) == LivePackets(t) \ {server[t].packet}
LateAnswers(t) == LiveAnswers(t) \ {server[t].packet, Refusal}

Underway(t) ==
  CountOf(toClient[t], LivePackets(t)) + CountOf(toServer[t], LiveAnswers(t))

Late(t) ==
  CountOf(toClient[t], LatePackets(t)) + CountOf(toServer[t], LateAnswers(t))

Bags(t) == FiniteBag(toClient[t]) /\ FiniteBag(toServer[t])

Unused(t) == toClient[t] = EmptyBag /\ toServer[t] = EmptyBag /\ server[t] = Idle

FewLate(t) ==
  /\ Underway(t) <= early[t] + Waits(server[t])
  /\ server[t].met = "answers" =>
       Late(t) + server[t].tries <= early[t] + Waits(server[t])

\* What AbandonsOnlyUnanswered says of one transfer.
Unanswered(t) ==
  server[t].phase = "abandoned" => server[t].met = "silence" \/ early[t] >= MaxTries

InTime(t) ==
  /\ Bags(t)
  /\ server[t].phase = "none" => Unused(t)
  /\ Serving(t) => FewLate(t)
  /\ Unanswered(t)

LateInv == \A t \in Transfer : InTime(t)

AllInv == TftpInv /\ TransferInv /\ LateInv

LEMMA Counted ==
  ASSUME NEW t, Bags(t)
  PROVE  /\ Underway(t) \in Nat /\ Late(t) \in Nat
         /\ CountOf(toClient[t], LivePackets(t)) \in Nat
         /\ CountOf(toServer[t], LiveAnswers(t)) \in Nat
         /\ CountOf(toClient[t], LatePackets(t)) \in Nat
         /\ CountOf(toServer[t], LateAnswers(t)) \in Nat
  BY CountFewer DEF Underway, Late, Bags

LEMMA TaskFields ==
  ASSUME AllInv, NEW t \in Transfer
  PROVE  /\ server \in [Transfer -> Task] /\ server[t].packet \in Nat
         /\ server[t].tries \in Nat /\ server[t].met \in {"answers", "silence"}
         /\ server[t].waiting \in BOOLEAN /\ Waits(server[t]) \in {0, 1}
         /\ Len(received[t]) \in Nat /\ early[t] \in Nat
         /\ early \in [Transfer -> Nat]
         /\ toClient = [u \in Transfer |-> toClient[u]]
         /\ toServer = [u \in Transfer |-> toServer[u]]
<1>1. server \in [Transfer -> Task] /\ server[t] \in Task /\ Len(received[t]) \in Nat
  BY DEF AllInv, TftpInv, TftpTypes
<1>2. early[t] \in Nat
  BY DEF AllInv, TransferInv, EarlyAreFaults
<1> QED
  BY <1>1, <1>2 DEF Task, Waits, AllInv, TftpInv, TftpTypes, TransferInv, EarlyAreFaults

\* A transfer on which nothing happens stays in time.
LEMMA UntouchedInTime ==
  ASSUME AllInv, NEW t \in Transfer, early'[t] = early[t],
         server'[t] = server[t], toClient'[t] = toClient[t],
         toServer'[t] = toServer[t], received'[t] = received[t]
  PROVE  InTime(t)'
<1>1. Bags(t) /\ (server[t].phase = "none" => Unused(t)) /\ (Serving(t) => FewLate(t))
      /\ Unanswered(t)
  BY DEF AllInv, LateInv, InTime
<1>2. /\ LivePackets(t)' = LivePackets(t) /\ LiveAnswers(t)' = LiveAnswers(t)
      /\ LatePackets(t)' = LatePackets(t) /\ LateAnswers(t)' = LateAnswers(t)
  BY DEF LivePackets, LiveAnswers, LatePackets, LateAnswers
<1>3. Underway(t)' = Underway(t) /\ Late(t)' = Late(t)
  BY <1>2 DEF Underway, Late
<1>4. Serving(t) => FewLate(t)'
  BY <1>1, <1>3, Counted, TaskFields DEF FewLate
<1> QED
  BY <1>1, <1>4 DEF InTime, Bags, Unused, Serving, Unanswered

\* A step of a task that serves, after which it still serves.
LEMMA StaysInTime ==
  ASSUME AllInv, NEW t \in Transfer, Serving(t), server'[t] \in Task,
         server'[t].phase = "serving", Bags(t)', early'[t] \in Nat,
         Underway(t)' + early[t] + Waits(server[t])
           <= Underway(t) + early'[t] + Waits(server'[t]),
         server'[t].met = "answers" =>
           /\ server[t].met = "answers"
           /\ Late(t)' + server'[t].tries + early[t] + Waits(server[t])
                <= Late(t) + server[t].tries + early'[t] + Waits(server'[t])
  PROVE  InTime(t)'
<1>1. Bags(t) /\ FewLate(t)
  BY DEF AllInv, LateInv, InTime
<1>2. /\ Underway(t)' \in Nat /\ Late(t)' \in Nat
      /\ server'[t].tries \in Nat /\ Waits(server'[t]) \in {0, 1}
  <2>1. Underway(t)' \in Nat /\ Late(t)' \in Nat
    BY CountFewer DEF Underway, Late, Bags
  <2> QED
    BY <2>1 DEF Task, Waits
<1>3. Underway(t) \in Nat /\ Late(t) \in Nat
  BY <1>1, Counted
<1>4. Underway(t)' <= early'[t] + Waits(server'[t])
  BY <1>1, <1>2, <1>3, TaskFields DEF FewLate
<1>5. ASSUME server'[t].met = "answers"
      PROVE  Late(t)' + server'[t].tries <= early'[t] + Waits(server'[t])
  <2>1. Late(t) + server[t].tries <= early[t] + Waits(server[t])
    BY <1>1, <1>5 DEF FewLate
  <2>2. Late(t)' + server'[t].tries + early[t] + Waits(server[t])
          <= Late(t) + server[t].tries + early'[t] + Waits(server'[t])
    BY <1>5
  <2>3. /\ server[t].tries \in Nat /\ Waits(server[t]) \in {0, 1} /\ early[t] \in Nat
        /\ early'[t] \in Nat
    BY TaskFields
  <2> QED
    BY <1>2, <1>3, <2>1, <2>2, <2>3
<1> QED
  BY <1>4, <1>5 DEF InTime, FewLate, Serving, Unanswered

LEMMA RequestInTime ==
  ASSUME AllInv, NEW t \in Transfer, Request(t)
  PROVE  InTime(t)'
<1>1. Unused(t) /\ Bags(t) /\ TftpInv
  BY DEF AllInv, LateInv, InTime, Request
<1>2. /\ server'[t].phase \in {"serving", "refused", "failed"}
      /\ server'[t].tries = 0 /\ server'[t].waiting = FALSE
  BY <1>1, TaskFields DEF Request, Unused, Idle, Task
<1>3. /\ toClient'[t] = EmptyBag /\ toServer'[t] = EmptyBag /\ early'[t] = early[t]
  BY <1>1 DEF Request, Unused
<1>4. DOMAIN EmptyBag = {}
  BY DEF EmptyBag, SetToBag
<1>5. \A D : CountOf(EmptyBag, D) = 0
  BY <1>4, CountNone
<1>6. Underway(t)' = 0 /\ Late(t)' = 0
  BY <1>3, <1>5 DEF Underway, Late
<1> QED
  BY <1>1, <1>2, <1>3, <1>6, EmptyIsFinite, TaskFields
  DEF InTime, FewLate, Serving, Bags, Waits, Unanswered

LEMMA SendInTime ==
  ASSUME AllInv, NEW t \in Transfer, Send(t)
  PROVE  InTime(t)'
<1> DEFINE p == server[t].packet
<1>1. /\ server \in [Transfer -> Task] /\ Bags(t)
      /\ toClient = [u \in Transfer |-> toClient[u]]
  BY TaskFields DEF AllInv, LateInv, InTime
<1>2. /\ server'[t] \in Task /\ server'[t].phase = "serving"
      /\ server'[t].packet = p /\ server'[t].met = server[t].met
      /\ server'[t].tries = server[t].tries + 1
      /\ Waits(server[t]) = 0 /\ Waits(server'[t]) = 1
  BY <1>1 DEF Send, Serving, Task, Waits, CountedTry
<1>3. /\ toClient'[t] = toClient[t] (+) SetToBag({p}) /\ toServer'[t] = toServer[t]
      /\ received'[t] = received[t] /\ early'[t] = early[t]
  BY <1>1 DEF Send, Added
<1>4. /\ LivePackets(t)' = LivePackets(t) /\ LiveAnswers(t)' = LiveAnswers(t)
      /\ LatePackets(t)' = LatePackets(t) /\ LateAnswers(t)' = LateAnswers(t)
      /\ p \notin LatePackets(t)
  BY <1>2, <1>3 DEF LivePackets, LiveAnswers, LatePackets, LateAnswers
<1> HIDE DEF p
<1>5. /\ FiniteBag(toClient'[t])
      /\ CountOf(toClient'[t], LivePackets(t)) <= CountOf(toClient[t], LivePackets(t)) + 1
      /\ CountOf(toClient'[t], LatePackets(t)) = CountOf(toClient[t], LatePackets(t))
  BY <1>1, <1>3, <1>4, CountMore DEF Bags
<1>6. Bags(t)'
  BY <1>1, <1>3, <1>5 DEF Bags
<1>7. Underway(t)' <= Underway(t) + 1 /\ Late(t)' = Late(t)
  <2>1. /\ Underway(t)' = CountOf(toClient'[t], LivePackets(t))
                            + CountOf(toServer[t], LiveAnswers(t))
        /\ Late(t)' = CountOf(toClient'[t], LatePackets(t))
                        + CountOf(toServer[t], LateAnswers(t))
    BY <1>3, <1>4 DEF Underway, Late
  <2>2. /\ CountOf(toClient'[t], LivePackets(t)) \in Nat
        /\ CountOf(toClient[t], LivePackets(t)) \in Nat
        /\ CountOf(toServer[t], LiveAnswers(t)) \in Nat
    BY <1>1, <1>5, CountFewer, Counted
  <2>3. Underway(t)' <= Underway(t) + 1
    BY <1>5, <2>1, <2>2 DEF Underway
  <2>4. Late(t)' = Late(t)
    BY <1>5, <2>1 DEF Late
  <2> QED
    BY <2>3, <2>4
<1>8. /\ Underway(t) \in Nat /\ Late(t) \in Nat
      /\ Underway(t)' \in Nat /\ Late(t)' \in Nat
  <2>1. Underway(t)' \in Nat /\ Late(t)' \in Nat
    BY <1>6, CountFewer DEF Underway, Late, Bags
  <2> QED
    BY <1>1, <2>1, Counted
<1>9. Serving(t) /\ server[t].tries \in Nat /\ early[t] \in Nat
  BY TaskFields DEF Send
<1> QED
  BY <1>2, <1>3, <1>6, <1>7, <1>8, <1>9, StaysInTime

\* A timeout that comes before what is on its way is a fault; if nothing is on
\* its way, nothing is late either.
LEMMA WaitInTime ==
  ASSUME AllInv, NEW t \in Transfer, Wait(t)
  PROVE  InTime(t)'
<1>1. /\ server \in [Transfer -> Task] /\ Bags(t) /\ Serving(t)
      /\ early \in [Transfer -> Nat]
      /\ server[t].tries \in Nat /\ early[t] \in Nat /\ server[t].met \in {"answers", "silence"}
  BY TaskFields DEF AllInv, LateInv, InTime, Wait
<1>2. /\ server'[t] \in Task /\ server'[t].phase = "serving"
      /\ server'[t].packet = server[t].packet
      /\ server'[t].met = "silence"
      /\ Waits(server[t]) = 1 /\ Waits(server'[t]) = 0
  BY <1>1 DEF Wait, Serving, Task, Waits
<1>3. /\ toClient'[t] = toClient[t] /\ toServer'[t] = toServer[t]
      /\ received'[t] = received[t] /\ early'[t] \in {early[t], early[t] + 1}
  BY <1>1 DEF Wait
<1>4. /\ LivePackets(t)' = LivePackets(t) /\ LiveAnswers(t)' = LiveAnswers(t)
  BY <1>2, <1>3 DEF LivePackets, LiveAnswers
<1>5. Bags(t)' /\ Underway(t)' = Underway(t) /\ Underway(t) \in Nat
  BY <1>1, <1>3, <1>4, Counted DEF Bags, Underway
<1>6. CASE Arriving(t) = {} /\ Heard(t) = {}
  <2>1. DOMAIN toClient[t] \subseteq Int /\ DOMAIN toServer[t] \subseteq Int
    <3>1. Packets(toClient, t) \subseteq 0..server[t].packet
      BY DEF AllInv, TftpInv, InStep
    <3>2. Packets(toServer, t) \subseteq (0..Len(received[t])) \cup {Refusal}
      BY DEF AllInv, TftpInv, InStep
    <3> QED
      BY <3>1, <3>2 DEF Packets, BagToSet, Refusal
  <2>2. /\ LivePackets(t) \cap DOMAIN toClient[t] = {}
        /\ LiveAnswers(t) \cap DOMAIN toServer[t] = {}
    BY <1>6, <2>1 DEF Arriving, Heard, LivePackets, LiveAnswers, BagToSet
  <2>3. Underway(t)' = 0
    BY <1>5, <2>2, CountNone DEF Underway
  <2> QED
    BY <1>1, <1>2, <1>3, <1>5, <2>3 DEF InTime, FewLate, Serving, Unanswered
<1>7. CASE early'[t] = early[t] + 1
  BY <1>1, <1>2, <1>3, <1>5, <1>7, StaysInTime
<1> QED
  BY <1>1, <1>6, <1>7 DEF Wait

LEMMA GiveUpInTime ==
  ASSUME AllInv, NEW t \in Transfer, GiveUp(t)
  PROVE  InTime(t)'
<1>1. /\ server \in [Transfer -> Task] /\ Bags(t) /\ Serving(t) /\ FewLate(t)
      /\ early[t] \in Nat /\ server[t].met \in {"answers", "silence"}
      /\ toServer = [u \in Transfer |-> toServer[u]]
  BY TaskFields DEF AllInv, LateInv, InTime, GiveUp
<1>2. /\ server'[t].phase = "abandoned" /\ server'[t].met = server[t].met
      /\ toClient'[t] = toClient[t] /\ toServer'[t] = EmptyBag /\ early'[t] = early[t]
      /\ server[t].tries = MaxTries /\ Waits(server[t]) = 0
  BY <1>1 DEF GiveUp, Closed, Task, Tries, Waits
<1>3. server[t].met = "silence" \/ early[t] >= MaxTries
  <2>1. Late(t) \in Nat /\ MaxTries \in Nat
    BY <1>1, Counted, TftpAssumption
  <2> QED
    BY <1>1, <1>2, <2>1 DEF FewLate
<1> QED
  BY <1>1, <1>2, <1>3, EmptyIsFinite DEF InTime, Bags, Serving, Unanswered

LEMMA FailInTime ==
  ASSUME AllInv, NEW t \in Transfer, Fail(t)
  PROVE  InTime(t)'
<1>1. /\ server \in [Transfer -> Task] /\ Bags(t)
      /\ toServer = [u \in Transfer |-> toServer[u]]
  BY TaskFields DEF AllInv, LateInv, InTime
<1>2. /\ server'[t].phase = "failed"
      /\ toClient'[t] = toClient[t] /\ toServer'[t] = EmptyBag
  BY <1>1 DEF Fail, Closed, Task
<1> QED
  BY <1>1, <1>2, EmptyIsFinite DEF InTime, Bags, Serving, Unanswered

\* How the two sums follow from what a step does to the two bags.
LEMMA SumsFollow ==
  ASSUME AllInv, NEW t \in Transfer, Bags(t)',
         LivePackets(t)' \subseteq LivePackets(t),
         LiveAnswers(t)' \subseteq LiveAnswers(t),
         server'[t].packet = server[t].packet,
         NEW i \in Int, NEW j \in Int, NEW k \in Int, NEW l \in Int,
         CountOf(toClient'[t], LivePackets(t)) <= CountOf(toClient[t], LivePackets(t)) + i,
         CountOf(toServer'[t], LiveAnswers(t)) <= CountOf(toServer[t], LiveAnswers(t)) + j,
         CountOf(toClient'[t], LatePackets(t)) <= CountOf(toClient[t], LatePackets(t)) + k,
         CountOf(toServer'[t], LateAnswers(t)) <= CountOf(toServer[t], LateAnswers(t)) + l
  PROVE  /\ Underway(t)' <= Underway(t) + i + j /\ Late(t)' <= Late(t) + k + l
         /\ Underway(t)' \in Nat /\ Late(t)' \in Nat
         /\ Underway(t) \in Nat /\ Late(t) \in Nat
<1>0. FiniteBag(toClient'[t]) /\ FiniteBag(toServer'[t]) /\ Bags(t)
  BY DEF Bags, AllInv, LateInv, InTime
<1>1. /\ LatePackets(t)' \subseteq LatePackets(t)
      /\ LateAnswers(t)' \subseteq LateAnswers(t)
  BY DEF LatePackets, LateAnswers
<1>2. /\ CountOf(toClient'[t], LivePackets(t)') \in Nat
      /\ CountOf(toClient'[t], LivePackets(t)) \in Nat
      /\ CountOf(toClient'[t], LivePackets(t)') <= CountOf(toClient'[t], LivePackets(t))
  BY <1>0, CountFewer
<1>3. /\ CountOf(toServer'[t], LiveAnswers(t)') \in Nat
      /\ CountOf(toServer'[t], LiveAnswers(t)) \in Nat
      /\ CountOf(toServer'[t], LiveAnswers(t)') <= CountOf(toServer'[t], LiveAnswers(t))
  BY <1>0, CountFewer
<1>4. /\ CountOf(toClient'[t], LatePackets(t)') \in Nat
      /\ CountOf(toClient'[t], LatePackets(t)) \in Nat
      /\ CountOf(toClient'[t], LatePackets(t)') <= CountOf(toClient'[t], LatePackets(t))
  BY <1>0, <1>1, CountFewer
<1>5. /\ CountOf(toServer'[t], LateAnswers(t)') \in Nat
      /\ CountOf(toServer'[t], LateAnswers(t)) \in Nat
      /\ CountOf(toServer'[t], LateAnswers(t)') <= CountOf(toServer'[t], LateAnswers(t))
  BY <1>0, <1>1, CountFewer
<1>6. /\ Underway(t)' = CountOf(toClient'[t], LivePackets(t)')
                          + CountOf(toServer'[t], LiveAnswers(t)')
      /\ Late(t)' = CountOf(toClient'[t], LatePackets(t)')
                      + CountOf(toServer'[t], LateAnswers(t)')
      /\ Underway(t) = CountOf(toClient[t], LivePackets(t))
                         + CountOf(toServer[t], LiveAnswers(t))
      /\ Late(t) = CountOf(toClient[t], LatePackets(t))
                     + CountOf(toServer[t], LateAnswers(t))
  BY DEF Underway, Late
<1>7. /\ CountOf(toClient[t], LivePackets(t)) \in Nat
      /\ CountOf(toServer[t], LiveAnswers(t)) \in Nat
      /\ CountOf(toClient[t], LatePackets(t)) \in Nat
      /\ CountOf(toServer[t], LateAnswers(t)) \in Nat
  BY <1>0, Counted
<1>8. Underway(t)' <= Underway(t) + i + j /\ Underway(t) \in Nat /\ Underway(t)' \in Nat
  BY <1>2, <1>3, <1>6, <1>7
<1>9. Late(t)' <= Late(t) + k + l /\ Late(t) \in Nat /\ Late(t)' \in Nat
  BY <1>4, <1>5, <1>6, <1>7
<1> QED
  BY <1>8, <1>9

LEMMA LateUnderway ==
  ASSUME NEW t, Bags(t)
  PROVE  Late(t) <= Underway(t)
<1>1. CountOf(toClient[t], LatePackets(t)) <= CountOf(toClient[t], LivePackets(t))
  BY CountFewer DEF Bags, LatePackets
<1>2. CountOf(toServer[t], LateAnswers(t)) <= CountOf(toServer[t], LiveAnswers(t))
  BY CountFewer DEF Bags, LateAnswers
<1> QED
  BY <1>1, <1>2, Counted DEF Late, Underway

\* An answer that was expected ends the try and makes the others late; another
\* one uses up a try and is late no more.
LEMMA HearInTime ==
  ASSUME AllInv, NEW t \in Transfer, Hear(t)
  PROVE  InTime(t)'
<1>1. /\ server \in [Transfer -> Task] /\ Bags(t) /\ Serving(t) /\ FewLate(t)
      /\ server[t].tries \in Nat /\ early[t] \in Nat /\ server[t].met \in {"answers", "silence"}
      /\ server[t].packet \in Nat /\ server[t].phase = "serving"
      /\ toServer = [u \in Transfer |-> toServer[u]] /\ Waits(server[t]) = 1
  BY TaskFields DEF AllInv, LateInv, InTime, Hear, Serving, Waits
<1>2. PICK d \in Heard(t) :
        /\ toServer' = IF Acknowledges(t, d) /\ server[t].packet = LastPacket
                       THEN Closed(t) ELSE Removed(toServer, t, d)
        /\ IF Acknowledges(t, d) THEN Advance(t)
           ELSE server' = [server EXCEPT ![t].waiting = FALSE,
                             ![t].met = IF d = Refusal THEN "silence" ELSE @]
  BY DEF Hear
<1>3. /\ toClient'[t] = toClient[t] /\ received'[t] = received[t] /\ early'[t] = early[t]
      /\ LivePackets(t)' = LivePackets(t)
  BY DEF Hear, LivePackets
<1>4. d \in DOMAIN toServer[t] /\ d \in LiveAnswers(t) /\ d \in Int
  <2>1. Packets(toServer, t) \subseteq (0..Len(received[t])) \cup {Refusal}
    BY DEF AllInv, TftpInv, InStep
  <2> QED
    BY <1>2, <2>1 DEF Heard, LiveAnswers, Packets, BagToSet, Refusal
<1>5. /\ CountOf(toClient'[t], LivePackets(t)) <= CountOf(toClient[t], LivePackets(t)) + 0
      /\ CountOf(toClient'[t], LatePackets(t)) <= CountOf(toClient[t], LatePackets(t)) + 0
  BY <1>1, <1>3, Counted
<1>6. ASSUME toServer' = Removed(toServer, t, d)
      PROVE  /\ Bags(t)'
             /\ CountOf(toServer'[t], LiveAnswers(t))
                  <= CountOf(toServer[t], LiveAnswers(t)) + (-1)
             /\ CountOf(toServer'[t], LateAnswers(t))
                  <= CountOf(toServer[t], LateAnswers(t)) + 0
             /\ d \in LateAnswers(t) =>
                  CountOf(toServer'[t], LateAnswers(t))
                    <= CountOf(toServer[t], LateAnswers(t)) + (-1)
  <2>1. toServer'[t] = toServer[t] (-) SetToBag({d})
    BY <1>1, <1>6 DEF Removed
  <2>2. /\ FiniteBag(toServer'[t])
        /\ \A D : CountOf(toServer'[t], D) <= CountOf(toServer[t], D)
        /\ \A D : d \in D => CountOf(toServer'[t], D) <= CountOf(toServer[t], D) - 1
    BY <1>1, <1>4, <2>1, CountLess DEF Bags
  <2>3. /\ CountOf(toServer[t], LiveAnswers(t)) \in Nat
        /\ CountOf(toServer[t], LateAnswers(t)) \in Nat
    BY <1>1, Counted
  <2> QED
    BY <1>1, <1>3, <1>4, <2>2, <2>3 DEF Bags
<1>7. CASE ~Acknowledges(t, d)
  <2>1. toServer' = Removed(toServer, t, d)
    BY <1>2, <1>7
  <2>2. \/ /\ d = Refusal
           /\ server' = [server EXCEPT ![t].waiting = FALSE, ![t].met = "silence"]
        \/ /\ d # Refusal
           /\ server' = [server EXCEPT ![t].waiting = FALSE, ![t].met = @]
    BY <1>2, <1>7
  <2>3. /\ server'[t] \in Task /\ server'[t].phase = "serving"
        /\ server'[t].packet = server[t].packet /\ server'[t].tries = server[t].tries
        /\ Waits(server'[t]) = 0
        /\ d = Refusal => server'[t].met = "silence"
        /\ d # Refusal => server'[t].met = server[t].met
    <3> DEFINE met == IF d = Refusal THEN "silence" ELSE server[t].met
    <3>1. server' = [server EXCEPT ![t].waiting = FALSE, ![t].met = met]
      BY <2>2
    <3>2. server[t] \in Task /\ met \in {"answers", "silence"}
      BY <1>1 DEF Task
    <3> HIDE DEF met
    <3>3. /\ server'[t].phase = server[t].phase /\ server'[t].packet = server[t].packet
          /\ server'[t].tries = server[t].tries /\ server'[t].waiting = FALSE
          /\ server'[t].met = met
      BY <1>1, <3>1, <3>2 DEF Task
    <3>4. server'[t] \in Task
      BY <1>1, <3>1, <3>2 DEF Task
    <3>5. server'[t].phase = "serving"
      BY <1>1, <3>3
    <3>6. Waits(server'[t]) = 0
      BY <3>3 DEF Waits
    <3> QED
      BY <3>3, <3>4, <3>5, <3>6 DEF met
  <2>4. LiveAnswers(t)' = LiveAnswers(t)
    BY <2>3 DEF LiveAnswers
  <2>5. CASE d = Refusal
    <3>1. Underway(t)' <= Underway(t) + 0 + (-1)
          /\ Underway(t)' \in Nat /\ Underway(t) \in Nat
      BY <1>3, <1>5, <1>6, <2>1, <2>3, <2>4, SumsFollow
    <3>2. server'[t].met = "silence"
      BY <1>1, <2>3, <2>5
    <3> QED
      BY <1>1, <1>3, <1>6, <2>1, <2>3, <3>1, <3>2, StaysInTime
  <2>6. CASE d # Refusal
    <3>1. d \in LateAnswers(t)
      BY <1>4, <1>7, <2>6 DEF LateAnswers, Acknowledges
    <3>2. /\ Underway(t)' <= Underway(t) + 0 + (-1) /\ Late(t)' <= Late(t) + 0 + (-1)
          /\ Underway(t)' \in Nat /\ Underway(t) \in Nat
          /\ Late(t)' \in Nat /\ Late(t) \in Nat
      BY <1>3, <1>5, <1>6, <2>1, <2>3, <2>4, <3>1, SumsFollow
    <3> QED
      BY <1>1, <1>3, <1>6, <2>1, <2>3, <2>6, <3>2, StaysInTime
  <2> QED
    BY <2>5, <2>6
<1>8. CASE Acknowledges(t, d) /\ server[t].packet < LastPacket
  <2>1. /\ toServer' = Removed(toServer, t, d)
        /\ server' = [server EXCEPT ![t].packet = @ + 1, ![t].tries = 0,
                                    ![t].waiting = FALSE, ![t].met = "answers"]
    <3>1. LastPacket \in Nat
      BY PacketsOfFile DEF AllInv, TftpInv, TftpTypes
    <3> QED
      BY <1>1, <1>2, <1>8, <3>1 DEF Advance
  <2>2. /\ server'[t].phase = "serving" /\ server'[t].packet = server[t].packet + 1
        /\ server'[t].tries = 0 /\ Waits(server'[t]) = 0
    BY <1>1, <2>1 DEF Task, Waits
  <2>3. LiveAnswers(t)' \subseteq LiveAnswers(t)
    BY <1>1, <2>2, TftpAssumption DEF LiveAnswers
  <2>4. /\ CountOf(toServer'[t], LiveAnswers(t)') \in Nat
        /\ CountOf(toServer'[t], LiveAnswers(t)) \in Nat
        /\ CountOf(toServer'[t], LiveAnswers(t)') <= CountOf(toServer'[t], LiveAnswers(t))
    BY <1>6, <2>1, <2>3, CountFewer DEF Bags
  <2>5. /\ CountOf(toClient[t], LivePackets(t)) \in Nat
        /\ CountOf(toServer[t], LiveAnswers(t)) \in Nat
    BY <1>1, Counted
  <2>6. Underway(t)' = CountOf(toClient[t], LivePackets(t))
                         + CountOf(toServer'[t], LiveAnswers(t)')
    BY <1>3 DEF Underway
  <2>7. Underway(t)' <= Underway(t) - 1 /\ Underway(t) \in Nat /\ Underway(t)' \in Nat
    BY <1>6, <2>1, <2>4, <2>5, <2>6 DEF Underway
  <2>8. Underway(t) <= early[t] + 1
    BY <1>1 DEF FewLate
  <2>9. Underway(t)' <= early[t]
    BY <1>1, <2>7, <2>8
  <2>10. Late(t)' \in Nat /\ Late(t)' <= Underway(t)'
    <3>1. Bags(t)' /\ Late(t)' = CountOf(toClient'[t], LatePackets(t)')
                                   + CountOf(toServer'[t], LateAnswers(t)')
      BY <1>6, <2>1 DEF Late
    <3>2. /\ CountOf(toClient'[t], LatePackets(t)') \in Nat
          /\ CountOf(toClient'[t], LatePackets(t)') <= CountOf(toClient'[t], LivePackets(t)')
      BY <3>1, CountFewer DEF Bags, LatePackets
    <3>3. /\ CountOf(toServer'[t], LateAnswers(t)') \in Nat
          /\ CountOf(toServer'[t], LateAnswers(t)') <= CountOf(toServer'[t], LiveAnswers(t)')
      BY <3>1, CountFewer DEF Bags, LateAnswers
    <3> QED
      BY <1>3, <2>4, <2>5, <2>6, <3>1, <3>2, <3>3
  <2> QED
    BY <1>1, <1>3, <1>6, <2>1, <2>2, <2>7, <2>9, <2>10 DEF InTime, FewLate, Serving, Unanswered
<1>9. CASE Acknowledges(t, d) /\ ~(server[t].packet < LastPacket)
  <2>1. server'[t].phase = "sent"
    BY <1>1, <1>2, <1>9 DEF Advance, Task
  <2>2. Bags(t)'
    <3>1. CASE toServer' = Removed(toServer, t, d)
      BY <1>6, <3>1
    <3>2. CASE toServer' = Closed(t)
      <4>1. toServer'[t] = EmptyBag
        BY <1>1, <3>2 DEF Closed
      <4> QED
        BY <1>1, <1>3, <4>1, EmptyIsFinite DEF Bags
    <3> QED
      BY <1>2, <3>1, <3>2
  <2> QED
    BY <2>1, <2>2 DEF InTime, Serving, Unanswered
<1> QED
  BY <1>7, <1>8, <1>9

\* What the machine takes leaves its bag; what it answers is the packet it took,
\* or a refusal: neither is late if the packet was not.
LEMMA TakeInTime ==
  ASSUME AllInv, NEW t \in Transfer, Take(t)
  PROVE  InTime(t)'
<1>1. /\ Bags(t) /\ (server[t].phase = "none" => Unused(t)) /\ (Serving(t) => FewLate(t))
      /\ Unanswered(t)
  BY DEF AllInv, LateInv, InTime
<1>2. /\ server[t] \in Task /\ server[t].packet \in Nat /\ Len(received[t]) \in Nat
      /\ early[t] \in Nat /\ server[t].tries \in Nat /\ Waits(server[t]) \in {0, 1}
      /\ toClient = [u \in Transfer |-> toClient[u]]
      /\ toServer = [u \in Transfer |-> toServer[u]]
  BY TaskFields
<1>3. PICK d \in Arriving(t) :
        /\ toClient' = Removed(toClient, t, d)
        /\ Answer(t, d) \/ Answer(t, Refusal) \/ UNCHANGED toServer
  BY DEF Take
<1>4. server'[t] = server[t] /\ early'[t] = early[t]
  BY DEF Take
<1>5. d \in DOMAIN toClient[t] /\ d \in LivePackets(t) /\ d \in Int
  <2>1. Packets(toClient, t) \subseteq 0..server[t].packet
    BY DEF AllInv, TftpInv, InStep
  <2> QED
    BY <1>2, <1>3, <2>1 DEF Arriving, LivePackets, Packets, BagToSet
<1>6. LivePackets(t)' \subseteq LivePackets(t) /\ LiveAnswers(t)' = LiveAnswers(t)
  <2>1. Len(received'[t]) \in Nat /\ Len(received[t]) <= Len(received'[t])
    BY TakesTheNext DEF OnlyMachine, AllInv
  <2> QED
    BY <1>2, <1>4, <2>1, TftpAssumption DEF LivePackets, LiveAnswers
<1>7. /\ FiniteBag(toClient'[t])
      /\ \A D : CountOf(toClient'[t], D) <= CountOf(toClient[t], D)
      /\ \A D : d \in D => CountOf(toClient'[t], D) <= CountOf(toClient[t], D) - 1
  <2>1. toClient'[t] = toClient[t] (-) SetToBag({d})
    BY <1>2, <1>3 DEF Removed
  <2> QED
    BY <1>1, <1>5, <2>1, CountLess DEF Bags
<1>8. \/ toServer'[t] = toServer[t]
      \/ Serving(t) /\ \E x \in {d, Refusal} :
                          toServer'[t] = toServer[t] (+) SetToBag({x})
  BY <1>2, <1>3 DEF Answer, Added
<1>9. Bags(t)'
  <2>1. ASSUME NEW x, toServer'[t] = toServer[t] (+) SetToBag({x})
        PROVE  FiniteBag(toServer'[t])
    BY <1>1, <2>1, CountMore DEF Bags
  <2>2. CASE toServer'[t] = toServer[t]
    BY <1>1, <1>7, <2>2 DEF Bags
  <2> QED
    BY <1>7, <1>8, <2>1, <2>2 DEF Bags
<1>10. /\ CountOf(toClient[t], LivePackets(t)) \in Nat
       /\ CountOf(toClient[t], LatePackets(t)) \in Nat
       /\ CountOf(toServer[t], LiveAnswers(t)) \in Nat
       /\ CountOf(toServer[t], LateAnswers(t)) \in Nat
       /\ CountOf(toClient'[t], LivePackets(t)) \in Nat
       /\ CountOf(toClient'[t], LatePackets(t)) \in Nat
       /\ CountOf(toServer'[t], LiveAnswers(t)) \in Nat
       /\ CountOf(toServer'[t], LateAnswers(t)) \in Nat
  BY <1>1, <1>9, CountFewer DEF Bags
<1>11. ASSUME Serving(t)
       PROVE  /\ Underway(t)' <= Underway(t) /\ Late(t)' <= Late(t)
              /\ Underway(t)' \in Nat /\ Late(t)' \in Nat
              /\ Underway(t) \in Nat /\ Late(t) \in Nat
  <2>1. CountOf(toClient'[t], LivePackets(t)) <= CountOf(toClient[t], LivePackets(t)) + (-1)
    BY <1>5, <1>7, <1>10
  <2>2. CountOf(toServer'[t], LiveAnswers(t)) <= CountOf(toServer[t], LiveAnswers(t)) + 1
    <3>1. ASSUME NEW x, toServer'[t] = toServer[t] (+) SetToBag({x})
          PROVE  CountOf(toServer'[t], LiveAnswers(t))
                   <= CountOf(toServer[t], LiveAnswers(t)) + 1
      BY <1>1, <3>1, CountMore DEF Bags
    <3>2. CASE toServer'[t] = toServer[t]
      BY <1>10, <3>2
    <3> QED
      BY <1>8, <3>1, <3>2
  <2>3. server'[t].packet = server[t].packet
    BY <1>4
  <2>4. CASE d = server[t].packet
    <3>1. CountOf(toClient'[t], LatePackets(t)) <= CountOf(toClient[t], LatePackets(t)) + 0
      BY <1>7, <1>10
    <3>2. CountOf(toServer'[t], LateAnswers(t)) <= CountOf(toServer[t], LateAnswers(t)) + 0
      <4>1. ASSUME NEW x \in {d, Refusal}, toServer'[t] = toServer[t] (+) SetToBag({x})
            PROVE  CountOf(toServer'[t], LateAnswers(t))
                     = CountOf(toServer[t], LateAnswers(t))
        <5>1. x \notin LateAnswers(t)
          BY <2>4, <4>1 DEF LateAnswers
        <5> QED
          BY <1>1, <4>1, <5>1, CountMore DEF Bags
      <4>2. CASE toServer'[t] = toServer[t]
        BY <1>10, <4>2
      <4> QED
        BY <1>8, <1>10, <4>1, <4>2
    <3>3. /\ Underway(t)' <= Underway(t) + (-1) + 1 /\ Late(t)' <= Late(t) + 0 + 0
          /\ Underway(t)' \in Nat /\ Late(t)' \in Nat
          /\ Underway(t) \in Nat /\ Late(t) \in Nat
      BY <1>6, <1>9, <2>1, <2>2, <2>3, <3>1, <3>2, SumsFollow
    <3> QED
      BY <3>3
  <2>5. CASE d # server[t].packet
    <3>1. CountOf(toClient'[t], LatePackets(t)) <= CountOf(toClient[t], LatePackets(t)) + (-1)
      <4>1. d \in LatePackets(t)
        BY <1>5, <2>5 DEF LatePackets
      <4> QED
        BY <1>7, <1>10, <4>1
    <3>2. CountOf(toServer'[t], LateAnswers(t)) <= CountOf(toServer[t], LateAnswers(t)) + 1
      <4>1. ASSUME NEW x, toServer'[t] = toServer[t] (+) SetToBag({x})
            PROVE  CountOf(toServer'[t], LateAnswers(t))
                     <= CountOf(toServer[t], LateAnswers(t)) + 1
        BY <1>1, <4>1, CountMore DEF Bags
      <4>2. CASE toServer'[t] = toServer[t]
        BY <1>10, <4>2
      <4> QED
        BY <1>8, <4>1, <4>2
    <3>3. /\ Underway(t)' <= Underway(t) + (-1) + 1 /\ Late(t)' <= Late(t) + (-1) + 1
          /\ Underway(t)' \in Nat /\ Late(t)' \in Nat
          /\ Underway(t) \in Nat /\ Late(t) \in Nat
      BY <1>6, <1>9, <2>1, <2>2, <2>3, <3>1, <3>2, SumsFollow
    <3> QED
      BY <3>3
  <2> QED
    BY <2>4, <2>5
<1>12. CASE Serving(t)
  <2>1. /\ server'[t] \in Task /\ server'[t].phase = "serving" /\ early'[t] \in Nat
        /\ server'[t].tries = server[t].tries /\ Waits(server'[t]) = Waits(server[t])
        /\ server'[t].met = server[t].met
    BY <1>2, <1>4, <1>12 DEF Serving
  <2>2. Underway(t)' + early[t] + Waits(server[t])
          <= Underway(t) + early'[t] + Waits(server'[t])
    BY <1>2, <1>4, <1>11, <1>12, <2>1
  <2>3. Late(t)' + server'[t].tries + early[t] + Waits(server[t])
          <= Late(t) + server[t].tries + early'[t] + Waits(server'[t])
    BY <1>2, <1>4, <1>11, <1>12, <2>1
  <2> QED
    BY <1>9, <1>12, <2>1, <2>2, <2>3, StaysInTime
<1>13. CASE ~Serving(t)
  <2>1. server[t].phase # "none"
    BY <1>1, <1>5 DEF Unused, EmptyBag, SetToBag
  <2> QED
    BY <1>1, <1>4, <1>9, <1>13, <2>1 DEF InTime, Serving, Unanswered
<1> QED
  BY <1>12, <1>13

LEMMA LoseInTime ==
  ASSUME AllInv, NEW t \in Transfer, Lose(t)
  PROVE  InTime(t)'
<1>1. /\ Bags(t) /\ (server[t].phase = "none" => Unused(t)) /\ (Serving(t) => FewLate(t))
      /\ Unanswered(t)
  BY DEF AllInv, LateInv, InTime
<1>2. /\ server[t] \in Task /\ early[t] \in Nat /\ server[t].tries \in Nat
      /\ Waits(server[t]) \in {0, 1}
      /\ toClient = [u \in Transfer |-> toClient[u]]
      /\ toServer = [u \in Transfer |-> toServer[u]]
  BY TaskFields
<1>3. server'[t] = server[t] /\ received'[t] = received[t] /\ early'[t] = early[t]
  BY DEF Lose
<1>4. /\ LivePackets(t)' \subseteq LivePackets(t)
      /\ LiveAnswers(t)' \subseteq LiveAnswers(t)
  BY <1>3 DEF LivePackets, LiveAnswers
<1>5. PICK d : \/ /\ d \in DOMAIN toClient[t] /\ toServer'[t] = toServer[t]
                  /\ toClient'[t] = toClient[t] (-) SetToBag({d})
               \/ /\ d \in DOMAIN toServer[t] /\ toClient'[t] = toClient[t]
                  /\ toServer'[t] = toServer[t] (-) SetToBag({d})
  <2>1. \/ \E d \in DOMAIN toClient[t] :
             toClient' = Removed(toClient, t, d) /\ UNCHANGED toServer
        \/ \E d \in DOMAIN toServer[t] :
             toServer' = Removed(toServer, t, d) /\ UNCHANGED toClient
    BY DEF Lose, BagToSet
  <2> QED
    BY <1>2, <2>1 DEF Removed
<1>6. server[t].phase # "none"
  BY <1>1, <1>5 DEF Unused, EmptyBag, SetToBag
<1>7. FiniteBag(toClient[t]) /\ FiniteBag(toServer[t])
  BY <1>1 DEF Bags
<1>8. /\ FiniteBag(toClient'[t]) /\ FiniteBag(toServer'[t])
      /\ \A D : CountOf(toClient'[t], D) <= CountOf(toClient[t], D)
      /\ \A D : CountOf(toServer'[t], D) <= CountOf(toServer[t], D)
  <2>1. \A D : CountOf(toClient[t], D) \in Nat /\ CountOf(toServer[t], D) \in Nat
    BY <1>7, CountFewer
  <2>2. CASE /\ d \in DOMAIN toClient[t] /\ toServer'[t] = toServer[t]
             /\ toClient'[t] = toClient[t] (-) SetToBag({d})
    <3>1. /\ FiniteBag(toClient'[t])
          /\ \A D : CountOf(toClient'[t], D) <= CountOf(toClient[t], D)
      BY <1>7, <2>2, CountLess
    <3>2. \A D : CountOf(toServer'[t], D) <= CountOf(toServer[t], D)
      BY <2>1, <2>2
    <3> QED
      BY <1>7, <2>2, <3>1, <3>2
  <2>3. CASE /\ d \in DOMAIN toServer[t] /\ toClient'[t] = toClient[t]
             /\ toServer'[t] = toServer[t] (-) SetToBag({d})
    <3>1. /\ FiniteBag(toServer'[t])
          /\ \A D : CountOf(toServer'[t], D) <= CountOf(toServer[t], D)
      BY <1>7, <2>3, CountLess
    <3>2. \A D : CountOf(toClient'[t], D) <= CountOf(toClient[t], D)
      BY <2>1, <2>3
    <3> QED
      BY <1>7, <2>3, <3>1, <3>2
  <2> QED
    BY <1>5, <2>2, <2>3
<1>9. Bags(t)'
  BY <1>8 DEF Bags
<1>10. CASE Serving(t)
  <2>1. /\ CountOf(toClient'[t], LivePackets(t)) <= CountOf(toClient[t], LivePackets(t)) + 0
        /\ CountOf(toServer'[t], LiveAnswers(t)) <= CountOf(toServer[t], LiveAnswers(t)) + 0
        /\ CountOf(toClient'[t], LatePackets(t)) <= CountOf(toClient[t], LatePackets(t)) + 0
        /\ CountOf(toServer'[t], LateAnswers(t)) <= CountOf(toServer[t], LateAnswers(t)) + 0
    BY <1>1, <1>8, Counted
  <2>2. server'[t].packet = server[t].packet
    BY <1>3
  <2>3. /\ Underway(t)' <= Underway(t) + 0 + 0 /\ Late(t)' <= Late(t) + 0 + 0
        /\ Underway(t)' \in Nat /\ Late(t)' \in Nat
        /\ Underway(t) \in Nat /\ Late(t) \in Nat
    BY <1>4, <1>9, <2>1, <2>2, SumsFollow
  <2>4. /\ server'[t] \in Task /\ server'[t].phase = "serving" /\ early'[t] \in Nat
        /\ server'[t].tries = server[t].tries /\ Waits(server'[t]) = Waits(server[t])
        /\ server'[t].met = server[t].met
    BY <1>2, <1>3, <1>10 DEF Serving
  <2>5. Underway(t)' + early[t] + Waits(server[t])
          <= Underway(t) + early'[t] + Waits(server'[t])
    BY <1>2, <1>3, <2>3, <2>4
  <2>6. Late(t)' + server'[t].tries + early[t] + Waits(server[t])
          <= Late(t) + server[t].tries + early'[t] + Waits(server'[t])
    BY <1>2, <1>3, <2>3, <2>4
  <2> QED
    BY <1>9, <1>10, <2>4, <2>5, <2>6, StaysInTime
<1>11. CASE ~Serving(t)
  BY <1>1, <1>3, <1>6, <1>9, <1>11 DEF InTime, Serving, Unanswered
<1> QED
  BY <1>10, <1>11

LEMMA StepInTime ==
  ASSUME AllInv, [TftpNext]_tftpVars, NEW t \in Transfer
  PROVE  InTime(t)'
<1>1. /\ server \in [Transfer -> Task] /\ early \in [Transfer -> Nat]
      /\ toClient = [u \in Transfer |-> toClient[u]]
      /\ toServer = [u \in Transfer |-> toServer[u]]
      /\ received \in [Transfer -> Seq(Nat)]
  BY TaskFields DEF AllInv, TftpInv, TftpTypes
<1>3. CASE Request(t)
  BY <1>3, RequestInTime
<1>4. CASE TaskStep(t) \/ Fail(t)
  BY <1>4, SendInTime, HearInTime, WaitInTime, GiveUpInTime, FailInTime DEF TaskStep
<1>5. CASE Take(t)
  BY <1>5, TakeInTime
<1>6. CASE Lose(t)
  BY <1>6, LoseInTime
<1>7. ASSUME NEW u \in Transfer \ {t}, Request(u) \/ TaskStep(u) \/ Fail(u) \/ Take(u) \/ Lose(u)
      PROVE  InTime(t)'
  <2>1. server'[t] = server[t]
    BY <1>1, <1>7 DEF Request, TaskStep, Send, Hear, Wait, GiveUp, Fail, Advance, Take, Lose
  <2>2. toClient'[t] = toClient[t]
    BY <1>1, <1>7
    DEF Request, TaskStep, Send, Hear, Wait, GiveUp, Fail, Take, Lose, Added, Removed
  <2>3. toServer'[t] = toServer[t]
    BY <1>1, <1>7
    DEF Request, TaskStep, Send, Hear, Wait, GiveUp, Fail, Take, Answer, Lose, Added, Removed, Closed
  <2>4. received'[t] = received[t]
    BY <1>1, <1>7 DEF Request, TaskStep, Send, Hear, Wait, GiveUp, Fail, Take, Lose
  <2>5. early'[t] = early[t]
    BY <1>1, <1>7 DEF Request, TaskStep, Send, Hear, Wait, GiveUp, Fail, Take, Lose
  <2> QED
    BY <2>1, <2>2, <2>3, <2>4, <2>5, UntouchedInTime
<1>8. CASE Reset \/ UNCHANGED tftpVars
  BY <1>1, <1>8, UntouchedInTime DEF Reset, tftpVars
<1> QED
  BY <1>3, <1>4, <1>5, <1>6, <1>7, <1>8 DEF TftpNext

LEMMA InitLateInv == TftpInit => LateInv
<1> SUFFICES ASSUME TftpInit, NEW t \in Transfer
             PROVE  Bags(t) /\ Unused(t)
  BY DEF LateInv, InTime, Unused, Serving, Idle, Unanswered
<1> QED
  BY EmptyIsFinite DEF TftpInit, Bags, Unused

\* A transfer that serve_tftp_request abandons met silence or a refusal in a try
\* of its last packet, or timeouts that came too early made the service repeat
\* as many packets in the course of it as a packet has tries.
THEOREM AbandonedUnanswered == TftpSpec => []AbandonsOnlyUnanswered
<1>1. TftpInit => AllInv
  BY TftpInitInv, InitTransferInv, InitLateInv DEF AllInv
<1>2. AllInv /\ [TftpNext]_tftpVars => AllInv'
  BY StepKeepsInv, StepTransferInv, StepInTime DEF AllInv, LateInv
<1>3. AllInv => AbandonsOnlyUnanswered
  BY DEF AllInv, LateInv, InTime, Unanswered, AbandonsOnlyUnanswered
<1> QED
  BY <1>1, <1>2, <1>3, PTL DEF TftpSpec
==============================================================================
