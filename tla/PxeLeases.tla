------------------------------ MODULE PxeLeases ------------------------------
(***************************************************************************)
(* The DHCP side of crates/service/src/pxe.rs in standalone mode: the      *)
(* lease table, the pxe-leases.json file, the one task that reads packets, *)
(* and the start and stop of the service.                                  *)
(*                                                                         *)
(* The task handles one packet at a time: it changes the table             *)
(* (process_dhcp), answers, then writes the file, and the process may die  *)
(* between the answer and the write.  A release or a decline is not        *)
(* answered and not written, and neither is a discover that found no       *)
(* address.  A write that fails is ignored.  The file is replaced by a     *)
(* rename, so it is never torn.                                            *)
(*                                                                         *)
(* Abstractions: addresses are numbers, in the order in which the pool is  *)
(* searched.  A lease is kept with the ticks it has left instead of the    *)
(* time at which it expires, so the clock needs no bound.  Every reader of *)
(* the table first drops or skips the leases that have expired; here they  *)
(* go when they expire, from the file too.  A death between the change and *)
(* the answer is an answer lost before the death.  The options of a reply  *)
(* other than its kind and its address are left out.  ProxyDHCP, which     *)
(* leases nothing, is not modelled.                                        *)
(***************************************************************************)
EXTENDS Naturals, FiniteSets

CONSTANTS
  Machine,        \* the machines, by hardware address
  Address,        \* the addresses of the subnet, as numbers
  Pools,          \* the address pools the operator may configure
  LeaseLength     \* lease_seconds, in clock ticks

\* validate_pxe_config lets a pool pass only if it is an ordered range.  No
\* address is 0.
ASSUME LeasesAssumption ==
  /\ Address \subseteq Nat \ {0}
  /\ \A pool \in Pools : \E first, last \in Address :
        first <= last /\ pool = first..last /\ pool \subseteq Address
  /\ LeaseLength \in Nat \ {0}

VARIABLES
  leases,    \* the live lease of each machine
  saved,     \* what pxe-leases.json holds
  pool,      \* the pool of the running service, {} while it is stopped
  saving     \* whether the DHCP task has answered and not yet written the file

leaseVars == <<leases, saved, pool, saving>>

NoLease  == [ip |-> 0, left |-> 0]
Lease    == [ip : Address, left : 1..LeaseLength]
NoLeases == [m \in Machine |-> NoLease]

ServerMessage == {"offer", "ack", "nak"}

LeasesTypeOK ==
  /\ leases \in [Machine -> Lease \cup {NoLease}]
  /\ saved \in [Machine -> Lease \cup {NoLease}]
  /\ pool \in Pools \cup {{}}
  /\ saving \in BOOLEAN

LeasesInit ==
  /\ leases = NoLeases /\ saved = NoLeases
  /\ pool = {} /\ saving = FALSE

Running == pool # {}

------------------------------------------------------------------------------
(* The table. *)

NewLease(ip) == [ip |-> ip, left |-> LeaseLength]

TakenBy(others, ip) == \E k \in others : leases[k].ip = ip

\* Slip: a lease outside the pool is offered again.
KeptAnywhere(m) == leases[m].ip # 0

\* The lease allocate_lease hands out again: live, and in the pool of today.
\* Its expiry stays as it was.
Kept(m) == leases[m].ip \in pool

\* The addresses of the pool nobody has a live lease on.
Free == {ip \in pool : ~TakenBy(Machine, ip)}

\* allocate_lease, for a discover.
Offers(m, ip) ==
  \/ Kept(m) /\ ip = leases[m].ip /\ UNCHANGED leases
  \/ /\ ~Kept(m) /\ ip \in Free /\ \A other \in Free : ip <= other
     /\ leases' = [leases EXCEPT ![m] = NewLease(ip)]

\* Slip: only the requester's own lease is looked at.
AssignableUnchecked(m, ip) == ip \in pool

\* The test of assign_requested_lease.
Assignable(m, ip) == ip \in pool /\ ~TakenBy(Machine \ {m}, ip)

\* assign_requested_lease, for a request.
Assigns(m, ip) ==
  /\ Assignable(m, ip)
  /\ leases' = [leases EXCEPT ![m] = NewLease(ip)]

Refuses(m, ip) == ~Assignable(m, ip) /\ UNCHANGED leases

------------------------------------------------------------------------------
(* The task. *)

\* process_dhcp on a packet of m that asks for ip, answered with the given kind
\* and address.
Answers(m, kind, ip, answer, given) ==
  /\ Running /\ ~saving
  /\ \/ kind = "discover" /\ answer = "offer" /\ Offers(m, given)
     \/ kind = "request" /\ answer = "ack" /\ given = ip /\ Assigns(m, ip)
     \/ kind = "request" /\ answer = "nak" /\ given = 0 /\ Refuses(m, ip)
  /\ saving' = TRUE
  /\ UNCHANGED <<saved, pool>>

\* process_dhcp on a packet that gets no answer.
Absorbs(m, kind) ==
  /\ Running /\ ~saving
  /\ \/ kind = "discover" /\ ~Kept(m) /\ Free = {} /\ UNCHANGED leases
     \/ kind \in {"release", "decline"} /\ leases' = [leases EXCEPT ![m] = NoLease]
  /\ UNCHANGED <<saved, pool, saving>>

\* persist_leases writes the whole table, or fails unnoticed.
Save ==
  /\ saving /\ saving' = FALSE
  /\ saved' = leases
  /\ UNCHANGED <<leases, pool>>

SaveFails ==
  /\ saving /\ saving' = FALSE
  /\ UNCHANGED <<leases, saved, pool>>

------------------------------------------------------------------------------
(* The service. *)

\* start: the table in memory is the one of earlier runs, with any pool.
StartService ==
  /\ ~Running
  /\ pool' \in Pools
  /\ UNCHANGED <<leases, saved, saving>>

\* stop waits for the task, which ends between two packets.
StopService ==
  /\ Running /\ ~saving
  /\ pool' = {}
  /\ UNCHANGED <<leases, saved, saving>>

\* The process dies and opens the file when it starts again.
Restart ==
  /\ leases' = saved /\ pool' = {} /\ saving' = FALSE
  /\ UNCHANGED saved

\* Slip: a lease without time left stays in the table.
AgedInPlace(lease) == IF lease.left > 0 THEN [lease EXCEPT !.left = @ - 1] ELSE NoLease

\* retain: a lease goes when it has no time left.
Aged(lease) == IF lease.left > 1 THEN [lease EXCEPT !.left = @ - 1] ELSE NoLease

Tick ==
  /\ leases' = [m \in Machine |-> Aged(leases[m])]
  /\ saved' = [m \in Machine |-> Aged(saved[m])]
  /\ UNCHANGED <<pool, saving>>
==============================================================================
