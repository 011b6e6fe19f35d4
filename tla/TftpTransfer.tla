----------------------------- MODULE TftpTransfer -----------------------------
(***************************************************************************)
(* The TFTP side of crates/service/src/pxe.rs: run_tftp, one task for each *)
(* read request (serve_tftp_request), its sends and waits                  *)
(* (send_tftp_with_ack).  The machine that boots is external: firmware or  *)
(* iPXE, which answers each packet of the transfer it takes part in and    *)
(* repeats its request when it hears nothing.                              *)
(*                                                                         *)
(* The network loses, delays and reorders datagrams.  A try of a packet    *)
(* ends with the first datagram that arrives, whichever it is, or with the *)
(* timeout; a timeout may come while the answer is still on its way.       *)
(*                                                                         *)
(* Abstractions: one machine asks for one file.  A packet is named by its  *)
(* position, 0 for the option acknowledgement, and carries the position    *)
(* modulo the width of the block number.  The list of discovered machines, *)
(* which only the desktop shows, is left out.                              *)
(***************************************************************************)
EXTENDS Integers, Sequences, FiniteSets, Bags

CONSTANTS
  Transfer,      \* the requests the service receives, 1..n: a bound
  FileSize,      \* bound: the sizes of the file
  BlockSize,     \* blksize, 512 unless the request names one
  Modulus,       \* the block number is counted modulo this, 2^16
  MaxTries,      \* of a packet: 4
  MaxFaults      \* bound: datagrams the network loses, and timeouts that come
                 \* before an answer on its way

ASSUME TftpAssumption ==
  /\ Transfer \subseteq Nat \ {0} /\ Transfer = 1..Cardinality(Transfer)
  /\ FileSize \subseteq Nat /\ BlockSize \in Nat \ {0} /\ Modulus \in Nat \ {0, 1}
  /\ MaxTries \in Nat \ {0} /\ MaxFaults \in Nat

VARIABLES
  size,        \* the file's size when it was opened
  options,     \* whether the request names options
  server,      \* the task of each transfer
  toClient,    \* the packets of each transfer on their way to the machine
  toServer,    \* the datagrams on their way to, or in, each transfer's socket
  chosen,      \* the transfer the machine takes part in, 0: none
  received,    \* the data packets the machine took from each transfer
  early,       \* history: the timeouts of each transfer that came before a
               \* datagram on its way
  faults       \* losses and early timeouts so far

tftpVars ==
  <<size, options, server, toClient, toServer, chosen, received, early, faults>>

fileVars == <<size, options>>

------------------------------------------------------------------------------
(* The file, cut into packets. *)

DataPackets == (size + BlockSize - 1) \div BlockSize

\* Slip: no empty packet after a file that fills its last block.
LastPacketWithData == DataPackets

\* The machine takes a packet shorter than BlockSize for the last one.
LastPacket == DataPackets + (IF size % BlockSize = 0 THEN 1 ELSE 0)

IsShort(k) == size - (k - 1) * BlockSize < BlockSize

\* block.wrapping_add(1)
Number(k) == k % Modulus

\* Slip: one try more.
TriesAndOne == MaxTries + 1

\* send_tftp_with_ack: for _ in 0..4.
Tries == MaxTries

------------------------------------------------------------------------------
(* The tasks. *)

\* What a socket hears from a machine that takes part in another transfer.
Refusal == -1

\* refused: answered with an error packet, or not at all.  abandoned: a packet
\* was not acknowledged.  failed: an I/O error.
Phase == {"none", "serving", "sent", "refused", "abandoned", "failed"}

\* What run_tftp records once the task ended.  A refused request is no error of
\* serve_tftp_request, and counts as sent.
Recorded(t) ==
  CASE server[t].phase \in {"sent", "refused"}     -> "boot_file_sent"
    [] server[t].phase \in {"abandoned", "failed"} -> "tftp_failed"
    [] OTHER                                       -> "nothing"

\* packet is sent for the tries-th time; waiting: for its answer.  met: what
\* the tries of this packet met, "silence" once the timeout or a refusal ended one.
Idle == [phase |-> "none", packet |-> 0, tries |-> 0, waiting |-> FALSE, met |-> "answers"]

Serving(t) == server[t].phase = "serving"

TftpTypeOK ==
  /\ size \in FileSize /\ options \in BOOLEAN
  /\ server \in [Transfer -> [phase : Phase, packet : Nat, tries : 0..MaxTries,
                              waiting : BOOLEAN, met : {"answers", "silence"}]]
  /\ \A t \in Transfer :
       /\ server[t].packet \in 0..LastPacket
       /\ BagToSet(toClient[t]) \subseteq 0..LastPacket
       /\ BagToSet(toServer[t]) \subseteq (0..LastPacket) \cup {Refusal}
       /\ received[t] \in Seq(1..LastPacket)
  /\ chosen \in Transfer \cup {0}
  /\ early \in [Transfer -> 0..MaxFaults] /\ faults \in 0..MaxFaults

TftpInit ==
  /\ size \in FileSize /\ options \in BOOLEAN
  /\ server = [t \in Transfer |-> Idle]
  /\ toClient = [t \in Transfer |-> EmptyBag]
  /\ toServer = [t \in Transfer |-> EmptyBag]
  /\ chosen = 0
  /\ received = [t \in Transfer |-> <<>>]
  /\ early = [t \in Transfer |-> 0] /\ faults = 0

Added(bags, t, d)   == [bags EXCEPT ![t] = @ (+) SetToBag({d})]
Removed(bags, t, d) == [bags EXCEPT ![t] = @ (-) SetToBag({d})]

\* What can still arrive: a datagram older than a round of block numbers,
\* with 16 bits at least half a megabyte of the file, is lost.
Arriving(t) == {d \in BagToSet(toClient[t]) : Len(received[t]) + 1 - d < Modulus}
Heard(t)    == {d \in BagToSet(toServer[t]) :
                  d = Refusal \/ server[t].packet - d < Modulus}

\* The socket of a task that ended is closed.
Closed(t) == [toServer EXCEPT ![t] = EmptyBag]

\* run_tftp receives a request of the machine, the first, a repeated or a delayed
\* one, and spawns a task for it.  The task serves the file, refuses (a write, a
\* malformed request, an unsafe or missing path) or fails before its first packet
\* (the root, the file or the socket does not open).
Request(t) ==
  /\ server[t].phase = "none"
  /\ t > 1 => server[t - 1].phase # "none"
  /\ \/ server' = [server EXCEPT ![t].phase = "serving",
                                 ![t].packet = IF options THEN 0 ELSE 1]
     \/ server' = [server EXCEPT ![t].phase = "refused"]
     \/ server' = [server EXCEPT ![t].phase = "failed"]
  /\ UNCHANGED <<fileVars, toClient, toServer, chosen, received, early, faults>>

\* Slip: the packet is repeated until it is acknowledged.
UncountedTry(n) == n

CountedTry(n) == n + 1

Send(t) ==
  /\ Serving(t) /\ ~server[t].waiting /\ server[t].tries < Tries
  /\ toClient' = Added(toClient, t, server[t].packet)
  /\ server' = [server EXCEPT ![t].tries = CountedTry(@), ![t].waiting = TRUE]
  /\ UNCHANGED <<fileVars, toServer, chosen, received, early, faults>>

\* The file cannot be read, or the packet not be sent: the task ends at once.
Fail(t) ==
  /\ Serving(t) /\ ~server[t].waiting /\ server[t].tries < Tries
  /\ server' = [server EXCEPT ![t].phase = "failed"]
  /\ toServer' = Closed(t)
  /\ UNCHANGED <<fileVars, toClient, chosen, received, early, faults>>

Acknowledges(t, d) == d # Refusal /\ Number(d) = Number(server[t].packet)

\* Slip: the tries are counted for the whole transfer.
AdvanceKeepingTries(t) ==
  IF server[t].packet < LastPacket
  THEN server' = [server EXCEPT ![t].packet = @ + 1,
                                ![t].waiting = FALSE, ![t].met = "answers"]
  ELSE server' = [server EXCEPT ![t].phase = "sent", ![t].waiting = FALSE]

\* The packet was acknowledged: the next one, or the end of the transfer.
Advance(t) ==
  IF server[t].packet < LastPacket
  THEN server' = [server EXCEPT ![t].packet = @ + 1, ![t].tries = 0,
                                ![t].waiting = FALSE, ![t].met = "answers"]
  ELSE server' = [server EXCEPT ![t].phase = "sent", ![t].waiting = FALSE]

\* A datagram arrives and ends the try.
Hear(t) ==
  /\ Serving(t) /\ server[t].waiting
  /\ \E d \in Heard(t) :
       /\ toServer' = IF Acknowledges(t, d) /\ server[t].packet = LastPacket
                      THEN Closed(t) ELSE Removed(toServer, t, d)
       /\ IF Acknowledges(t, d) THEN Advance(t)
          ELSE server' = [server EXCEPT ![t].waiting = FALSE,
                                        ![t].met = IF d = Refusal THEN "silence" ELSE @]
  /\ UNCHANGED <<fileVars, toClient, chosen, received, early, faults>>

\* The timeout ends the try.
Wait(t) ==
  /\ Serving(t) /\ server[t].waiting
  /\ IF Arriving(t) = {} /\ Heard(t) = {} THEN UNCHANGED <<early, faults>>
     ELSE /\ faults < MaxFaults /\ faults' = faults + 1
          /\ early' = [early EXCEPT ![t] = @ + 1]
  /\ server' = [server EXCEPT ![t].waiting = FALSE, ![t].met = "silence"]
  /\ UNCHANGED <<fileVars, toClient, toServer, chosen, received>>

GiveUp(t) ==
  /\ Serving(t) /\ ~server[t].waiting /\ server[t].tries = Tries
  /\ server' = [server EXCEPT ![t].phase = "abandoned"]
  /\ toServer' = Closed(t)
  /\ UNCHANGED <<fileVars, toClient, chosen, received, early, faults>>

------------------------------------------------------------------------------
(* The machine and the network (external). *)

Finished(t) == received[t] # <<>> /\ IsShort(received[t][Len(received[t])])

Answer(t, d) ==
  toServer' = IF Serving(t) THEN Added(toServer, t, d) ELSE toServer

\* A packet arrives.  The machine joins the transfer it hears first, answers the
\* packet it expects and repeats its answer to the one before, and may refuse
\* the packets of other transfers.
Take(t) ==
  /\ \E d \in Arriving(t) :
       /\ toClient' = Removed(toClient, t, d)
       /\ LET joins    == chosen = 0 /\ d <= 1
              last     == Len(received[t])
              expected == d # 0 /\ Number(d) = Number(last + 1) /\ ~Finished(t)
              repeated == Number(d) = Number(last)
          IN  /\ chosen' = IF joins THEN t ELSE chosen
              /\ received' = IF (joins \/ chosen = t) /\ expected
                             THEN [received EXCEPT ![t] = Append(@, d)] ELSE received
              /\ \/ chosen' = t /\ (expected \/ repeated) /\ Answer(t, d)
                 \/ /\ chosen' # t /\ chosen' # 0
                    /\ Answer(t, Refusal) \/ UNCHANGED toServer
                 \/ /\ chosen' = 0 \/ (chosen' = t /\ ~expected /\ ~repeated)
                    /\ UNCHANGED toServer
  /\ UNCHANGED <<fileVars, server, early, faults>>

\* The machine is reset before it has the file, and may ask again.
Reset ==
  /\ chosen # 0 /\ ~Finished(chosen)
  /\ \E t \in Transfer : server[t].phase = "none"
  /\ chosen' = 0
  /\ UNCHANGED <<fileVars, server, toClient, toServer, received, early, faults>>

Lose(t) ==
  /\ faults < MaxFaults
  /\ \/ /\ \E d \in BagToSet(toClient[t]) : toClient' = Removed(toClient, t, d)
        /\ UNCHANGED toServer
     \/ /\ \E d \in BagToSet(toServer[t]) : toServer' = Removed(toServer, t, d)
        /\ UNCHANGED toClient
  /\ faults' = faults + 1
  /\ UNCHANGED <<fileVars, server, chosen, received, early>>

------------------------------------------------------------------------------

TaskStep(t) == Send(t) \/ Hear(t) \/ Wait(t) \/ GiveUp(t)

TftpNext ==
  \/ \E t \in Transfer : Request(t) \/ TaskStep(t) \/ Fail(t) \/ Take(t) \/ Lose(t)
  \/ Reset

TftpSpec == TftpInit /\ [][TftpNext]_tftpVars

\* The runtime runs every task whose datagram has arrived or whose timer fired,
\* and the network delivers what it does not lose.
FairTftpSpec ==
  TftpSpec /\ \A t \in Transfer : WF_tftpVars(TaskStep(t)) /\ WF_tftpVars(Take(t))

------------------------------------------------------------------------------
(* Properties. *)

Delivered ==
  INSTANCE FileDelivery WITH
    packets   <- size \div BlockSize + 1,
    delivered <- received,
    outcome   <- [t \in Transfer |->
                    IF server[t].phase = "abandoned" THEN "failed" ELSE server[t].phase],
    report    <- [t \in Transfer |-> Recorded(t)]

\* Whatever is lost, delayed, reordered or asked for twice, and although the
\* block number wraps, a transfer that was begun and is recorded as
\* boot_file_sent has put every packet of the file into the machine once, in
\* order, the short one that tells it the end included: also when the file is
\* empty or fills its last block.  (A request that was refused is recorded as
\* boot_file_sent too, and has delivered nothing.)
ImplementsDelivery == Delivered!Delivery

\* A transfer is only abandoned when a try of its last packet met silence or a
\* refusal, or when timeouts that came too early made the service repeat at
\* least MaxTries packets in the course of it: each leaves one answer too many,
\* which uses up a try of some later packet, and it takes as many as there are
\* tries to end a transfer whose machine answers everything.
AbandonsOnlyUnanswered ==
  \A t \in Transfer :
    server[t].phase = "abandoned" => server[t].met = "silence" \/ early[t] >= MaxTries

\* Every transfer ends, whatever the machine does: its task and its socket do not
\* outlive a machine that was switched off.
TransfersEnd ==
  []<>(\A t \in Transfer : ~Serving(t))
==============================================================================
