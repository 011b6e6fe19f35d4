----------------------------- MODULE FileDelivery -----------------------------
(***************************************************************************)
(* What the transfers of a boot file promise: the packets of each arrive   *)
(* in order and once, a transfer that was begun is reported as sent only   *)
(* when the machine has all of the file, and it may fail.  A request may   *)
(* also be refused: nothing of the file arrives, and yet it is reported    *)
(* as sent.  TftpTransfer implements this.                                 *)
(***************************************************************************)
EXTENDS Naturals, Sequences

CONSTANT Transfer

VARIABLES
  packets,     \* the number of packets the file is sent in
  delivered,   \* those the machine has of each transfer, in the order they came
  outcome,     \* how each transfer stands
  report       \* what is recorded of it

deliveryVars == <<packets, delivered, outcome, report>>

DeliveryInit ==
  /\ packets \in Nat \ {0}
  /\ delivered = [t \in Transfer |-> <<>>]
  /\ outcome = [t \in Transfer |-> "none"]
  /\ report = [t \in Transfer |-> "nothing"]

Begin(t) ==
  /\ outcome[t] = "none"
  /\ outcome' = [outcome EXCEPT ![t] = "serving"]
  /\ UNCHANGED <<packets, delivered, report>>

Refuse(t) ==
  /\ outcome[t] = "none"
  /\ outcome' = [outcome EXCEPT ![t] = "refused"]
  /\ report' = [report EXCEPT ![t] = "boot_file_sent"]
  /\ UNCHANGED <<packets, delivered>>

\* A packet that was under way may arrive after the transfer failed.
Deliver(t) ==
  /\ outcome[t] \in {"serving", "failed"} /\ Len(delivered[t]) < packets
  /\ delivered' = [delivered EXCEPT ![t] = Append(@, Len(@) + 1)]
  /\ UNCHANGED <<packets, outcome, report>>

ReportSent(t) ==
  /\ outcome[t] = "serving" /\ Len(delivered[t]) = packets
  /\ outcome' = [outcome EXCEPT ![t] = "sent"]
  /\ report' = [report EXCEPT ![t] = "boot_file_sent"]
  /\ UNCHANGED <<packets, delivered>>

Fail(t) ==
  /\ outcome[t] \in {"none", "serving"}
  /\ outcome' = [outcome EXCEPT ![t] = "failed"]
  /\ report' = [report EXCEPT ![t] = "tftp_failed"]
  /\ UNCHANGED <<packets, delivered>>

DeliveryNext ==
  \E t \in Transfer : Begin(t) \/ Refuse(t) \/ Deliver(t) \/ ReportSent(t) \/ Fail(t)

Delivery == DeliveryInit /\ [][DeliveryNext]_deliveryVars
==============================================================================
