---------------------------- MODULE DeviceRegistry ----------------------------
(***************************************************************************)
(* crates/service/src/device_registry.rs: the list of machines known to    *)
(* the host, with the inventory each reported last and the digest of the   *)
(* token its agent must present.                                           *)
(*                                                                         *)
(* Every operation runs under one RwLock and saves the list before it      *)
(* replaces it in memory, as JobRepository does; here a save succeeds, so  *)
(* a restart of the host finds the list unchanged.  The order of the list  *)
(* is kept: lookups by MAC address answer with the first match.            *)
(*                                                                         *)
(* Abstractions: addresses are normalised; of the inventory only the MAC   *)
(* address and the disks are kept, and presence (last_seen_at) is left     *)
(* out.                                                                    *)
(***************************************************************************)
EXTENDS DeploymentJob, Sequences, FiniteSets

LOCAL Lists == INSTANCE SequencesExt

CONSTANTS
  Mac,         \* the MAC addresses machines report
  Inventory,   \* the sets of disks machines report
  Token        \* the device tokens generate_secret will draw

ASSUME RegistryAssumption ==
  /\ \A disks \in Inventory : IsFiniteSet(disks)
  /\ None \notin Token

VARIABLES
  devices     \* the list

DeviceRecord ==
  [id : DeviceId, mac : Mac, disks : Inventory,
   token : Token,      \* the token whose digest is kept
   reporter : Token]   \* history: the token under which the inventory came

RegistryTypeOK ==
  /\ devices \in Seq(DeviceRecord)
  /\ \A k, m \in DOMAIN devices : devices[k].id = devices[m].id => k = m

RegistryInit == devices = <<>>

------------------------------------------------------------------------------
Known(id)    == \E k \in DOMAIN devices : devices[k].id = id
PlaceOf(id)  == CHOOSE k \in DOMAIN devices : devices[k].id = id
RecordOf(id) == devices[PlaceOf(id)]

\* The list without the device. (retain drops every record with the id; no two
\* have it.)
Without(id) ==
  IF Known(id)
  THEN SubSeq(devices, 1, PlaceOf(id) - 1) \o SubSeq(devices, PlaceOf(id) + 1, Len(devices))
  ELSE devices

\* The position of the first record with the address, or 0.
FirstWith(mac) == Lists!SelectInSeq(devices, LAMBDA record : record.mac = mac)

\* secret_matches on the record of the device.
Authenticates(id, token) == Known(id) /\ RecordOf(id).token = token

\* Slip: the record that is replaced stays in the list.
Appended(id, record) == Append(devices, record)

\* The list once the record of the device is replaced: it moves to the end.
Replaced(id, record) == Append(Without(id), record)

\* register: a known address keeps its id, a new one gets the id given; the
\* token is always the one given.
Register(id, token, mac, disks) ==
  /\ IF FirstWith(mac) # 0 THEN id = devices[FirstWith(mac)].id ELSE ~Known(id)
  /\ devices' = Replaced(id, [id |-> id, mac |-> mac, disks |-> disks,
                              token |-> token, reporter |-> token])

\* Slip: the token is not compared.
HeartbeatOfAnyone(id, token, mac, disks) ==
  /\ Known(id)
  /\ devices' = [k \in DOMAIN devices |->
       IF devices[k].id = id
       THEN [devices[k] EXCEPT !.mac = mac, !.disks = disks, !.reporter = token]
       ELSE devices[k]]

\* heartbeat: the record takes the reported address, whoever else has it.
Heartbeat(id, token, mac, disks) ==
  /\ Authenticates(id, token)
  /\ devices' = [k \in DOMAIN devices |->
       IF devices[k].id = id
       THEN [devices[k] EXCEPT !.mac = mac, !.disks = disks, !.reporter = token]
       ELSE devices[k]]

RemoveDevice(id) == Known(id) /\ devices' = Without(id)

------------------------------------------------------------------------------
\* The inventory on record was reported by the holder of the current token: a
\* heartbeat sent before the last registration never overwrites what that
\* registration reported, however late it arrives.
InventoryIsCurrent ==
  \A k \in DOMAIN devices : devices[k].reporter = devices[k].token
==============================================================================
