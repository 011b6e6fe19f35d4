--------------------------- MODULE PartitionLayout ---------------------------
(***************************************************************************)
(* From a partition plan to a partitioned disk: PartitionPlan's checks in  *)
(* crates/core/src/job.rs, the DiskPart scripts prepare_layout writes in   *)
(* crates/agent/src/deployment.rs, and DiskPart running them (external:    *)
(* what the scripts rely on).                                              *)
(*                                                                         *)
(* A step of the disk is one script paragraph (create, format, assign).    *)
(* Once the first one has run the disk is clean and its data gone, so an   *)
(* error after that is what the checks are there to prevent.               *)
(*                                                                         *)
(* Abstractions: sizes are whole MiB (the code rounds the disk down and    *)
(* the image up); labels, file systems and the Windows image index are     *)
(* left out.  u64 keeps its width as MaxWord: core's additions saturate,   *)
(* prepare_layout's own sum and differences wrap, as in a release build.   *)
(***************************************************************************)
EXTENDS Integers, FiniteSets, SequencesExt

CONSTANTS
  MaxWord,            \* u64::MAX
  CacheHeadroom,      \* IMAGE_CACHE_HEADROOM_MIB
  AlignmentHeadroom,  \* PARTITION_ALIGNMENT_HEADROOM_MIB
  MinimumData,        \* MINIMUM_DATA_MIB
  MinimumWindows,     \* MINIMUM_WINDOWS_MIB
  Alignment,          \* what DiskPart may lose before each partition
  Partition,          \* the partition specs plans are made of
  MaxPartitions,      \* bound: partitions in a plan
  DiskSize, ImageSize, PayloadSize    \* bounds: the sizes submitted

\* A spec's size when it takes the remaining space (size_mib = None), and the
\* letter of a spec or volume without one.
Remaining == -1
NoLetter  == "none"

\* PartitionRole.
Role == {"efi", "msr", "system", "windows", "recovery", "data"}

\* The letters a Data partition may name: neither A to C, R nor W.
NamedLetter ==
  {"D", "E", "F", "G", "H", "I", "J", "K", "L", "M", "N", "O", "P", "Q",
   "S", "T", "U", "V", "X", "Y", "Z"}

\* Sizes are u64.  The disk's is a number of bytes divided by 2^20, which is why
\* it is less than the u64 where additions of MiB saturate.
ASSUME SizesAssumption ==
  /\ {MaxWord, CacheHeadroom, AlignmentHeadroom, MinimumData, MinimumWindows} \subseteq Nat
  /\ Partition \subseteq [role : Role, size : {Remaining} \cup 0..MaxWord, letter : STRING]
  /\ ImageSize \cup PayloadSize \subseteq 0..MaxWord
  /\ DiskSize \subseteq 0..(MaxWord - 1)

\* The headroom covers what DiskPart may lose before each partition and the
\* cache.  The letters bound their number: a script gets no further than the 21
\* a Data partition may have, Windows, the two boot partitions and the cache,
\* against 32 MiB.
ASSUME RoomForAlignment ==
  /\ Alignment \in Nat /\ MaxPartitions \in Nat
  /\ \/ AlignmentHeadroom >= Alignment * (Cardinality(NamedLetter) + 4)
     \/ AlignmentHeadroom >= Alignment * (MaxPartitions + 1)

VARIABLES
  table,     \* "gpt" or "mbr"
  plan,      \* the sequence of partition specs
  order,     \* the disk, image and payload (0: no raw payload) sizes
  volumes,   \* what is on the disk, by increasing offset
  status

layoutVars == <<table, plan, order, volumes, status>>

Roles(role) == {k \in DOMAIN plan : plan[k].role = role}
Remainder   == {k \in DOMAIN plan : plan[k].size = Remaining}

\* What a spec adds to the sum of the fixed sizes.
FixedPart(p) == IF p.size = Remaining THEN 0 ELSE p.size

------------------------------------------------------------------------------
(* PartitionPlan. *)

\* validate.
PlanIsValid ==
  /\ plan # <<>>
  /\ Cardinality(Roles("windows")) = 1
  /\ Cardinality(Remainder) = 1
  /\ \A k \in Remainder : plan[k].role \in {"windows", "data"}
  /\ \A k \in DOMAIN plan : plan[k].size # 0
  /\ \A k \in DOMAIN plan : plan[k].letter # NoLetter =>
       plan[k].role = "data" /\ plan[k].letter \in NamedLetter
  /\ \A k, m \in DOMAIN plan :
       plan[k].letter = plan[m].letter /\ plan[k].letter # NoLetter => k = m
  /\ table = "gpt" => /\ Cardinality(Roles("efi")) = 1
                      /\ Cardinality(Roles("msr")) = 1
                      /\ Roles("system") = {}
  /\ table = "mbr" => /\ Cardinality(Roles("system")) = 1
                      /\ Roles("efi") \cup Roles("msr") = {}

\* Slip: plain additions, which wrap.
WrapAdd(a, b) == (a + b) % (MaxWord + 1)

\* u64::saturating_add and saturating_sub.
SatAdd(a, b) == IF a + b <= MaxWord THEN a + b ELSE MaxWord
SatSub(a, b) == IF a >= b THEN a - b ELSE 0

FixedSize ==
  LET sum[k \in 0..Len(plan)] ==
        IF k = 0 THEN 0 ELSE SatAdd(sum[k - 1], FixedPart(plan[k]))
  IN  sum[Len(plan)]

CacheSize == SatAdd(order.image, CacheHeadroom)

RemainderIsData == \A k \in Remainder : plan[k].role = "data"

\* validate_capacity.
CapacityIsValid ==
  LET minimum == IF RemainderIsData THEN MinimumData ELSE MinimumWindows
  IN  SatAdd(SatAdd(SatAdd(FixedSize, CacheSize), minimum), AlignmentHeadroom)
        <= order.disk

\* Slip: a fixed Windows partition is not looked at.
PayloadFitsTheRest ==
  SatSub(SatSub(SatSub(order.disk, FixedSize), CacheSize), AlignmentHeadroom)
    >= order.payload

\* validate_windows_payload_capacity.
PayloadIsValid ==
  \A k \in Roles("windows") :
    IF plan[k].size # Remaining THEN plan[k].size >= order.payload
    ELSE SatSub(SatSub(SatSub(order.disk, FixedSize), CacheSize), AlignmentHeadroom)
           >= order.payload

------------------------------------------------------------------------------
(* prepare_layout. *)

\* Slip: the cache is forgotten among the primary partitions.
ExtendedWithoutCache == table = "mbr" /\ Cardinality(Roles("data")) + 2 > 4

UsesExtended == table = "mbr" /\ Cardinality(Roles("data")) + 3 > 4

\* Data partitions that need an extended container come last.
ExtendedIsLast ==
  UsesExtended => \A k, m \in DOMAIN plan :
                    plan[k].role = "data" /\ m > k => plan[m].role = "data"

LayoutIsAccepted ==
  /\ PlanIsValid
  /\ Roles("recovery") = {}
  /\ CapacityIsValid
  /\ order.payload # 0 => PayloadIsValid
  /\ ExtendedIsLast

\* remaining_mib.
RemainingSize ==
  LET fixed[k \in 0..Len(plan)] ==
        IF k = 0 THEN 0 ELSE WrapAdd(fixed[k - 1], FixedPart(plan[k]))
  IN  (order.disk - fixed[Len(plan)] - CacheSize - AlignmentHeadroom) % (MaxWord + 1)

\* The letter each partition is assigned: S boots, W is Windows, and a Data
\* partition that names none gets D.
AssignedLetter(p) ==
  CASE p.role \in {"efi", "system"} -> "S"
    [] p.role = "windows"           -> "W"
    [] p.role = "data"              -> IF p.letter = NoLetter THEN "D" ELSE p.letter
    [] OTHER                        -> NoLetter

\* The paragraphs of the script: one for each partition, then the cache.
Paragraph(k) ==
  [ role    |-> plan[k].role,
    size    |-> IF plan[k].size = Remaining THEN RemainingSize ELSE plan[k].size,
    letter  |-> AssignedLetter(plan[k]),
    logical |-> UsesExtended /\ plan[k].role = "data" ]

CacheParagraph ==
  [ role |-> "cache", size |-> CacheSize, letter |-> "R", logical |-> UsesExtended ]

Paragraphs == Len(plan) + 1
NextParagraph ==
  IF Len(volumes) < Len(plan) THEN Paragraph(Len(volumes) + 1) ELSE CacheParagraph

\* The volume the cleanup script extends: found by the letter the plan names,
\* or D, or W.
ExtendLetter ==
  IF RemainderIsData
  THEN LET p == plan[CHOOSE k \in Remainder : TRUE]
       IN  IF p.letter = NoLetter THEN "D" ELSE p.letter
  ELSE "W"

------------------------------------------------------------------------------
(* DiskPart. *)

\* The space the volumes take, each with what its alignment may lose.
Used ==
  LET sum[k \in 0..Len(volumes)] ==
        IF k = 0 THEN 0 ELSE sum[k - 1] + volumes[k].size + Alignment
  IN  sum[Len(volumes)]

\* Partition-table entries: every primary, and the container of the logicals.
Entries(vs) ==
  LET primaries == {k \in DOMAIN vs : ~vs[k].logical}
  IN  Cardinality(primaries) + (IF primaries = DOMAIN vs THEN 0 ELSE 1)

\* Once the extended container exists it holds all the free space.
DiskPartError(p) ==
  IF \/ Used + Alignment + p.size > order.disk
     \/ ~p.logical /\ \E k \in DOMAIN volumes : volumes[k].logical
  THEN "noSpace"
  ELSE IF table = "mbr" /\ Entries(Append(volumes, p)) > 4 THEN "tooManyEntries"
  ELSE IF \E k \in DOMAIN volumes :
            p.letter # NoLetter /\ volumes[k].letter = p.letter THEN "letterTaken"
  ELSE "none"

DiskError == {"noSpace", "tooManyEntries", "letterTaken", "notExtendable"}

Status == {"drafting", "refused", "partitioning", "deployed", "done"} \cup DiskError

Compose(p) ==
  /\ status = "drafting" /\ Len(plan) < MaxPartitions
  /\ plan' = Append(plan, p)
  /\ UNCHANGED <<table, order, volumes, status>>

Submit(disk, image, payload) ==
  /\ status = "drafting"
  /\ order' = [disk |-> disk, image |-> image, payload |-> payload]
  /\ status' = "partitioning"
  /\ UNCHANGED <<table, plan, volumes>>

\* prepare_layout returns an error before any script exists.
Refuse ==
  /\ status = "partitioning" /\ volumes = <<>>
  /\ ~LayoutIsAccepted
  /\ status' = "refused"
  /\ UNCHANGED <<table, plan, order, volumes>>

\* diskpart runs the next paragraph of the prepare script.
Create ==
  /\ status = "partitioning" /\ Len(volumes) < Paragraphs
  /\ volumes = <<>> => LayoutIsAccepted
  /\ LET p == NextParagraph
     IN  IF DiskPartError(p) = "none"
         THEN volumes' = Append(volumes, p) /\ UNCHANGED status
         ELSE status' = DiskPartError(p) /\ UNCHANGED volumes
  /\ UNCHANGED <<table, plan, order>>

\* The image is downloaded, applied and made to boot.
Deploy ==
  /\ status = "partitioning" /\ Len(volumes) = Paragraphs
  /\ status' = "deployed"
  /\ UNCHANGED <<table, plan, order, volumes>>

\* The cleanup script deletes the cache and extends the volume with the letter.
\* DiskPart extends a volume only into free space that directly follows it.
Cleanup ==
  LET kept == Front(volumes)
  IN  /\ status = "deployed"
      /\ volumes' = kept
      /\ status' = IF Last(kept).letter = ExtendLetter THEN "done" ELSE "notExtendable"
      /\ UNCHANGED <<table, plan, order>>

LayoutInit ==
  /\ table \in {"gpt", "mbr"} /\ plan = <<>>
  /\ order = [disk |-> 0, image |-> 0, payload |-> 0]
  /\ volumes = <<>> /\ status = "drafting"

LayoutNext ==
  \/ \E p \in Partition : Compose(p)
  \/ \E d \in DiskSize, i \in ImageSize, y \in PayloadSize : Submit(d, i, y)
  \/ Refuse \/ Create \/ Deploy \/ Cleanup

LayoutSpec == LayoutInit /\ [][LayoutNext]_layoutVars

------------------------------------------------------------------------------
(* Properties. *)

\* What validate lets a plan get wrong: two Data partitions end up with the letter
\* D, or one takes S from the boot partition; or a partition follows the one that
\* is extended when the cache behind it is gone.
LettersClash ==
  LET unnamed == {k \in Roles("data") : plan[k].letter = NoLetter}
  IN  \/ \E k \in Roles("data") : plan[k].letter = "S"
      \/ Cardinality(unnamed) > 1
      \/ unnamed # {} /\ \E k \in Roles("data") : plan[k].letter = "D"
RemainderIsLast == Remainder = {Len(plan)}

\* An accepted plan is carried out to its end once the disk is wiped: whatever
\* the sizes, their sums and the width of the arithmetic, the order of the
\* partitions, and the space DiskPart loses to alignment, DiskPart never runs out
\* of space or table entries, and stops for nothing but the two omissions above.
AcceptedPlansComplete ==
  /\ status \notin {"noSpace", "tooManyEntries"}
  /\ status = "letterTaken" => LettersClash
  /\ status = "notExtendable" => ~RemainderIsLast

\* When the image is applied, the remaining partition has at least its minimum
\* and a raw payload fits the Windows volume it is written to.
VolumesAreLargeEnough ==
  status = "deployed" =>
    \A k \in DOMAIN plan :
      /\ plan[k].size = Remaining =>
           volumes[k].size >= IF plan[k].role = "data" THEN MinimumData
                                                       ELSE MinimumWindows
      /\ plan[k].role = "windows" => volumes[k].size >= order.payload
==============================================================================
