------------------------------ MODULE GhostImage ------------------------------
(***************************************************************************)
(* Ghost images: which files of a folder belong to one                     *)
(* (discover_ghost_spans of crates/service/src/image_library.rs), how they *)
(* are read as one stream, and how the partitions are taken out of it      *)
(* (crates/gho/src/lib.rs, inspect_native_gho).                            *)
(*                                                                         *)
(* A name is a stem and an extension, both sequences of characters.  A     *)
(* file is a sequence of tokens, the first its 512-byte header.  A block   *)
(* is three, so that the end of a file can fall inside it: the first byte  *)
(* of its length, the second with the first half of its data, and the      *)
(* rest.  Compression is left out: a block is its number.  Bytes that are  *)
(* read as a block and are none, or not all of one, do not decode.         *)
(***************************************************************************)
EXTENDS Integers, Sequences, FiniteSets, SequencesExt

CONSTANTS
  Capital        \* [letter -> its capital], for the letters that have one

Token(kind, arg) == [kind |-> kind, arg |-> arg]

Tokens == [kind : STRING, arg : Nat]

------------------------------------------------------------------------------
(* Names. *)

Gho == <<"g", "h", "o">>
Ghs == <<"g", "h", "s">>

DigitNames == <<"0", "1", "2", "3", "4", "5", "6", "7", "8", "9">>

IsNumber(text) == text # <<>> /\ ToSet(text) \subseteq ToSet(DigitNames)

Value(text) ==
  FoldLeft(LAMBDA n, digit : 10 * n + (CHOOSE d \in 0..9 : DigitNames[d + 1] = digit),
           0, text)

Uppercase(text) ==
  [i \in DOMAIN text |-> IF text[i] \in DOMAIN Capital THEN Capital[text[i]] ELSE text[i]]

SameName(left, right) == Uppercase(left) = Uppercase(right)

Prefix(stem) == SubSeq(stem, 1, IF Len(stem) < 5 THEN Len(stem) ELSE 5)

\* strip_name_prefix_for_windows: what follows the primary's prefix in a stem.
HasPrefix(primary, stem) ==
  SameName(SubSeq(stem, 1, IF Len(stem) < Len(Prefix(primary.stem))
                           THEN Len(stem) ELSE Len(Prefix(primary.stem))),
           Prefix(primary.stem))

Remainder(primary, stem) == SubSeq(stem, Len(Prefix(primary.stem)) + 1, Len(stem))

------------------------------------------------------------------------------
(* The spans of a primary file among the names of its folder. *)

IsGhs(primary, name) ==
  /\ name.ext = Ghs /\ HasPrefix(primary, name.stem)
  /\ IsNumber(Remainder(primary, name.stem))

IsCns(primary, name) ==
  /\ Len(name.ext) = 3 /\ IsNumber(name.ext)
  /\ SameName(name.stem, primary.stem)

Candidates(primary, names) ==
  {name \in names \ {primary} : IsGhs(primary, name) \/ IsCns(primary, name)}

\* The digits of a GHS name, 0 for the numeric extension (CNS).
Scheme(primary, name) ==
  IF IsGhs(primary, name) THEN Len(Remainder(primary, name.stem)) ELSE 0

Sequence(primary, name) ==
  Value(IF IsGhs(primary, name) THEN Remainder(primary, name.stem) ELSE name.ext)

\* reject_case_conflicting_cns_primary, reject_ambiguous_ghost_prefix.
SharesSpans(primary, other, scheme) ==
  IF scheme = 0 THEN SameName(other.stem, primary.stem)
  ELSE SameName(Prefix(other.stem), Prefix(primary.stem))

\* Slip: a gap in the numbers is not noticed.
SequenceHasNoDuplicates(primary, spans) ==
  \A m, n \in spans : Sequence(primary, m) = Sequence(primary, n) => m = n

SequenceIsComplete(primary, spans) ==
  {Sequence(primary, n) : n \in spans} = 1..Cardinality(spans)

GhostSpansAccepted(primary, names) ==
  LET spans == Candidates(primary, names)
  IN  \/ spans = {}
      \/ /\ \A n \in spans : Scheme(primary, n) \in {0, 3, 5}
         /\ \A m, n \in spans : Scheme(primary, m) = Scheme(primary, n)
         /\ \A n \in spans, other \in names \ {primary} :
              other.ext = Gho => ~SharesSpans(primary, other, Scheme(primary, n))
         /\ SequenceIsComplete(primary, spans)

\* In the order of their numbers.
GhostSpans(primary, names) ==
  LET spans == Candidates(primary, names)
      Before(n) == {m \in spans : Sequence(primary, m) < Sequence(primary, n)}
  IN  [k \in 1..Cardinality(spans) |-> CHOOSE n \in spans : Cardinality(Before(n)) = k - 1]

------------------------------------------------------------------------------
(* SpanReader::new: the files read as one stream, without the headers of   *)
(* the spans.                                                              *)

\* Slip: the header of a span is not compared with the primary's.
AnySpanHeader(primary, span) == span[1].kind = "ghs"

SpanMatches(primary, span) == span[1].kind = "ghs" /\ span[1].arg = primary[1].arg

StreamAccepted(files) ==
  /\ files[1] # <<>> /\ files[1][1].kind \in {"gho", "encrypted"}
  /\ \A i \in 2..Len(files) : files[i] # <<>> /\ SpanMatches(files[1], files[i])

Stream(files) ==
  files[1] \o FlattenSeq([i \in 1..(Len(files) - 1) |-> Tail(files[i + 1])])

------------------------------------------------------------------------------
(* parse: the records of the stream, up to the first 0023.  0603 begins a  *)
(* partition and 0703 continues it, each up to the next record.            *)

RecordAt(stream) ==
  {i \in DOMAIN stream : stream[i].kind \in {"0603", "0703", "0023", "0006"}}

Records(stream) ==
  {r \in RecordAt(stream) :
     \A i \in RecordAt(stream) : i <= r => stream[i].kind # "0023"}

Starts(stream) == {r \in Records(stream) : stream[r].kind = "0603"}

HasMagic(stream, r) == r < Len(stream) /\ stream[r + 1].kind = "magic"

ParseAccepted(stream) ==
  /\ stream[1].kind = "gho"
  /\ Starts(stream) # {}
  /\ \A r \in Starts(stream) : HasMagic(stream, r)
  /\ \A r \in Records(stream) :
       stream[r].kind = "0703" => \E s \in Starts(stream) : s < r

\* The positions after a record and before the next one (find_record).
DataOf(stream, r) ==
  {i \in (r + IF HasMagic(stream, r) THEN 2 ELSE 1)..Len(stream) :
     \A n \in RecordAt(stream) : n <= r \/ i < n}

------------------------------------------------------------------------------
(* decode_partition: the blocks of a partition.  A zero for a length ends  *)
(* the data of a record, and what follows it there is not read.  Data that *)
(* ends inside a block is refused; data that ends between two, or after    *)
(* the first byte of a length, is not.                                     *)

IsFirstHalf(stream, i) == stream[i].kind \in {"ntfs", "data"}

ReadOf(stream, r) ==
  {i \in DataOf(stream, r) :
     \A j \in DataOf(stream, r) : j <= i => stream[j].kind # "zero"}

BlocksFit(stream, r) ==
  LET data == DataOf(stream, r)
  IN  \A i \in ReadOf(stream, r) :
        \/ stream[i].kind = "byte" /\ (i + 1 \in data => IsFirstHalf(stream, i + 1))
        \/ /\ IsFirstHalf(stream, i) /\ {i - 1, i + 1} \subseteq data
           /\ stream[i - 1].kind = "byte" /\ stream[i + 1].kind = "rest"
        \/ stream[i].kind = "rest" /\ i - 1 \in data /\ IsFirstHalf(stream, i - 1)

RecordsOf(stream, start) ==
  {r \in Records(stream) :
     /\ stream[r].kind \in {"0603", "0703"} /\ start <= r
     /\ \A s \in Starts(stream) : s <= start \/ r < s}

PartitionData(stream, start) ==
  UNION {ReadOf(stream, r) : r \in RecordsOf(stream, start)}

FirstHalves(stream, start) ==
  SetToSortSeq({i \in PartitionData(stream, start) : IsFirstHalf(stream, i)}, <)

PartitionBlocks(stream, start) ==
  LET at == FirstHalves(stream, start) IN [k \in DOMAIN at |-> stream[at[k]].arg]

\* The expanded data of a partition begins with the name of its file system.
IsNtfs(stream, start) ==
  LET at == FirstHalves(stream, start) IN at # <<>> /\ stream[at[1]].kind = "ntfs"

\* inspect_native_gho: the partitions that can be deployed, {} if the image is
\* blocked.
NtfsPartitions(files) ==
  LET stream == Stream(files)
  IN  IF /\ StreamAccepted(files) /\ ParseAccepted(stream)
         /\ \A s \in Starts(stream), r \in Records(stream) :
              r \in RecordsOf(stream, s) => BlocksFit(stream, r)
      THEN {[source |-> Cardinality({q \in Starts(stream) : q <= s}),
             blocks |-> PartitionBlocks(stream, s)] :
              s \in {t \in Starts(stream) : IsNtfs(stream, t)}}
      ELSE {}
==============================================================================
