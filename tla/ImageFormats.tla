----------------------------- MODULE ImageFormats -----------------------------
(***************************************************************************)
(* What crates/service/src/image_library.rs and linux_iso.rs ask of the    *)
(* files of an image before they import it: the format, the WIM header,    *)
(* the spans, and the content of an Ubuntu installation medium.            *)
(*                                                                         *)
(* A WIM file begins with its header, whose argument is the number of its  *)
(* images.  An ISO file begins with its volume descriptor, whose argument  *)
(* is the length its extents reach, followed by the entries the inspection *)
(* looks for.                                                              *)
(***************************************************************************)
EXTENDS GhostImage

CONSTANTS
  Release,       \* the release the code supports, 24.04 LTS on amd64
  WimMaxImages   \* WIM_MAX_IMAGE_COUNT

Wim == <<"w", "i", "m">>
Swm == <<"s", "w", "m">>
Iso == <<"i", "s", "o">>

\* detect_image_format, of a name; WIM stands for ESD as well.
KnownFormats == {Gho, Wim, Swm, Iso}

WimHeaderAccepted(file) ==
  file # <<>> /\ file[1].kind = "wim" /\ file[1].arg \in 1..WimMaxImages

------------------------------------------------------------------------------
(* Spans. *)

SwmSpans(primary, names) ==
  {n \in names \ {primary} :
     /\ n.ext = Swm
     /\ SameName(SubSeq(n.stem, 1, IF Len(n.stem) < Len(primary.stem)
                                   THEN Len(n.stem) ELSE Len(primary.stem)),
                 primary.stem)}

\* reject_windows_name_collisions
NamesCollide(names) ==
  \E m, n \in names : m # n /\ SameName(m.stem, n.stem) /\ m.ext = n.ext

SpansAccepted(primary, names) ==
  CASE primary.ext = Gho -> GhostSpansAccepted(primary, names)
    [] primary.ext = Swm -> ~NamesCollide(SwmSpans(primary, names) \cup {primary})
    [] OTHER -> TRUE

Spans(primary, names) ==
  CASE primary.ext = Gho -> GhostSpans(primary, names)
    [] primary.ext = Swm -> SetToSeq(SwmSpans(primary, names))
    [] OTHER -> <<>>

------------------------------------------------------------------------------
(* linux_iso::inspect *)

EntriesNamed(file, kind) == {i \in 2..Len(file) : file[i].kind = kind}

\* find_child refuses a name that is missing or there twice, and a directory
\* that reaches beyond the medium.
FindChild(file, kind) ==
  CHOOSE i \in EntriesNamed(file, kind) : TRUE

ExtentsInside(file) == file[1].arg <= Len(file)

IsoAccepted(file) ==
  /\ file # <<>> /\ file[1].kind = "volume" /\ ExtentsInside(file)
  /\ \A kind \in {"info", "vmlinuz", "initrd"} :
       Cardinality(EntriesNamed(file, kind)) = 1
  /\ file[FindChild(file, "info")].arg = Release
  /\ file[FindChild(file, "vmlinuz")].arg > 0      \* the boot header of Linux

\* copy_file_and_hash: the boot assets, as the files extracted beside the ISO.
InstallerKernel == [stem |-> <<"installer-vmlinuz">>, ext |-> <<>>]
InstallerInitrd == [stem |-> <<"installer-initrd">>, ext |-> <<>>]

BootAssets(file) ==
  [n \in {InstallerKernel, InstallerInitrd} |->
     <<file[FindChild(file, IF n = InstallerKernel THEN "vmlinuz" ELSE "initrd")]>>]

------------------------------------------------------------------------------
(* parse_single_range of control_plane.rs: a range of a file of the given  *)
(* length, as its first and last byte.  A request has two numbers, -1 for  *)
(* one it leaves out.                                                      *)

RangeAccepted(range, total) ==
  IF range[1] = -1 THEN range[2] > 0 /\ total > 0
  ELSE range[1] < total /\ (range[2] = -1 \/ range[1] <= range[2])

Minimum(m, n) == IF m < n THEN m ELSE n

RangeOf(range, total) ==
  IF range[1] = -1 THEN <<total - Minimum(range[2], total), total - 1>>
  ELSE <<range[1], IF range[2] = -1 THEN total - 1 ELSE Minimum(range[2], total - 1)>>
==============================================================================
