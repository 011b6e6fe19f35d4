-------------------------- MODULE MCPartitionLayout --------------------------
(* Instance of PartitionLayout for TLC, with the sizes scaled down. *)
EXTENDS PartitionLayout

Spec(role, size, letter) == [role |-> role, size |-> size, letter |-> letter]

\* Every role, Windows and Data of a fixed and of the remaining size, a size
\* that makes the sums overflow, and a size of zero.
Specs ==
  { Spec("efi", 1, NoLetter), Spec("msr", 1, NoLetter), Spec("system", 1, NoLetter),
    Spec("recovery", 1, NoLetter),
    Spec("windows", 3, NoLetter), Spec("windows", Remaining, NoLetter),
    Spec("data", 0, NoLetter), Spec("data", 2, "D"), Spec("data", 2, "S"), Spec("data", 2, NoLetter),
    Spec("data", MaxWord - 1, "E"), Spec("data", Remaining, "F"),
    Spec("data", Remaining, NoLetter) }
==============================================================================
