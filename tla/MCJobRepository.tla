--------------------------- MODULE MCJobRepository ---------------------------
(* Instance of JobRepository for TLC. *)
EXTENDS JobRepository, TLC

Symmetry == Permutations(JobId) \cup Permutations(DeviceId)
==============================================================================
