-------------------------- MODULE MCDeploymentClaims --------------------------
(* Instance of DeploymentClaims for TLC. *)
EXTENDS DeploymentClaims, TLC

CONSTANTS k1, k2

Symmetry == Permutations(Disk) \cup Permutations(Command) \cup Permutations(DeviceId)
==============================================================================
