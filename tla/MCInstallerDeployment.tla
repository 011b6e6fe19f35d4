------------------------ MODULE MCInstallerDeployment ------------------------
(* Instance of InstallerDeployment for TLC. *)
EXTENDS InstallerDeployment
==============================================================================
