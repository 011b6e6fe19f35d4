\* Every medium and every first directory with a restart, one command at a
\* time; a fault, and an overlap, with a plain medium; two restarts.
SPECIFICATION Spec
CONSTANTS
  Hosts = {"windows", "macos"}
  Scenarios <- MCScenarios
  LastVersion = 2
  MaxSessions = 4
INVARIANTS BootTypeOK StartsEverythingOnce ServesTheSession StaysManageable
CHECK_DEADLOCK FALSE
