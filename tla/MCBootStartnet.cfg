\* On macOS an injection puts aside whatever startnet.cmd the image has.
SPECIFICATION Spec
CONSTANTS
  Hosts = {"macos"}
  Scenarios <- MCScenarios
  LastVersion = 2
  MaxSessions = 4
INVARIANT VendorStartupSurvives
CHECK_DEADLOCK FALSE
