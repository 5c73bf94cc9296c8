SPECIFICATION Spec
CONSTANTS
  Files = {f1, f2}
  MaxRuns = 2
  MaxEdits = 1
  MaxRev = 1
  MaxFaults = 2
SYMMETRY FileSymmetry
INVARIANTS OneRunPerFile AppliedIsJournalled
PROPERTIES NoSecondInstall DisconnectSticks ImplementsFileTurns
CHECK_DEADLOCK FALSE
