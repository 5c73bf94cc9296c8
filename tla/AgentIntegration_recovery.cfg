SPECIFICATION Spec
CONSTANTS
  Files = {f1}
  MaxRuns = 2
  MaxEdits = 0
  MaxRev = 2
  MaxFaults = 2
PROPERTIES OldWorkStops InterruptedRunsEnd StaleTokenEnds
CHECK_DEADLOCK FALSE
