SPECIFICATION Spec
CONSTANTS
  Workers = {w}
  Others = {s}
  NoProc = NoProc
  Order <- MCOrder
  Kinds = {"llm"}
  Needs <- MCNeeds
  Gated = {}
  Interval = 1
  Threshold = 2
  CoolMax = 2
  Legacy = {TRUE, FALSE}
  MaxCrashes = 1
INVARIANTS OneExecution
PROPERTIES NoEarlyReplay
CHECK_DEADLOCK FALSE
