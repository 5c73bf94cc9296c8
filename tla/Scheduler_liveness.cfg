SPECIFICATION FairSpec
CONSTANTS
  Workers = {w}
  Others = {}
  NoProc = NoProc
  Order <- MCOrder
  Kinds = {"llm", "embedding"}
  Needs <- MCNeeds
  Gated = {"synaptic-decay"}
  Interval = 1
  Threshold = 2
  CoolMax = 2
  Legacy = {TRUE}
  MaxCrashes = 1
PROPERTIES CircuitHeals EveryTaskAttempted
CHECK_DEADLOCK FALSE
