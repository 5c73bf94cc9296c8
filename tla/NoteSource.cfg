CONSTANTS
    File = {f1}
    Others = TRUE
    Text <- MCText
    None = None
    Watches = {w1, w2}
    MaxNodes = 8
    MaxRetries = 1
    MaxEdits = 2
    MaxFaults = 1
SPECIFICATION Spec
CHECK_DEADLOCK FALSE
INVARIANTS
    StateNamesTheNodes
PROPERTIES
    EvictionSpares
    EditsArrive
    DeletionsArrive
