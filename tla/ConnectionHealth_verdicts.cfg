\* Two workers whose processes may stall for any time.
CONSTANTS
    Call = {c1, c2}
    None = None
    Threshold = 3
    Cooldown = 1
    MaxCooldown = 2
    Backoff = 2
    ProbeTtl = 2
    Budget = 0
SPECIFICATION Spec
SYMMETRY Symmetry
INVARIANTS
    NeverStranded
PROPERTIES
    OustedProbesAreMute
    NewErrorSurvives
