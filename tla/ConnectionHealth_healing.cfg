\* The clock runs; two workers and the user do what they like, or nothing.
CONSTANTS
    Call = {c1, c2}
    None = None
    Threshold = 2
    Cooldown = 1
    MaxCooldown = 2
    Backoff = 2
    ProbeTtl = 2
    Budget = 2
SPECIFICATION FairSpec
CONSTRAINT NoSettings
INVARIANTS
    OneProber
PROPERTIES
    SelfHeals
