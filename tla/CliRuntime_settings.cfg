\* The user's operations on the connection of two calls, which may belong to
\* two processes; the connection is archived and restored while one is under way.
CONSTANTS
    Attempt = {a1, a2}
    Proc = {p1, p2}
    Conn = {c1}
    Account = {acct1}
    Digest = {}
    None = None
    LeaseTtl = 1
    Grace = 0
    MaxRetries = 2
SPECIFICATION Spec
CONSTRAINTS OneDesktop NoWorkerDies SomeBackground ArchivedWithOne UnfitWithOne NoneRetained
SYMMETRY Symmetry
CHECK_DEADLOCK FALSE
PROPERTIES
    PauseIsKept
    ResumeIsSafe
