CONSTANTS
    Attempt = {a1, a2}
    Proc = {p1, p2}
    Conn = {c1}
    Account = {acct1}
    Digest = {d1}
    None = None
    LeaseTtl = 2
    Grace = 0
    MaxRetries = 2
SPECIFICATION Spec
CHECK_DEADLOCK FALSE
CONSTRAINT OnlyDigestWork
PROPERTY NoReplay
