\* Two workers of the digest queue, two processes, one digest.
CONSTANTS
    Attempt = {a1, a2}
    Proc = {p1, p2}
    Conn = {c1}
    Account = {acct1}
    Digest = {d1}
    None = None
    LeaseTtl = 1
    Grace = 0
    MaxRetries = 2
SPECIFICATION Spec
CONSTRAINTS OnlyDigestWork OneDesktop FewRetained
SYMMETRY Symmetry
CHECK_DEADLOCK FALSE
INVARIANTS
    TypeOK
    OneLiveCall
    NeverWrittenOff
    EveryTurnCounts
PROPERTIES
    OutcomeIsFinal
    ImplementsTurns
