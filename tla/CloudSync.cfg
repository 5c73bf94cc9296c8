\* One row that is new to the server or in step with it; one client; two
\* writes and one fault on top of the starts and stops, in any order.
CONSTANTS
    Node = {n1}
    Client = {c1}
    None = None
    PageSize = 1
    Tolerance = 2
    MaxWrites = 2
    MaxFaults = 1
SPECIFICATION FairSpec
CHECK_DEADLOCK FALSE
INVARIANTS
    UnsentIsMarked
    NothingSkipped
    ReconcileConverges
PROPERTIES
    EditsSurvive
    MarkedEditsArrive
