SPECIFICATION Spec
CONSTANTS
    Lease = {k1, k2, k3}
    Device = {d1}
    Boot = {b1, b2}
    None = None
    SECOND = 1
    MaxBudgets = 2
    Conn = {c1, c2}
    Node = {x1}
    TtlInput = {2}
    UntilInput = {0}
    MaxGrant = 2
    TopUp = {0, 1}
    Want = {2}
    MaxPerDevice = 2
    MaxConnections = 2
    MaxNow = 1
    MaxSeq = 3
    MaxFaults = 1
CHECK_DEADLOCK FALSE
SYMMETRY Symmetric
INVARIANTS RequestAcceptable NoStrayConnection SentIsCharged
