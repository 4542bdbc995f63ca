SPECIFICATION LiveSpec
CONSTANTS
    Lease = {k1}
    Device = {d1, d2}
    Boot = {b1}
    None = None
    SECOND = 1
    MaxBudgets = 2
    Conn = {c1, c2}
    Node = {x1}
    TtlInput = {3}
    UntilInput = {0, 12}
    MaxGrant = 1
    TopUp = {0, 1}
    Want = {1}
    MaxPerDevice = 1
    MaxConnections = 2
    MaxNow = 3
    MaxSeq = 1
    MaxFaults = 1
CHECK_DEADLOCK FALSE
PROPERTY ExpiredIsClosed
