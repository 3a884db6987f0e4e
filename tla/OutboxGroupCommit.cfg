\* Three requests, one of them refused by MySQL, one writer, batches of two.
CONSTANTS
    o1 = o1
    o2 = o2
    o3 = o3
    w1 = w1
    Requests = {o1, o2, o3}
    Refused = {o3}
    Writers = {w1}
    Capacity = 2
    BatchSize = 2
    MaxFaults = 1
SPECIFICATION LiveSpec
INVARIANTS
    GroupTypeOK
    SuccessIsDurable
PROPERTIES
    ImplementsHandoff
    FuturesComplete
    UnconfirmedIsStored
CHECK_DEADLOCK FALSE
