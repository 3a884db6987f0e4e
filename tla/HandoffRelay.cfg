\* Two relays, three orders of which one is refused, batches of up to three.
CONSTANTS
    r1 = r1
    r2 = r2
    o1 = o1
    o2 = o2
    o3 = o3
    Relays = {r1, r2}
    Orders = {o1, o2, o3}
    Refused = {o2}
    BatchSize = 3
    MaxFaults = 2
SPECIFICATION LiveSpec
INVARIANTS
    RelayTypeOK
    NoOrderLost
PROPERTIES
    ImplementsHandoff
    HandoffDrains
CHECK_DEADLOCK FALSE
