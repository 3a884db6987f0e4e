\* A rebuild next to the pipeline of two buyers and two units; a cancellation may be undone.
CONSTANTS
    u1 = u1
    u2 = u2
    o1 = o1
    o2 = o2
    NoOrder = NoOrder
    Users = {u1, u2}
    Orders = {o1, o2}
    BuyerOf <- TwoBuyers
    Rejected = {}
    InitStock = 2
    MaxFailed = 1
    Dying = {}
SPECIFICATION RecSpec
SYMMETRY Swap
CONSTRAINT DeliveredOnce
PROPERTIES
    RebuildRepairs
    RebuildKeepsRows
    RebuildLosesNoUnit
CHECK_DEADLOCK FALSE
