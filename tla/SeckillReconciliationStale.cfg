\* The stock is read before the lease is taken.
CONSTANTS
    u1 = u1
    u2 = u2
    o1 = o1
    o2 = o2
    NoOrder = NoOrder
    Users = {u1, u2}
    Orders = {o1, o2}
    BuyerOf <- TwoBuyers
    Rejected = {}
    InitStock = 2
    MaxFailed = 0
    Dying = {}
SPECIFICATION RecSpec
PROPERTIES
    RebuildNeverOversells
CHECK_DEADLOCK FALSE
