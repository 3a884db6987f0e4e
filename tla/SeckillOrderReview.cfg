\* A row in manual review whose order has been persisted.
CONSTANTS
    u1 = u1
    u2 = u2
    o1 = o1
    o2 = o2
    o3 = o3
    NoOrder = NoOrder
    Users = {u1, u2}
    Orders = {o1, o2}
    BuyerOf <- TwoBuyers
    Rejected = {o2}
    InitStock = 2
    MaxFailed = 0
    Dying = {o1}
SPECIFICATION FairSpec
PROPERTIES
    ReviewResolved
CHECK_DEADLOCK FALSE
