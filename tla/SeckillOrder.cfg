\* A user with two requests and one whose order MySQL refuses, for two units; one
\* cancellation may fail or go unheard after Redis changed, and records of one order
\* may die.
CONSTANTS
    u1 = u1
    u2 = u2
    o1 = o1
    o2 = o2
    o3 = o3
    NoOrder = NoOrder
    Users = {u1, u2}
    Orders = {o1, o2, o3}
    BuyerOf <- ThreeRequests
    Rejected = {o3}
    InitStock = 2
    MaxFailed = 1
    Dying = {o1}
SPECIFICATION Spec
INVARIANTS
    TypeOK
    StockConserved
    DbLedger
    OnePermitPerUser
    PermitsEarned
PROPERTIES
    ImplementsSale
CHECK_DEADLOCK FALSE
