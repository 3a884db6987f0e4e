\* A buyer asks about his order, with two dead letters, manual review and cancellations.
CONSTANTS
    u1 = u1
    o1 = o1
    NoOrder = NoOrder
    Users = {u1}
    Orders = {o1}
    BuyerOf <- OneBuyer
    Rejected = {}
    InitStock = 1
    MaxFailed = 0
    Dying = {o1}
    Asked = {o1}
SPECIFICATION PatientSpec
INVARIANTS
    StoredIsFound
    CompletedHasOrder
PROPERTIES
    FinalStates
    AnswersAdvance
    OutcomeLearned
    EventuallyPersisted
CHECK_DEADLOCK FALSE
