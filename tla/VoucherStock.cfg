\* Three adjustments by -2, -1 or 1 of a stock of up to 3, and two faults.
CONSTANTS
    a1 = a1
    a2 = a2
    a3 = a3
    NoOne = NoOne
    Admins = {a1, a2, a3}
    Amounts <- SmallAmounts
    MaxStock = 3
    MaxFaults = 2
SPECIFICATION Spec
INVARIANTS
    StockAgrees
    OrdersAreCovered
CHECK_DEADLOCK FALSE
