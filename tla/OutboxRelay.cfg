\* Two relays, one of which may stop, two rows in one batch, one fault.
CONSTANTS
    r1 = r1
    r2 = r2
    Relays = {r1, r2}
    Steady = {r1}
    Rows = {1, 2}
    BatchSize = 2
    MaxFaults = 1
SPECIFICATION LiveSpec
INVARIANTS
    OutboxTypeOK
    SentIsFresh
    OneHolder
PROPERTIES
    RowsStored
CHECK_DEADLOCK FALSE
