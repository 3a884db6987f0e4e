\* Two JVMs with a request thread each, one change of a shop, its first save or an update, and one fault.
CONSTANTS
    j1 = j1
    j2 = j2
    r1 = r1
    r2 = r2
    NoOne = NoOne
    Jvms = {j1, j2}
    Readers = {r1, r2}
    JvmOf <- TwoJvms
    MaxVersion = 2
    MaxChanges = 1
    MaxFaults = 1
SPECIFICATION LiveSpec
INVARIANTS
    ShopTypeOK
    RefillsAreFresh
    ChangeIsKept
PROPERTIES
    ReachesEveryJvm
CHECK_DEADLOCK FALSE
