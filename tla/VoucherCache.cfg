\* Two JVMs with a request thread and an administrator each, one change per administrator and one fault.
CONSTANTS
    j1 = j1
    j2 = j2
    r1 = r1
    r2 = r2
    a1 = a1
    a2 = a2
    NoOne = NoOne
    Missing = Missing
    Jvms = {j1, j2}
    Readers = {r1, r2}
    Admins = {a1, a2}
    JvmOf <- TwoJvms
    MaxFaults = 1
SPECIFICATION LiveSpec
INVARIANTS
    RedisMirrors
PROPERTIES
    Converges
CHECK_DEADLOCK FALSE
