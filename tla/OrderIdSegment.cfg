\* Two threads of one JVM and one of another, with every failure, under fairness.
CONSTANTS
    j1 = j1
    j2 = j2
    t1 = t1
    t2 = t2
    t3 = t3
    Jvms = {j1, j2}
    Threads = {t1, t2, t3}
    JvmOf <- TwoJvms
    Start = 10
    Step = 2
    Threshold = 1
    Limit = 15
    MaxAttempts = 2
    MaxFaults = 1
SPECIFICATION LiveSpec
INVARIANTS
    IdTypeOK
    IdsUnique
    FlagMatchesTask
PROPERTIES
    CallsEnd
CHECK_DEADLOCK FALSE
