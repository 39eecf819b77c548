SPECIFICATION FairSpec
CONSTANTS
    c1 = c1
    c2 = c2
    Client = {c1, c2}
    MaxProgress = 0
    Faults = {"lock"}
    AllocatesAtOnce = FALSE
PROPERTY LockGranted
CHECK_DEADLOCK FALSE
