SPECIFICATION Spec
CONSTANTS
    c1 = c1
    c2 = c2
    Client = {c1, c2}
    MaxProgress = 2
    Faults = {"execute"}
    AllocatesAtOnce = FALSE
SYMMETRY Symmetry
INVARIANTS TypeOK OneExecuting LockDiscipline
PROPERTY RowNeverGoesBack
CHECK_DEADLOCK FALSE
