\* One device and the web pages; nothing fails.
SPECIFICATION Spec
CONSTANTS
    Devices = {d1}
    Records = {k1, k2}
    Skew <- InStep
    Slip = 1
    Racing = FALSE
    Faulty = FALSE
    MaxTime = 7
    MaxEdits = 3
    MaxLate = 0
SYMMETRY Symmetry
INVARIANTS TypeOK
PROPERTIES NothingIsUndone
CHECK_DEADLOCK FALSE
