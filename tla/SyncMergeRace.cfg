\* One device and the web pages; writes may land where a cursor is taken.
SPECIFICATION Spec
CONSTANTS
    Devices = {d1}
    Records = {k1}
    Skew <- InStep
    Slip = 0
    Racing = TRUE
    Faulty = FALSE
    MaxTime = 4
    MaxEdits = 2
    MaxLate = 0
SYMMETRY Symmetry
PROPERTIES TombstoneStays
CHECK_DEADLOCK FALSE
