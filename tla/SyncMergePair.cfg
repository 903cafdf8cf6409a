\* Two devices and the web pages; syncs are abandoned and arrive late.
SPECIFICATION Spec
CONSTANTS
    Devices = {d1, d2}
    Records = {k1}
    Skew <- InStep
    Slip = 0
    Racing = FALSE
    Faulty = TRUE
    MaxTime = 4
    MaxEdits = 2
    MaxLate = 1
SYMMETRY DeviceSymmetry
INVARIANTS CursorIsTruthful
PROPERTIES TombstoneStays
CHECK_DEADLOCK FALSE
