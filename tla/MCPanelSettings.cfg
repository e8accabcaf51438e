SPECIFICATION Spec
CONSTANTS
    k1 = k1
    k2 = k2
    Inherit = Inherit
    None = None
    Keys <- MCKeys
    Slots <- MCSlots
    Ports = {3005}
    Levels = {"medium", "high"}
    MaxClicks = 3
    MaxRepairs = 1
    MaxRestarts = 1
INVARIANTS
    TypeOK
    ShownIsTrue
    HoldsAsTold
SYMMETRY KeySymmetry
CHECK_DEADLOCK FALSE
