\* Three writers, four events, two short writes that may end anywhere.
SPECIFICATION Spec
CONSTANTS
    Writers = {w1, w2, w3}
    Events = {e1, e2, e3, e4}
    Cuts = {"text", "char", "newline"}
    MaxShort = 2
CHECK_DEADLOCK FALSE
SYMMETRY Symmetry
INVARIANTS
    LogInv
    LossIsBounded
    LossIsCounted
PROPERTY ReadableStays
