\* One write cut inside a character against the readers' promise.
SPECIFICATION Spec
CONSTANTS
    Writers = {w1, w2}
    Events = {e1, e2}
    Cuts = {"text", "char", "newline"}
    MaxShort = 1
CHECK_DEADLOCK FALSE
INVARIANT ReadingNeverRaises
