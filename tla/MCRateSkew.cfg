\* Requests wait for the lock for one unit of time.
CONSTANTS
    Keys = {k1}
    NoKey = NoKey
    Procs = {p1, p2, p3}
    Limit = 2
    Window = 3
    MaxSkew = 1
    MaxTime = 8
SPECIFICATION Spec
SYMMETRY Symmetry
INVARIANTS TypeOK WindowLimit
PROPERTY DenialJustified
