\* Three requests of two users; keys enough for each of them to hold one.
CONSTANTS
    Users = {u1, u2}
    Requests = {r1, r2, r3}
    Inputs = {x1, x2}
    NoInput = NoInput
    DEKs = {k1, k2, k3, k4}
    NoDEK = NoDEK
    MEK = MEK
    Failed = Failed
SPECIFICATION Spec
SYMMETRY Symmetry
INVARIANTS TypeOK StoredOpens NothingOutlivesAccount FailsOnlyForCause
PROPERTY KeepsPromise
