\* Two requests at once, two addresses, one of them spelled in two ways.
CONSTANTS
    ann = ann
    Ann = Ann
    bob = bob
    Addresses = {ann, Ann, bob}
    Lower <- MCLower
    Pins = {p1, p2}
    NoPin = NoPin
    Ids = {u1, u2}
    NoId = NoId
    Tokens = {t1}
    Requests = {r1, r2}
    MaxAttempts = 1
    PinExpiry = 1
    SessionDuration = 1
SPECIFICATION Spec
SYMMETRY Symmetry
INVARIANTS TypeOK OneUserPerAddress FailsOnlyIfDeleted
PROPERTIES SessionsKept KeepsPromise
