\* One user, two overlapping attempts, every fault.
CONSTANTS
    Users = {u1}
    Attempts = {a1, a2}
    NoUser = NoUser
    NoAttempt = NoAttempt
    MaxRetries = 1
    MaxConcurrent = 1
    MaxCrashes = 1
SPECIFICATION Spec
SYMMETRY Symmetry
INVARIANTS TypeOK NoOrphanRows ScheduledUnlessCut SemaphoreAccounting KillableContainer ReaperMissesNone
PROPERTIES KeepsPromise
