\* A container the reaper cannot find any more.
CONSTANTS
    Users = {u1}
    Attempts = {a1}
    NoUser = NoUser
    NoAttempt = NoAttempt
    MaxRetries = 0
    MaxConcurrent = 1
    MaxCrashes = 0
SPECIFICATION FairSpec
PROPERTY ContainerEnds
