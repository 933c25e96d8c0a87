\* The reaper acts on a snapshot older than the success.
CONSTANTS
    Users = {u1}
    Attempts = {a1, a2}
    NoUser = NoUser
    NoAttempt = NoAttempt
    MaxRetries = 0
    MaxConcurrent = 1
    MaxCrashes = 0
SPECIFICATION LiveSpec
PROPERTY SuccessIsFinal
