\* An attempt and its retries, by the goroutine, a handler and the reaper; a crash,
\* a deletion.
CONSTANTS
    Users = {u1}
    Attempts = {a1, a2}
    NoUser = NoUser
    NoAttempt = NoAttempt
    MaxRetries = 1
    MaxConcurrent = 1
    MaxCrashes = 1
SPECIFICATION LiveSpec
PROPERTIES RunningIsResolved DueIsServed
