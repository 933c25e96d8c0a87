\* A tick while the user's automatic scrape still runs.
CONSTANTS
    Users = {u1}
    Attempts = {a1, a2, a3}
    NoUser = NoUser
    NoAttempt = NoAttempt
    MaxRetries = 1
    MaxConcurrent = 2
    MaxCrashes = 0
SPECIFICATION Spec
SYMMETRY Symmetry
INVARIANT OneAutomaticScrape
