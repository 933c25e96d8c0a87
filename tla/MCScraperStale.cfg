CONSTANTS
    Attempts = {a1, a2}
    NoAttempt = NoAttempt
    s1 = s1
    s2 = s2
    s3 = s3
    Ids = {s1, s2, s3}
    Unreadable = {s3}
    Schedule <- TwoWeeks
    FeedAge = 1
    KeepAge = 2
    MaxWeek = 0
    MaxChanges = 1
SPECIFICATION Spec
ACTION_CONSTRAINT ScriptAlone
CHECK_DEADLOCK FALSE
INVARIANT FeedFollowsPortal
