SPECIFICATION Spec
CONSTANTS
    Users = {u1, u2}
    Admins = {u1}
    Unknown = unknown
    NoUser = nobody
    MaxCalls = 1
    MaxTroubles = 1
INVARIANTS TypeOK FeedIsOwn SignedOutShowsNothing ComesBack UpdatedMeansStored WaitIsAnswered SignOutReaches
PROPERTIES NeverStuck SignOutIsSeen
