\* Two saves, two logs, two polls in flight.
CONSTANTS
    MaxSaves = 2
    MaxLogs = 2
    MaxPolls = 2
SPECIFICATION Spec
INVARIANTS TypeOK PageIsConsistent OldResultHasCause
PROPERTY PollingEnds
