SPECIFICATION FairSpec
CONSTANTS
    MaxStops = 1
    MaxResults = 1
INVARIANTS ResultExactlyAtEnd NothingLeftRunning
PROPERTIES KeepsPromise RequestEndsSchedule
\* a finished schedule has nothing left to do
CHECK_DEADLOCK FALSE
