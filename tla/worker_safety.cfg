SPECIFICATION FairSpec
CONSTANTS
    t1 = t1
    t2 = t2
    d1 = d1
    w1 = w1
    w2 = w2
    NoOwner = NoOwner
    NoTask = NoTask
    NoDoc = NoDoc
    Tasks <- OneTask
    Owners <- MCOwners
    Docs <- MCDocs
    DocOf <- OneDocOf
    MaxAttempts <- OneMaxAttempts
    MaxRestarts = 2
    MaxFaults = 1
INVARIANTS TypeOK RunningHasRunner
PROPERTIES ShutdownCompletes LostConsumersReturn
CHECK_DEADLOCK FALSE
