SPECIFICATION CalmSpec
CONSTANTS
    t1 = t1
    t2 = t2
    d1 = d1
    w1 = w1
    w2 = w2
    NoOwner = NoOwner
    NoTask = NoTask
    NoDoc = NoDoc
    Tasks <- MCTasks
    Owners <- MCOwners
    Docs <- MCDocs
    DocOf <- MCDocOf
    MaxAttempts <- MCMaxAttempts
    MaxRestarts = 3
    MaxFaults = 1
PROPERTIES QueuedTaskEnds
CHECK_DEADLOCK FALSE
