SPECIFICATION Spec
CONSTANTS
    t1 = t1
    t2 = t2
    t3 = t3
    d1 = d1
    w1 = w1
    w2 = w2
    NoOwner = NoOwner
    NoTask = NoTask
    NoDoc = NoDoc
    Tasks <- MCTasks
    Owners <- MCOwners
    Docs <- MCDocs
    DocOf <- MCDocOf
    MaxAttempts <- MCMaxAttempts
SYMMETRY OwnerSymmetry
INVARIANTS TypeOK LeaseMatchesState NameFencesAttempt AttemptsBudget
PROPERTIES LiveLeaseIsRespected ImplementsLifecycle
CHECK_DEADLOCK FALSE
