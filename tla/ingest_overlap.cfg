SPECIFICATION Spec
CONSTANTS
    t1 = t1
    t2 = t2
    r1 = r1
    r2 = r2
    c1 = c1
    c2 = c2
    v1 = v1
    v2 = v2
    NoTask = NoTask
    NoVersion = NoVersion
    Tasks <- MCTasks
    Runners <- MCRunners
    Clients <- MCClients
    Versions <- MCOneVersion
    MaxAttempts <- MCMaxAttempts
    Budget <- MCBudget
    Attempts = 2
    Crashes = 0
    Lapses = 1
    Errors = 1
    Rejects = 0
    Misses = 1
    Cancels = 1
    Edits = 0
SYMMETRY Symmetry
INVARIANTS TypeOK IndexedIsSearchable OneOwner
CHECK_DEADLOCK FALSE
