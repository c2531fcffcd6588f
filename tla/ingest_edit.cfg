SPECIFICATION Spec
CONSTANTS
    t1 = t1
    t2 = t2
    r1 = r1
    r2 = r2
    c1 = c1
    c2 = c2
    v1 = v1
    v2 = v2
    NoTask = NoTask
    NoVersion = NoVersion
    Tasks <- MCTasks
    Runners <- MCOneRunner
    Clients <- MCOneClient
    Versions <- MCVersions
    MaxAttempts <- MCMaxAttempts
    Budget <- MCBudget
    Attempts = 2
    Crashes = 0
    Lapses = 0
    Errors = 1
    Rejects = 0
    Misses = 0
    Cancels = 0
    Edits = 1
INVARIANTS IndexedMatchesContent
CHECK_DEADLOCK FALSE
