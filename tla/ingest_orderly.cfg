SPECIFICATION FairSpec
CONSTANTS
    t1 = t1
    t2 = t2
    r1 = r1
    r2 = r2
    c1 = c1
    c2 = c2
    v1 = v1
    v2 = v2
    NoTask = NoTask
    NoVersion = NoVersion
    Tasks <- MCTasks
    Runners <- MCRunners
    Clients <- MCOneClient
    Versions <- MCVersions
    MaxAttempts <- MCMaxAttempts
    Budget <- MCBudget
    Attempts = 5
    Crashes = 1
    Lapses = 0
    Errors = 1
    Rejects = 1
    Misses = 0
    Cancels = 0
    Edits = 1
PROPERTIES IndexedWhole RunsFollowStateMachine NoParsePaidTwice QueuedIsIndexed
CHECK_DEADLOCK FALSE
