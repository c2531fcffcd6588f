SPECIFICATION FairSpec
CONSTANTS
    p1 = p1
    p2 = p2
    u1 = u1
    u2 = u2
    None = None
    Scanners <- MCScanners
    Users <- MCUsers
    Kinds <- MCCron
    LastSlot = 3
    Budget <- MCBudget
    Edits = 2
    Faults = 1
INVARIANTS TypeOK EachSlotFiresOnce
PROPERTIES OnlyEnabledIsArmed DueIsRun
CHECK_DEADLOCK FALSE
