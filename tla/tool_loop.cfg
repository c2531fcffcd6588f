SPECIFICATION Spec
CONSTANTS
    Loops = {"thread"}
    Convs = {"chat"}
    Heads = {"git"}
    TurnsOf <- MCTurnsOf
    StepsOf <- MCStepsOf
    BatchOf <- MCBatchOf
    MaxEdits = 1
INVARIANTS
    TypeOK
    EveryCallHasResult
PROPERTIES
    ExclusiveCallsAreBarriers
    CommandsRunPermitted
    AcknowledgedIsUsed
    WritesFollowPlan
    TurnsEnd
CHECK_DEADLOCK FALSE
