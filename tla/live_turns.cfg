SPECIFICATION Spec
CONSTANTS
    c1 = c1
    LastTurn = 2
    Turns <- MCTurns
    Clients <- MCOnePage
    RingMax = 2
    QueueMax = 1
    First = 2
    Second = 1
    MaxEvents <- MCMaxEvents
    MaxMishaps = 1
INVARIANTS TypeOK RingIsDelivered AnchorSkipsOnlySeen ToldHowItEnded StopIsHeeded NobodyWaitsForever
CHECK_DEADLOCK FALSE
