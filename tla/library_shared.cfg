SPECIFICATION Spec
CONSTANTS
    Kbs = {k1, k2}
    Contents = {h1}
    Keys = {}
    Imports = {}
    Threads = {t1}
    Nothing = Nothing
    MaxDocs = 2
    MaxTrash = 1
    MaxFaults = 0
INVARIANT OriginalAtHand
CHECK_DEADLOCK FALSE
