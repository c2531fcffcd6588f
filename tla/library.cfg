SPECIFICATION Spec
CONSTANTS
    Kbs = {k1, k2}
    Contents = {h1}
    Keys = {key}
    Imports = {}
    Threads = {t1, t2}
    Nothing = Nothing
    MaxDocs = 2
    MaxTrash = 1
    MaxFaults = 1
SYMMETRY Symmetry
INVARIANTS
    TypeOK
    AnswersAgree
    KeysAreReleased
    ContentReachable
    ListedIsComplete
CHECK_DEADLOCK FALSE
