SPECIFICATION Spec
CONSTANTS
    Threads = {t1, t2}
    Rounds = {t1, t2}
    MessageIds = {m1, m2, m3, m4}
    Tabs = {me}
    NoMessage = NoMessage
    Workspaces = {w1, w2}
    NoFolder = NoFolder
    MaxMessages = 4
    MaxAcross = 2
    MaxOpens = 2
SYMMETRY Symmetry
INVARIANTS NothingLost MergeKeepsAnswers MergedAgain BackedUp RestoreBringsBack
CHECK_DEADLOCK FALSE
