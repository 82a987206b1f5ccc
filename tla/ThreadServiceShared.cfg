SPECIFICATION Spec
CONSTANTS
    Threads = {round}
    Rounds = {round}
    MessageIds = {m1, m2, m3}
    Tabs = {me, other}
    NoMessage = NoMessage
    Tab = me
    Panes = {p1}
    MaxAgents = 1
    MaxEvents = 1
    MaxMail = 1
    MayRestart = TRUE
SYMMETRY Symmetry
INVARIANTS
    PendingUntilTakenUp
    StoredOnce
PROPERTY
    LogOnlyGrows
