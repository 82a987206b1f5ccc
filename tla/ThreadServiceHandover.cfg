SPECIFICATION Spec
CONSTANTS
    Threads = {diff}
    Rounds = {}
    MessageIds = {m1, m2}
    Tabs = {me}
    NoMessage = NoMessage
    Tab = me
    Panes = {p1, p2}
    MaxAgents = 2
    MaxEvents = 1
    MaxMail = 1
    MayRestart = TRUE
SYMMETRY Symmetry
INVARIANTS WakeupHasAccess NotForgotten
