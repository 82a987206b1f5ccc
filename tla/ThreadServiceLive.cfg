SPECIFICATION FairSpec
CONSTANTS
    Threads = {diff}
    Rounds = {}
    MessageIds = {m1}
    Tabs = {me}
    NoMessage = NoMessage
    Tab = me
    Panes = {p1}
    MaxAgents = 2
    MaxEvents = 2
    MaxMail = 2
    MayRestart = TRUE
INVARIANT NotifiedWasPrompted
PROPERTY EveryCommentSettles
