SPECIFICATION Spec
CONSTANTS
    MaxIds = 2
    MaxAttempts = 1
    MaxDeliveries = 1
    MaxSends = 2
    Processes = {p1, p2}
    MayRestart = TRUE
    Outcomes = {"Delivered"}
SYMMETRY ProcessSymmetry
INVARIANT ImplementedOnce
PROPERTIES
    HistoryIsKept
    ImplementsDispatchLife
\* A round that is history and whose prompts ended goes no further.
CHECK_DEADLOCK FALSE
