SPECIFICATION Spec
CONSTANTS
    MaxIds = 4
    MaxAttempts = 1
    MaxDeliveries = 0
    MaxSends = 1
    Processes = {p1}
    MayRestart = FALSE
    Outcomes = {"Delivered"}
INVARIANTS
    SavedRoundLoads
    CancelledIsTold
\* A round that is history and whose prompts ended goes no further.
CHECK_DEADLOCK FALSE
