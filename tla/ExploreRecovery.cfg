SPECIFICATION Spec
CONSTANTS
    MaxIds = 2
    MaxAttempts = 2
    MaxDeliveries = 0
    MaxSends = 2
    Processes = {p1}
    MayRestart = TRUE
    Outcomes = {"Delivered", "NotStarted", "NotSent", "Unknown"}
INVARIANTS
    UndeliveredIsTrue
    WaitingIsJustified
    LatestAttemptAnswered
PROPERTY ImplementsDispatchLife
\* A round that is history and whose prompts ended goes no further.
CHECK_DEADLOCK FALSE
