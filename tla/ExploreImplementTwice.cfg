SPECIFICATION Spec
CONSTANTS
    MaxIds = 1
    MaxAttempts = 1
    MaxDeliveries = 3
    MaxSends = 1
    Processes = {p1}
    MayRestart = FALSE
    Outcomes = {"Delivered"}
PROPERTY
    NotImplementedTwice
\* A round that is history and whose prompts ended goes no further.
CHECK_DEADLOCK FALSE
