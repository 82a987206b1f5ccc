SPECIFICATION FairSpec
CONSTANTS
    Requests = {r1, r2}
    Observed = {r1}
    Wakeups = {w1}
    Holds = {h1}
    NoPrompt = NoPrompt
INVARIANTS
    QuietWhileDrained
    WithdrawnUnderHoldNeverSent
    CancelledNeverReached
    MarkedBeforeSubmitted
    QueuedCountsParcels
PROPERTIES
    CompletesOnce
    ImplementsLife
    HandedCompletes
    HoldDrains
\* The worker may be stopped, and the courier ends after it.
CHECK_DEADLOCK FALSE
