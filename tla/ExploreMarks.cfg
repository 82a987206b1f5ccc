SPECIFICATION Spec
CONSTANTS
    MaxIds = 3
    MaxAttempts = 2
    MaxDeliveries = 1
    MaxSends = 1
    Files = {f1}
    Size = 1
    MaxNamed = 2
    Crashes = {"unmark"}
INVARIANTS TypeOK CancelGivesBack OwnMarksReturn
PROPERTY BoardReopensRound
CHECK_DEADLOCK FALSE
