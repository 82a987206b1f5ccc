SPECIFICATION Spec
CONSTANTS
    MaxIds = 2
    MaxAttempts = 2
    MaxDeliveries = 1
    MaxSends = 1
    Files = {f1}
    Size = 1
    MaxNamed = 1
    Crashes = {"mark", "unmark"}
INVARIANT CancelGivesBack
CHECK_DEADLOCK FALSE
