SPECIFICATION FairSpec
CONSTANTS
    MaxForks = 2
    MaxAnswers = 2
    MaxAttempts = 2
    MaxReopens = 1
    MayRestart = TRUE
    KnownAgain = TRUE
INVARIANTS TypeOK PromptMeetsRound AgentSessionStays FollowsTaken
PROPERTIES RunAheadLetsGo DiscardedGoes
CHECK_DEADLOCK FALSE
