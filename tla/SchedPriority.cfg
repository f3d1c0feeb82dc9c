CONSTANTS
    r1 = r1
    r2 = r2
    Requests = {r1, r2}
    Prompts <- MCPrompts
    Token <- MCToken
    NumGpuBlocks = 5
    BlockSize = 2
    MaxModelLen = 7
    Policy = "priority"
    Rank <- MCRank
    AsyncScheduling = FALSE
    BatchQueueSize = 1
    MaxNumScheduledTokens = 3
    MaxNumRunningReqs = 2
    LongPrefillThreshold = 2
    MaxTokens = 3
    MinTokens = 0
    ResetRunningRequests = TRUE
    SleepCalls <- AbortPause
SPECIFICATION Spec
INVARIANTS
    ScheduleWithinLimits
    ResumedNotInPrevStep
    OutputExact
