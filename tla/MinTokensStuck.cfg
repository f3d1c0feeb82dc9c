CONSTANTS
    r1 = r1
    r2 = r2
    Requests = {r1, r2}
    Prompts <- MCPrompts
    Token <- MCToken
    NumGpuBlocks = 4
    BlockSize = 2
    MaxModelLen = 6
    Policy = "fcfs"
    Rank <- MCRank
    AsyncScheduling = FALSE
    BatchQueueSize = 1
    MaxNumScheduledTokens = 3
    MaxNumRunningReqs = 2
    LongPrefillThreshold = 0
    MaxTokens = 4
    MinTokens = 4
    ResetRunningRequests = FALSE
    SleepCalls = {}
SPECIFICATION FairSpec
PROPERTIES
    EveryRequestEnds
