CONSTANTS
    r1 = r1
    r2 = r2
    Requests = {r1, r2}
    Prompts <- ChunkedPrompts
    Token <- MCToken
    NumGpuBlocks = 8
    BlockSize = 1
    MaxModelLen = 7
    Policy = "priority"
    Rank <- MCRank
    AsyncScheduling = FALSE
    BatchQueueSize = 1
    MaxNumScheduledTokens = 3
    MaxNumRunningReqs = 2
    LongPrefillThreshold = 2
    MaxTokens = 2
    MinTokens = 0
    ResetRunningRequests = FALSE
    SleepCalls = {}
SPECIFICATION Spec
INVARIANTS
    ComputedKVPresent
