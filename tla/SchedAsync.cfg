CONSTANTS
    r1 = r1
    r2 = r2
    Requests = {r1, r2}
    Prompts <- MCPrompts
    Token <- MCToken
    NumGpuBlocks = 5
    BlockSize = 2
    MaxModelLen = 7
    Policy = "fcfs"
    Rank <- MCRank
    AsyncScheduling = TRUE
    BatchQueueSize = 2
    MaxNumScheduledTokens = 3
    MaxNumRunningReqs = 2
    LongPrefillThreshold = 0
    MaxTokens = 3
    MinTokens = 2
    ResetRunningRequests = FALSE
    SleepCalls <- WaitSleep
SPECIFICATION Spec
INVARIANTS
    OutputExact
    ComputedKVPresent
    PlaceholdersExact
    ComputedWithinTokens
    StepsMakeProgress
