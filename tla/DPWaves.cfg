CONSTANTS
    Engine = {0, 1}
    Client = {c1}
    Request = {1, 2}
    MaxSteps = 2
    SyncInterval = 2
    MaxAborts = 1
SPECIFICATION FairSpec
INVARIANTS
    WavesAgree
    NoEngineLeftBehind
PROPERTIES
    WavesEnd
CHECK_DEADLOCK FALSE
