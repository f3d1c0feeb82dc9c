CONSTANTS
    NumGpuBlocks = 4
SPECIFICATION LinkSpec
INVARIANTS
    DoublyLinked
PROPERTIES
    ImplementsQueue
