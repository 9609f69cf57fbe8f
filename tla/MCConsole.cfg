\* Two consoles with FIFOs of two; a callback prints as much as a FIFO holds.
\* Two vCPUs, whose guests change each class of registers twice.
CONSTANTS
    NrConsoles = 2
    FifoDepth = 2
    MainLength = 3
    IrqLength = 2
    MaxTicks = 2
    v1 = v1
    v2 = v2
    Vcpus <- MCVcpus
    READY = READY
    SUSPEND = SUSPEND
    NULL = NULL
    MaxSteps = 2
SPECIFICATION MCSpec
INVARIANTS
    OutputInOrder
    LostOnlyToTicks
PROPERTIES
    FlushMeansSent
    ContextKept
