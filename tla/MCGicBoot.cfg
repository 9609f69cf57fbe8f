CONSTANTS
    NrCpu = 2
    ITLines = 2
SPECIFICATION FairSpec
INVARIANTS
    DistributorFirst
    FrameQuiet
PROPERTY
    BootCompletes
CHECK_DEADLOCK FALSE
