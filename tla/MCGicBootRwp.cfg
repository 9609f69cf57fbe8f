CONSTANTS
    NrCpu = 1
    ITLines = 2
SPECIFICATION FairSpec
PROPERTY
    RwpBeforeIcenabler
CHECK_DEADLOCK FALSE
