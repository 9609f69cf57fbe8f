\* Eight units and requests of one, two and four: at most four blocks, every
\* merge and split occurs.  14 is the largest request that does not wrap.
CONSTANTS
    Units = 8
    WordUnits = 16
    Requests <- MCRequests
SPECIFICATION FairSpec
CHECK_DEADLOCK FALSE
INVARIANTS
    FreeListSound
    Tiling
    MagicDiscriminates
    DataIntact
PROPERTY
    CallsReturn
