\* The main program starts two periodic timers, interrupted anywhere; then
\* callbacks start one-shot timers, again and again.
CONSTANTS
    p1 = p1
    p2 = p2
    o1 = o1
    o2 = o2
    HEAD = HEAD
    NULL = NULL
    Periodic <- PeriodicTimers
    OneShot <- OneShotTimers
    MainStarts <- PeriodicTimers
    CallbackStarts <- OneShotTimers
    Overlap = FALSE
SPECIFICATION FairSpec
INVARIANTS
    ListSound
    NoUseAfterFree
PROPERTIES
    TickServesDue
    TicksForever
