\* Six bytes of memory in words of two; 8-bit int and 10-bit long; three CPUs.
CONSTANTS
    MemSize = 6
    WordBytes = 2
    Bytes <- MCBytes
    IntSize = 256
    LongSize = 1024
    Formats <- MCFormats
    Slots <- MCSlots
    c1 = c1
    c2 = c2
    c3 = c3
    Cpus <- MCCpus
SPECIFICATION Spec
INVARIANTS
    StringContracts
    PrintfFaithful
    OnceOnly
    ZeroMeansDone
    LockedCallerSeesInit
PROPERTY
    CallReturns
CHECK_DEADLOCK FALSE
