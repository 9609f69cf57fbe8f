\* Every value of the counter, its sign bit and its wrap-around occur.
CONSTANTS
    c1 = c1
    c2 = c2
    c3 = c3
    Cpus <- MCCpus
    M = 4
    Calls <- MCCalls
    None = None
SPECIFICATION FairSpec
INVARIANT
    ReservationFresh
PROPERTIES
    ImplementsAtomicCounter
    SomebodyFinishes
