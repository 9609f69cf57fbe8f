\* Three CPUs and four tickets, so the half-words wrap.
CONSTANTS
    c1 = c1
    c2 = c2
    c3 = c3
    Cpus <- MCCpus
    NTicket = 4
SPECIFICATION FairSpec
INVARIANTS
    MutualExclusion
    NoLostWakeup
    TicketInv
PROPERTIES
    OwnerOnlyReleased
    ImplementsFifoLock
    TicketServed
