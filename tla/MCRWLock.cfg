\* Three CPUs; the reader count can reach one below the top bit.
CONSTANTS
    c1 = c1
    c2 = c2
    c3 = c3
    Cpus <- MCCpus3
    WriteBit = 4
SPECIFICATION FairSpec
INVARIANTS
    RWExclusion
    WordCounts
    NoLostWakeup
PROPERTY
    EveryoneServedOnceQuiet
