\* One SGI, one PPI and one SPI are enabled, twice each, beside an SGI and a PPI
\* that nobody configures and whose attributes share the words of the first two.
CONSTANTS
    Sgis = {0, 1}
    Ppis = {26, 27}
    Spis = {33}
    Drivers = {1, 26, 33}
    Sources = {1, 26, 33}
    Edge = {26, 33}
    SelfNumbered = {1, 33}
    ResetWords <- MCResetWords
    MaxEnables = 2
SPECIFICATION FairSpec
INVARIANTS
    NoPanic
    EnabledAsRequested
PROPERTIES
    BystandersUntouched
    ConfigWhileDisabled
    SomebodyAcked
CHECK_DEADLOCK FALSE
