\* One driver asks for an edge-triggered PPI, as plat_timer_init does.
CONSTANTS
    Sgis = {0}
    Ppis = {26}
    Spis = {}
    Drivers = {26}
    Sources = {26}
    Edge = {26}
    SelfNumbered = {}
    ResetWords <- MCResetWords
    MaxEnables = 1
SPECIFICATION Spec
INVARIANT TriggerAsRequested
CHECK_DEADLOCK FALSE
