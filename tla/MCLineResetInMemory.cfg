SPECIFICATION FairSpec
CONSTANTS
    MaxLen = 1
    MaxResets = 1
    Events = {}
    PreemptAt <- AllButWaitSet
    ResetAt <- LineResetInMemory
PROPERTIES
    EveryCommandEnds
CHECK_DEADLOCK FALSE
