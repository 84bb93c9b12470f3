SPECIFICATION FairSpec
CONSTANTS
    MaxLen = 3
    MaxResets = 0
    Events = {}
    PreemptAt <- AllButWaitSet
    ResetAt <- NoReset
INVARIANTS
    TypeOK
    OneOwner
    StatusAnswersCommand
    StatusInItsPhase
    DataInItsPhase
    OneCommandAtATime
    ListensWhenIdle
    StatusStallsOnce
PROPERTIES
    EveryCommandEnds
    ImplementsBulkOnly
