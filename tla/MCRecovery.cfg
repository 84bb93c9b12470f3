SPECIFICATION FairSpec
CONSTANTS
    MaxLen = 2
    MaxResets = 2
    Events = {"badCbw"}
    PreemptAt <- AllButWaitSet
    ResetAt <- QuietResets
INVARIANTS
    StatusAnswersCommand
    OneCommandAtATime
    ListensWhenIdle
    InvalidStaysStalled
    ResetEndsAllTasks
    AbortedSendsNoStatus
    Owned
PROPERTIES
    EveryCommandEnds
    ImplementsBulkOnlyWithResets
    SdNotReentered
