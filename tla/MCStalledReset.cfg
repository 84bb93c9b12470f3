SPECIFICATION Spec
CONSTANTS
    MaxLen = 1
    MaxResets = 1
    Events = {"stalled"}
    PreemptAt <- AllButWaitSet
    ResetAt <- BulkResetAtPoll
INVARIANTS
    ResetEndsAllTasks
