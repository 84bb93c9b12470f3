SPECIFICATION Spec
CONSTANTS
    MaxLen = 1
    MaxResets = 1
    Events = {}
    PreemptAt <- AllButWaitSet
    ResetAt <- BulkResetAtAck
INVARIANTS
    AbortedSendsNoStatus
