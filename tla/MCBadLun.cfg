SPECIFICATION Spec
CONSTANTS
    MaxLen = 1
    MaxResets = 0
    Events = {"badLun"}
    PreemptAt <- AllButWaitSet
    ResetAt <- NoReset
INVARIANTS
    StatusAnswersCommand
