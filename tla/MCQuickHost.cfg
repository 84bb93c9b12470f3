SPECIFICATION Spec
CONSTANTS
    MaxLen = 1
    MaxResets = 1
    Events = {"quickHost"}
    PreemptAt <- AllButWaitSet
    ResetAt <- LineResetInMemory
PROPERTIES
    SdNotReentered
