SPECIFICATION Spec
CONSTANTS
    MaxLen = 1
    MaxResets = 0
    Events = {}
    PreemptAt <- Pcs
    ResetAt <- NoReset
INVARIANTS
    StatusWaitsForStall
