SPECIFICATION Spec
CONSTANTS
    Requests = {"getDesc"}
    Early = {}
INVARIANT
    NoDeeperThanLocked
