SPECIFICATION Spec
CONSTANTS
    Kinds = {"sd2"}
    CounterSize = 5
    Requests = {3}
PROPERTY AbortEndsTheWrite
