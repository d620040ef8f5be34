SPECIFICATION Spec
CONSTANTS
    NSlots = 2
    MaxBorn = 3
    MaxBatch = 1
    MaxDepth = 1
    MaxTakes = 1
    Delays = {1}
    Api <- ConnectionCalls
    Faults = {}
    Liberties = {"take after close"}
PROPERTY DestroyedMeansClosed
CHECK_DEADLOCK FALSE
