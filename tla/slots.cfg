SPECIFICATION FairSpec
CONSTANTS
    NSlots = 2
    MaxBorn = 4
    MaxBatch = 2
    MaxDepth = 2
    MaxTakes = 1
    Delays = {1}
    Api <- AllCalls
    Faults = {"bind", "socket"}
    Liberties = {}
INVARIANTS DeliveredToOwner HandlesSound
PROPERTIES  LoopTurns
CHECK_DEADLOCK FALSE
