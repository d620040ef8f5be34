SPECIFICATION TmSpec
CHECK_DEADLOCK FALSE
CONSTANTS
    TmSlots = 3
    TmMaxSec = 3
    TmMaxSignals = 3
    TmMaxDays = 0
    TmRest = {0}
    TmStarts <- TheEpoch
INVARIANT CorruptOnlyAfterSlotsSeconds
