SPECIFICATION FairSpec
CONSTANTS
    Devices = {TRUE}
    MaxBuffers = 3
    MaxChanges = 2
    MaxInterrupts = 2
INVARIANTS
    TypeOK
    NothingMissed
PROPERTIES
    EventReported
    InterruptReturns
CHECK_DEADLOCK FALSE
