SPECIFICATION FairSpec
CONSTANTS
    Empty = Empty
    MaxEvents = 2
    MaxOperations = 3
INVARIANTS IdleAccepts BarrierIsOwn
PROPERTIES OperationFinishes ShutdownEnds
CHECK_DEADLOCK FALSE
