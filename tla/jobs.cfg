SPECIFICATION FairSpec
CONSTANTS
    j1 = j1  j2 = j2  a = a  b = b
    None = None
    Jobs = {j1, j2}
    Schedulers = {a, b}
    WorkersOf <- OneWorkerEach
    Projects = {p1}
    Kinds = {"read", "compile"}
    MaxQueuedJobs = 1
    MaxEventQueue = 2
    Watched = {j1}
    MaxSequence = 3
INVARIANTS
    ProjectExclusive
    ReleasedBeforeVisible
    TooLateIsFinal
    NewestEventTellsState
PROPERTIES
    EveryJobEnds
CHECK_DEADLOCK FALSE

