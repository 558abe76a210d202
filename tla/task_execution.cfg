SPECIFICATION Spec
CONSTANTS
    Names <- MCNames
    Models = {"m1"}
    InitialProfiles <- MCInitialProfiles
    InitialSource = "clean"
    Route <- MCRoute
    Sources <- MCSources
    NumClusters = 1
    Sensitive <- MCSensitive
    None = None
    MaxRuns = 2
    MaxExchanges = 4
    MaxRevision = 2
    MaxEdits = 1
INVARIANTS
    DisclosureIsAuthorized
    WorkIsRecorded
    ReportIsCurrent
    KeyNamesProvider
PROPERTIES
    CompleteIsFinal
CHECK_DEADLOCK FALSE
