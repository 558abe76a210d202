\* What is built from two vaults, settled and edited.
SPECIFICATION Spec
CONSTANTS
    Sources = {1, 2}
    Archives = {2}
    Tars = {2}
    MaxFiles = 6
    FullLength = 2
    Before <- MCBefore
    Short <- MCShort
    Encode <- MCEncode
    Joined <- MCJoined
    Marks <- MCMarks
    Excluded <- MCExcluded
    Size <- MCSize
    Malformed <- MCMalformed
    Beginnings <- MCBeginnings
    Edits <- MCEdits
INVARIANTS
    FilesAreWhole
    RewritesAreOfInspected
    LinksSurvive
    OwnPlanIsAccepted
CHECK_DEADLOCK FALSE
