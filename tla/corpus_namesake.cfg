\* A note links to a picture of its vault, and a note of another vault has its name.
SPECIFICATION Spec
CONSTANTS
    Sources = {1, 2}
    Archives = {2}
    Tars = {2}
    MaxFiles = 6
    FullLength = 2
    Before <- MCBefore
    Short <- MCShort
    Encode <- MCEncode
    Joined <- MCJoined
    Marks <- MCMarks
    Excluded <- MCExcluded
    Size <- MCSize
    Malformed <- MCMalformed
    Beginnings <- NamesakeDisks
    Edits <- MCEdits
INVARIANTS
    OwnPathWins
CHECK_DEADLOCK FALSE
