SPECIFICATION Spec
CONSTANTS
    Projects = {p1, p2}
    NumClusters = 2
    Issues = {i1}
    None = None
    Bare = Bare
    Read = Read
    MaxMade = 3
SYMMETRY Symmetry
INVARIANTS
    NotesAreAboutShown
PROPERTIES
    ApprovedWasShown
