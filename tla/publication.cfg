SPECIFICATION Spec
CONSTANTS
    Compilers = {c1, c2}
    Destinations = {d1, d2}
    StageNames = {s1, s2}
    ContentCount = 1
    MaxTampered = 1
    Free = Free
    Foreign = Foreign
SYMMETRY Alike
PROPERTIES
    OnlyOwnTreesMove
    StageIsAccountedFor
    OutputSpec
