\* Two runs that may overlap, three in all; the second batch is not full.
SPECIFICATION Spec
CONSTANTS
    food = food
    health = health
    cafe = cafe
    Data <- MCData
    BatchSize = 2
    Runs = {p1, p2}
    MaxStarts = 3
    NoName = NoName
SYMMETRY Symmetry
INVARIANTS
    TypeOK
    FiledRight
    NoDuplicates
    PrefixesOnly
CHECK_DEADLOCK FALSE
