SPECIFICATION Spec
CONSTANTS
    Size <- CubeSize
    Counts = {0, 3}
    Word = 7
INVARIANTS
    TypeOK
    SweepsExact
    WindowCountExact
CHECK_DEADLOCK FALSE
