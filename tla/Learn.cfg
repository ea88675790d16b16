CONSTANTS
    leafstep = 3
    indxkeys = 2
    NoBody <- MCNoHead
    Path <- MCPath
    NameOf <- MCNameOf
    Word = {1, 4}
    Unrecorded = {}
    MaxRel = 7
    MaxNest = 2
SPECIFICATION Spec
INVARIANTS ChainsStayHome FixedChipsComplete LocalsStayInFile
CHECK_DEADLOCK FALSE
