CONSTANTS
    leafstep = 5
    indxkeys = 2
    NoBody <- MCNoHead
    Path <- MCPath
    NameOf <- MCNameOf
    Word = {1, 4}
    Unrecorded = {1}
    MaxRel = 7
    MaxNest = 2
SPECIFICATION Spec
INVARIANT LocalsStayInFile
CHECK_DEADLOCK FALSE
