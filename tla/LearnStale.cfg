CONSTANTS
    leafstep = 5
    indxkeys = 2
    NoBody <- MCNoHead
    Path <- MCPath
    NameOf <- MCNameOf
    Word = {1}
    Unrecorded = {}
    MaxRel = 5
    MaxNest = 2
SPECIFICATION Spec
INVARIANT RelationsMeantHold
CHECK_DEADLOCK FALSE
