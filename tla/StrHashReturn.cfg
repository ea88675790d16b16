CONSTANTS
    leafstep = 3
    indxkeys = 2
    NoBody = NoBody
    NStr = 6
    Few = 5
    Str <- MCStr
    HashOf <- MCHashOf
SPECIFICATION LSpec
INVARIANT ReturnsItsSlot
