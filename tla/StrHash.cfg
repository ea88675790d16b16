CONSTANTS
    leafstep = 3
    indxkeys = 2
    NoBody = NoBody
    NStr = 22
    Few = 8
    Str <- MCStr
    HashOf <- MCHashOf
SPECIFICATION LSpec
INVARIANTS TravAscending TreeSound
PROPERTY ImplementsMap
