\* Trees of five entries over a stack of three levels and a path buffer of eight characters.
CONSTANTS
    Node <- MCNode
    Root = 1
    Trees <- MCTrees
    Levels = 3
    Buffer = 8
    NoFolder = NoFolder
SPECIFICATION TraverseSpec
INVARIANT GivesTheTree
PROPERTY WalkEnds
CHECK_DEADLOCK FALSE
