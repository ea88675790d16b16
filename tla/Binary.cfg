SPECIFICATION MainSpec
CONSTANTS
    len = 4
    Near = 2
    Entries = {0, 1, 4}
    Blocks = 3
    Ints = 3
    Instr <- MCInstr
    Unread = Unread
    Line <- MCLine
    Junk = {0, 5}
    Word <- MCWord
    Op86 <- MCOp86
    Flat86 <- MCPlain86
    Sum86 <- MCSum86
    Other86 <- MCOther86
    Prefix86 <- MCPrefix86
    Modrm86 <- MCModrm86
    Sib86 = {36, 37, 209}
    Rest86 <- MCRest86
    RvLine <- MCRvLine
    RvWord <- MCRvWord
    SectName = {"text", "textlong", "init"}
    LongName = {"textlong"}
    MaxSect = 2
INVARIANTS
    TablesBounded
    ListingTrue
    AssembledAsTyped
    WalkSeesWhatIsShown
    LengthsTrue
    NothingLost
    ListedAsAsked
PROPERTY WalkEnds
CHECK_DEADLOCK FALSE
