\* For Route every store of at most eleven relations among five chips, 5 a shape or a
\* point; for Gather smaller graphs, and circuits of at most nine feet; for
\* Llama one or two prompts, in models of 5, 7 and 19 places.
CONSTANTS
    Chip <- MCChip
    Named <- MCNamed
    Opaque <- MCOpaque
    Databases <- MCDatabases
    Room = 4
    Stop = 4
    Rounds = 2
    Thing <- MCThing
    Kind <- MCKind
    Stores <- MCStores
    Asks = 2
    NodeStop = 5
    WireStop = 5
    NodeRoom = 5
    WireRoom = 6
    CtxRoom = 7
    CtxRounds = 3
    Vocab <- MCVocab
    SeqLen <- MCSeqLen
    Inputs <- MCInputs
    Dists <- MCDists
    Whole = 200
    Coins = 4
    LineRoom = 6
    Special <- MCSpecial
    Opening <- MCOpening
    Closing <- MCClosing
    Headers <- MCHeaders
    IntHalf = 16
    ChunkStop = 8
    Missing = {1, 9, 20}
SPECIFICATION OperateSpec
INVARIANTS TypeOK QueuesAreTrees RouteMeets SearchExact CollectsAll AnswersThePrompt ReadAsWritten
PROPERTY Ends
CHECK_DEADLOCK FALSE
