CONSTANTS
    a = a
    b = b
    Client = {a, b}
    Want <- MCWant
    Files = {"file"}
    Nothing = Nothing
    Listener = Listener
    Batch = 2
    Limits <- MCLimits
    Size = 2
    SockBuf = 1
    Thread = {1, 2}
    Peer = {1, 2}
    Answer <- MCAnswer
    Wish <- MCWish
    Pools = {1, 2}
    Slow <- MCSlow
    Room = 3
SPECIFICATION ServersSpec
INVARIANTS NoLostWakeup WholeRequestsAnswered OwnAnswers
PROPERTY EveryoneServed
CHECK_DEADLOCK FALSE
