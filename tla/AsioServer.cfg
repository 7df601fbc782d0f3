CONSTANTS
    c1 = c1
    c2 = c2
    None = None
    Conns <- TwoConns
    Size = 2
    Loads <- EitherLoad
    Room = 1
    FileSize = 2
SPECIFICATION FairSpec
INVARIANTS ConnInv AnswersWhole HandlersFindObject
PROPERTIES ConnectionsEnd StopReturns
CHECK_DEADLOCK FALSE
