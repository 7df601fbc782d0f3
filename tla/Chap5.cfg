CONSTANTS
    c1 = c1
    c2 = c2
    f1 = f1
    f2 = f2
    w1 = w1
    None = None
    Conns <- TwoConns
    Fds <- TwoFds
    Workers <- OneWorker
    Modes <- Level
    Outcomes <- All
    KeepAlive <- Either
    Plans <- MCPlans
    Interrupted <- WhenStopped
    MaxFd = 2
    MaxRequests = 2
    Life = 1
    Prompt = FALSE
    TermAfter = {0, 1, 2}
    Segments <- Thrice
    BufSize = 3
    AnswerSizes = {1, 2}
    Stdin = Stdin
    Overrun <- Next1
SPECIFICATION C5FairSpec
INVARIANTS DataInv OneRequestInBuffer
PROPERTIES KeepsConversations RequestsAnswered
CHECK_DEADLOCK FALSE
