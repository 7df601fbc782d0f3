CONSTANTS
    c1 = c1
    c2 = c2
    f1 = f1
    f2 = f2
    w1 = w1
    w2 = w2
    None = None
    Conns <- TwoConns
    Fds <- TwoFds
    Workers <- TwoWorkers
    Modes <- LevelModes
    Outcomes <- Served
    KeepAlive <- EitherLinger
    MaxFd = 2
    MaxRequests = 1
    Life = 1
    Prompt = TRUE
    TermAfter = {}
    Segments <- TwoAndOne
    BufSize = 2
    AnswerSizes = {2}
    Stdin = Stdin
    Overrun <- NoOverrun
SPECIFICATION Spec
INVARIANTS ExclusiveHandling NoCrossTalk UserCountExact
PROPERTIES ClosedForCause
SYMMETRY Sym
