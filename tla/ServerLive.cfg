CONSTANTS
    c1 = c1
    c2 = c2
    f1 = f1
    f2 = f2
    w1 = w1
    w2 = w2
    None = None
    Conns <- TwoConns
    Fds <- OneFd
    Workers <- OneWorker
    Modes <- MixedModes
    Outcomes <- AnswersAndFailures
    KeepAlive <- Close
    MaxFd = 1
    MaxRequests = 1
    Life = 1
    Prompt = FALSE
    TermAfter = {0}
    Segments <- OneEach
    BufSize = 2
    AnswerSizes = {1}
    Stdin = Stdin
    Overrun <- NoOverrun
SPECIFICATION FairSpec
INVARIANTS MainInv AlarmNeverLost SpinIsAnswered
PROPERTIES ConnectionsEnd AcceptedEventually
CHECK_DEADLOCK FALSE
