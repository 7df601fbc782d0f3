CONSTANTS
    p1 = p1
    p2 = p2
    w1 = w1
    w2 = w2
    t1 = t1
    t2 = t2
    Tasks <- MCTasks
    Producers <- MCProducers
    Workers <- MCWorkers
    MaxRequests = 2
    Version = "Webserver"
    MaxSpare = 2
    NoTask = NoTask
    Unlocked = Unlocked
SPECIFICATION FairSpec
INVARIANTS PoolInv
PROPERTIES ImplementsQueue
