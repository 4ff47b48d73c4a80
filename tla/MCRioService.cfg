SPECIFICATION FairSpec
CONSTANTS
    Main = main
    Acceptor = acceptor
    User = user
    Workers = {w1, w2}
    NoThread = NoThread
    MaxConns = 2
    Handles = {1}
    Size = 1
    Cases <- ReuseOrLife
INVARIANTS QueuesKnown OwnHandle SendBufferStable
PROPERTY CloseAnswered
CHECK_DEADLOCK FALSE
