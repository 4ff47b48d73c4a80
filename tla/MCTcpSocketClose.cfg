SPECIFICATION FairSpec
CONSTANTS
    Workers = {w1}
    Users = {u1}
    NoThread = NoThread
    BufferSize = 1
    MaxContexts = 6
    Cases <- ClosingCases
PROPERTIES CloseAnswered GracefulCloses
CHECK_DEADLOCK FALSE
