SPECIFICATION FairSpec
CONSTANTS
    Main = main
    Workers = {w1}
    Users = {u1}
    Entries = 4
    MaxRequests = 1
PROPERTY StopReturns
CHECK_DEADLOCK FALSE
