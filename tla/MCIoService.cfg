SPECIFICATION FairSpec
CONSTANTS
    Main = main
    Workers = {w1, w2}
    Users = {u1, u2}
    Entries = 2
    MaxRequests = 2
INVARIANTS TypeOK RunReady DeliveredOnce RingAlive 
PROPERTY StopTerminates
CHECK_DEADLOCK FALSE
