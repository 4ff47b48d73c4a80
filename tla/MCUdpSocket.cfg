SPECIFICATION FairSpec
CONSTANTS
    Workers = {w1, w2}
    Users = {u1}
    Stoppers = {u1}
    NoThread = NoThread
    Peers = {p1, p2}
    OddPeers = {p2}
    NoPeer = NoPeer
    BufferSize = 1
    MaxSends = 2
    MaxData = 1
    MaxContexts = 6
    Reliable = FALSE
    Empties = TRUE
INVARIANTS Listens InOrder StopDrains
PROPERTY StopEnds
CHECK_DEADLOCK FALSE
