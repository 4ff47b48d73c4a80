SPECIFICATION Spec
CONSTANTS
    Workers = {w1}
    Users = {u1}
    Stoppers = {u1}
    NoThread = NoThread
    Peers = {p1, p2}
    OddPeers = {}
    NoPeer = NoPeer
    BufferSize = 1
    MaxSends = 2
    MaxData = 0
    MaxContexts = 5
    Reliable = TRUE
    Empties = FALSE
INVARIANT Addressed
CHECK_DEADLOCK FALSE
