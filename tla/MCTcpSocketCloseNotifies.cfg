SPECIFICATION FairSpec
CONSTANTS
    Workers = {w1}
    Users = {u1}
    NoThread = NoThread
    BufferSize = 1
    MaxContexts = 4
    Cases <- PacketCases
PROPERTY CloseNotifies
CHECK_DEADLOCK FALSE
