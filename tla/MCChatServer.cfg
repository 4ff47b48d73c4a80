SPECIFICATION ChatSpec
CONSTANTS
    Workers = {w1, w2}
    NoWorker = NoWorker
    c1 = c1
    c2 = c2
    c3 = c3
    Clients <- MCClients
    NoClient = NoClient
    Main = main
    ReceiveRoom = 4
    ChatRoom = 2
    MaxStops = 1
    Cases <- MCCases
INVARIANTS RemoteIsPeer AcceptAlive EventsInPool EventsSerial ChatsAsSaid ArraysHold
PROPERTIES ClientServed StopsForGood SaidIsChatted ServerEnds
CHECK_DEADLOCK FALSE
