SPECIFICATION Spec
CONSTANTS
    Workers = {w1, w2}
    Users = {u1}
    NoThread = NoThread
    BufferSize = 1
    MaxContexts = 6
    Cases <- SafetyCases
INVARIANTS TypeOK ReceiveSerial WireInOrder GracefulDrains ClosedOnceEach
PROPERTIES CloseLast CompleteTruthful
SYMMETRY Symmetry
CHECK_DEADLOCK FALSE
