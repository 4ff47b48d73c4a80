SPECIFICATION Spec
CONSTANTS
    Threads = {t1, t2, t3}
    PoolSize = 2
    MaxContexts = 3
INVARIANTS NoSharing NoneLost
CHECK_DEADLOCK FALSE
