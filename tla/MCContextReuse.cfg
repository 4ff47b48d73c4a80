SPECIFICATION ReuseSpec
CONSTANTS
    Tcp = {t1, t2}
    Udp4 = {s1}
    Udp6 = {s2, s3}
    Peers4 = {a1, a2}
    Peers6 = {b1, b2}
    Programs = {{t1, t2}, {s1}, {s2}, {s2, s3}}
    NoAddress = NoAddress
    Mangled = Mangled
    ContextPoolSize = 3
INVARIANT NothingStale
CHECK_DEADLOCK FALSE
