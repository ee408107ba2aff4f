SPECIFICATION Spec
CONSTANTS
    Conns = {c1}
    NoCon = NoCon
    Fds = {f1}
    NoFd = NoFd
    Messages = {m1}
    MsgLen = 2
    WorkerNum = 1
    Threads = {t1}
INVARIANT RemoveFindsChannel
CHECK_DEADLOCK FALSE
