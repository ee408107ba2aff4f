\* Two connections at a time or one after the other on the same descriptor,
\* with two messages so that buffered and direct writes meet.
SPECIFICATION Spec
CONSTANTS
    Conns = {c1, c2}
    NoCon = NoCon
    Fds = {f1, f2}
    NoFd = NoFd
    Messages = {m1, m2}
    MsgLen = 2
    WorkerNum = 1
    Threads = {t1}
SYMMETRY Symmetry
INVARIANTS
    RegistryConsistent
    WriteInterest
    OutputInOrder
    EpollFailsOnlyLate
    ClosedIsErased
\* After a fatal error nothing more happens.
CHECK_DEADLOCK FALSE
