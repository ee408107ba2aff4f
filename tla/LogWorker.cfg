\* Four messages, two buffers of two messages each in all: the frontend fills
\* a buffer, runs the pool dry and goes on after the backend returned one.
\* Two flushes: the second one may find the backend still in the first write.
SPECIFICATION FairSpec
CONSTANTS
    Messages = {m1, m2, m3, m4}
    BufSize = 1
    BufCap = 2
    MaxFlushes = 2
    NoBuf = NoBuf
INVARIANTS
    BuffersConserved
    MessagesConserved
    FileInOrder
PROPERTIES
    FlushMissesOnlyInHand
    AcceptedEventuallyDurable
    ShutdownEndsWithBuffer
\* After abort() or after the destructor nothing more happens.
CHECK_DEADLOCK FALSE
