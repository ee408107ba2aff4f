\* As many producers as places in the queue: a producer can be blocked while
\* the other one is notified or just arrives.
SPECIFICATION FairSpec
CONSTANTS
    Workers = {w1, w2}
    Producers = {p1, p2}
    Tasks = {t1, t2, t3, t4}
    MaxTaskSize = 2
    NoTask = NoTask
INVARIANTS
    TasksInOrder
    QueueBounded
    WaitersCovered
PROPERTIES
    AcceptedEventuallyExecuted
    DestructorEnds
    BlockedProducerReleased
\* A pool that nobody destroys and nobody uses waits forever.
CHECK_DEADLOCK FALSE
