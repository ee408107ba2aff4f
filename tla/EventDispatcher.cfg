\* Two threads and two functors: one thread pushes into the window of
\* runPendingFunctor while the other one is spinning or on its way to Wakeup.
\* No symmetry: some properties are temporal.
SPECIFICATION FairSpec
CONSTANTS
    Callers = {c1, c2}
    Functors = {f1, f2}
    NoFunctor = NoFunctor
INVARIANTS
    FunctorsConserved
    SyncOutsideWindowRan
PROPERTIES
    PostedEventuallyRun
    SyncEventuallyReturns
    ImplementsExecutor
\* After an abort, or after the loop exited with every call returned, the
\* program does nothing more.
CHECK_DEADLOCK FALSE
