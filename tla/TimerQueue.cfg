SPECIFICATION Spec
CONSTANTS
    Timers = {1, 2, 3}
    NoTimer = 0
    Calls <- MCCalls
    MaxId = 2
    MaxTime = 4
    MaxCancels = 2
INVARIANTS
    ArmedInTime
    NoOvertaking
    TreeHoldsWaiting
PROPERTIES
    WaitingEventuallyFires
CHECK_DEADLOCK FALSE
