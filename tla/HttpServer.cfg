SPECIFICATION HttpSpec
CONSTANTS
    Kinds <- MCKinds
    LinesOf <- MCLinesOf
    MaxRequests = 3
INVARIANTS
    AnswersMatchRequests
    WireInOrder
PROPERTIES
    WaitingClientAnswered
\* A closed connection stays closed.
CHECK_DEADLOCK FALSE
