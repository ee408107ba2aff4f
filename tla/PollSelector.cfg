SPECIFICATION Spec
CONSTANTS
    Fds = {1, 2, 3}
INVARIANTS
    IndexConsistent
PROPERTIES
    ImplementsInterestMap
\* An error of poll ends the process.
CHECK_DEADLOCK FALSE
