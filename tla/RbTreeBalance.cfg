SPECIFICATION Spec
CONSTANTS
    Keys = {1, 2, 3, 4}
INVARIANTS
    RedBlack
\* After a crash nothing more happens.
CHECK_DEADLOCK FALSE
