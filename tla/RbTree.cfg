\* Eight keys let both repairs go on towards the root from a node whose parent
\* is not the root, in a balanced tree.
SPECIFICATION Spec
VIEW Shape
CONSTANTS
    Keys = {1, 2, 3, 4, 5, 6, 7, 8}
INVARIANTS
    BalancedUntilMirrored
    SearchTree
    QueriesAnswer
PROPERTIES
    ImplementsOrderedMap
\* After a crash nothing more happens.
CHECK_DEADLOCK FALSE
