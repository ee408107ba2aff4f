\* The prepend area and the initial room are as small as a piece of data, so
\* that a few puts meet every case of makeSpace: growth from the first put,
\* from a half-consumed buffer, and compaction.
SPECIFICATION Spec
CONSTANTS
    CheapPrepend = 1
    InitialSize = 2
    ExtraBuf = 2
    Bytes = {"cr", "lf", "zero"}
    CR = "cr"
    LF = "lf"
    Zero = "zero"
    MaxData = 2
    MaxReadable = 2
INVARIANTS
    MakeSpaceMakesRoom
PROPERTIES
    ImplementsByteQueue
