SPECIFICATION Spec
CONSTANTS
    MAXLEN = 48
    Chunks = {1, 9}
    Reports <- AllReports
    Text <- Banner
    UP_N = 1
    REPORTS_N = 2
    LOST_N = 1
    CUTS_N = 1
INVARIANTS
    TypeOK
    InOrder
    CutCostsNothing
PROPERTIES
    StepKept
CHECK_DEADLOCK FALSE
