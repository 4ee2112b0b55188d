SPECIFICATION Spec
CONSTANTS
    Keep = 3
    LastDay = 5
    Faults = {"card", "list", "unlink", "append", "reset", "clock"}
INVARIANTS
    TypeOK
    AtMostKeep
    WeekKept
    ResetCostsADay
PROPERTY
    NeverEvictsOwnFile
