SPECIFICATION Spec
CONSTANTS
    Limits = {"temp", "light"}
    AdcLimits = {"light"}
    Values = {"New1", "Huge"}
    Faults = {"early", "torn", "noCard", "readError", "openError", "writeError"}
INVARIANTS
    TypeOK
    SettingSurvives
    CardNeverStale
