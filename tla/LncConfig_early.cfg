SPECIFICATION Spec
CONSTANTS
    Limits = {"temp", "light"}
    AdcLimits = {"light"}
    Values = {"New1"}
    Faults = {"early"}
INVARIANT
    AcceptedPersists
