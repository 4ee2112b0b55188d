SPECIFICATION Spec
CONSTANTS
    Limits = {"temp", "light"}
    AdcLimits = {"light"}
    Values = {"New1", "Huge"}
    Faults = {}
INVARIANT
    AcceptedPersists
