SPECIFICATION Spec
CONSTANTS
    EVQ_N = 2
    DetectEvery = 1
    FirstModes = {"NORMAL"}
    SampleModes = {"NORMAL", "ERROR"}
    Inputs = {"SET", "QUERY", "FRAME", "PROTO", "TN", "READ", "LINE", "LED"}
INVARIANTS
    TypeOK
    SignalNeverDropped
    NoDeadlock
    BuzzerChannelAgrees
    BuzzerHasCause
PROPERTY
    ImplementsPanel
