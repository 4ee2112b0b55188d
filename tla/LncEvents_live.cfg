SPECIFICATION FairSpec
CONSTANTS
    EVQ_N = 1
    DetectEvery = 1
    FirstModes = {"NORMAL"}
    SampleModes = {"NORMAL", "ERROR"}
    Inputs = {"READ"}
PROPERTY
    SignalHandled
    PressSilences
