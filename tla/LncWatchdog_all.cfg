SPECIFICATION FairSpec
CONSTANTS
    IWDG_N = 16
    BUSY_N = 7
    RACES_N = 1
    Blocking = {"Object"}
    Spinning = {"Comm", "Object"}
INVARIANTS
    TypeOK
    ObjectVouched
    NoFalseReset
PROPERTY
    HangResets
