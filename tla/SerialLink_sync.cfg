SPECIFICATION PromptSpec
CONSTANTS
    RXQ_N = 14
    LINE_N = 8
    FRAME_MAX = 64
    TXQ_N = 2
    Found = {1, 3}
    OPS_N = 2
    FAULTS_N = 0
    OTHERS_N = 1
    MenuCommands <- Menu
    SyncCommand <- Sync
INVARIANT
    ClockSynced
