SPECIFICATION FairSpec
CONSTANTS
    WEEK_SECONDS = 3
    Times = {2, 5, 6}
    Budgets <- Split
    Clients = {c1, c2}
    Requests <- Asked
    SOCK_N = 1
INVARIANTS
    TypeOK
    DbIsWindow
    ServedIsSaved
PROPERTIES
    AnswerWhole
    Answered
CHECK_DEADLOCK FALSE
