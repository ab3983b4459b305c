SPECIFICATION MCSpec
CONSTANTS
    BudgetWindow = 2
    BudgetStarts = 1
    Gap = 1
    Grace = 1
    StartWindow = 1
    Slack = 0
    KeptStarts = 1
    LookbackOwners = 1
    MaxTime = 7
    MaxProcs = 3
    MaxFaults = 2
INVARIANTS BudgetKept SpawnsAlone  GraceKept
PROPERTIES FormalClears ComesBack
CHECK_DEADLOCK FALSE
