SPECIFICATION LiveSpec
CONSTANTS
    Files = {"f1", "f2"}
    NewFiles = {"f2"}
    Cmds = {"c1"}
    Overlap = FALSE
    LockFile = TRUE
    MaxOps = 3
    Bounds <- AllBounds
INVARIANTS InstallTypeOK StartsWhole NoDeadEnd SettledAgrees NamedWhileOpen
PROPERTIES EndsAsSaid OneDirection SwapsAtRest Settles
