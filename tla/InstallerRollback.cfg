SPECIFICATION Spec
CONSTANTS
    Files = {"f1", "f2"}
    NewFiles = {"f2"}
    Cmds = {"c1"}
    Overlap = FALSE
    LockFile = TRUE
    MaxOps = 1
    Bounds <- OneComposite
INVARIANT RollbackKept
