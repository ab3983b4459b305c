SPECIFICATION FairSpec
CONSTANTS
    Instance = {i1}
    Holder = {h1, h2}
    Claim <- AllClaims
    Setting <- Unhindered
    None = None
    Sweep = Sweep
    i1 = i1
    h1 = h1
    h2 = h2
    h3 = h3
    Cooldown = 1
    LeaseTtl = 1
    MaxDepth = 2
    MaxTime = 1
    MaxSteps = 0
PROPERTIES OperationsEnd WaitsEnd FreeIsGranted
CHECK_DEADLOCK FALSE
