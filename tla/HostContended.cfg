SPECIFICATION Spec
CONSTANTS
    Instance = {i1}
    Holder = {h1, h2}
    Claim <- AllClaims
    Setting <- Contended
    None = None
    Sweep = Sweep
    i1 = i1
    h1 = h1
    h2 = h2
    h3 = h3
    Cooldown = 1
    LeaseTtl = 2
    MaxDepth = 2
    MaxTime = 2
    MaxSteps = 1
INVARIANTS HostTypeOK    WritesFenced
CHECK_DEADLOCK FALSE
