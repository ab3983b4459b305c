SPECIFICATION Spec
CONSTANTS
    Instance = {i1}
    Holder = {h1, h2}
    Claim <- AllClaims
    Setting <- Hindered
    None = None
    Sweep = Sweep
    i1 = i1
    h1 = h1
    h2 = h2
    h3 = h3
    Cooldown = 1
    LeaseTtl = 2
    MaxDepth = 2
    MaxTime = 3
    MaxSteps = 2
INVARIANT NoEndUnderWrite
CHECK_DEADLOCK FALSE
