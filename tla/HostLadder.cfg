SPECIFICATION Spec
CONSTANTS
    Instance = {i1}
    Holder = {h1, h2, h3}
    Claim <- LadderClaims
    Setting <- BehindLadder
    None = None
    Sweep = Sweep
    i1 = i1
    h1 = h1
    h2 = h2
    h3 = h3
    Cooldown = 1
    LeaseTtl = 2
    MaxDepth = 3
    MaxTime = 3
    MaxSteps = 0
INVARIANT PreemptionsAgree
CHECK_DEADLOCK FALSE
