SPECIFICATION Spec
CONSTANTS
    Instance = {i1, i2}
    Holder = {h1, h2, h3, h4}
    Claim <- MixedClaims
    None = None
    i1 = i1
    i2 = i2
    h1 = h1
    h2 = h2
    h3 = h3
    h4 = h4
    Cooldown = 2
    LeaseTtl = 1
    MaxDepth = 2
    MaxTime = 2
    Request = {1}
    MaxLeases = 2
    MaxPrepared = 2
    MaxArrivals = 2
    MaxSteps = 2
CONSTRAINT OneGroup
INVARIANTS TypeOK LocationsExact PreemptExact QueueSound NoExpiryLost CloseOnlyFenced WritesVisible
PROPERTIES HandoverBetweenSteps NoRevival
CHECK_DEADLOCK FALSE
