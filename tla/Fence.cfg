CONSTANTS
    None = None
    MaxAttempts = 2
    QueueLimit = 2
    Requesters = {"ClientLease", "PolicyRun", "SelfCheck", "Ladder", "PlanDrill"}
    LadderFences = TRUE
    Blackouts = TRUE
    MaxRequests = 2
    MaxFences = 2
SPECIFICATION FairSpec
INVARIANT FenceTypeOK
INVARIANT RecheckServed
PROPERTY HandedOn
PROPERTY WaitRechecked
