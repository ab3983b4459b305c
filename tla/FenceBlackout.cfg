CONSTANTS
    None = None
    MaxAttempts = 1
    QueueLimit = 2
    Requesters = {"PolicyRun"}
    LadderFences = FALSE
    Blackouts = TRUE
    MaxRequests = 2
    MaxFences = 1
SPECIFICATION Spec
INVARIANT LadderDecides
