\* A task dies while it holds a publication.
CONSTANTS
    p1 = p1
    p2 = p2
    w1 = w1
    w2 = w2
    Publications = {p1}
    Workers = {w1}
    MaxAttempts = 2
    DispatchLimit = 1
    TaskTicks = 1
    LeadTimes = {1}
    ReplyMayBeLost = FALSE
    MaxFaults = 1
    MaxCopies = 1
    Horizon = 1
SPECIFICATION FairSpec
PROPERTY EverySchedulingSettles
