\* The deployed single worker and a batch of one: nothing is forgotten, and if no
\* answer is lost, nothing is posted twice.
CONSTANTS
    p1 = p1
    p2 = p2
    w1 = w1
    w2 = w2
    Publications = {p1, p2}
    Workers = {w1}
    MaxAttempts = 2
    DispatchLimit = 1
    TaskTicks = 1
    LeadTimes = {1}
    ReplyMayBeLost = FALSE
    MaxFaults = 2
    MaxCopies = 2
    Horizon = 1
SPECIFICATION FairSpec
INVARIANT AtMostOnce
PROPERTY SettlesUnlessAbandoned
