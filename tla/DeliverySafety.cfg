\* Two publications, two workers, every fault, answers that may be lost.
CONSTANTS
    p1 = p1
    p2 = p2
    w1 = w1
    w2 = w2
    Publications = {p1, p2}
    Workers = {w1, w2}
    MaxAttempts = 2
    DispatchLimit = 1
    TaskTicks = 1
    LeadTimes = {1}
    ReplyMayBeLost = TRUE
    MaxFaults = 2
    MaxCopies = 1
    Horizon = 1
SYMMETRY Symmetry
SPECIFICATION Spec
INVARIANTS
    TypeOK
    HeldAttemptIsOpen
    HistoryMatchesState
    DuplicatesComeFromRetries
    OneLossPerFault
PROPERTIES
    ClaimNotEarly
    ImplementsLifecycle
