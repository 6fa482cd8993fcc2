\* One attempt, with the numbers of the code.
CONSTANTS
    MaxImages = 10
    MaxPolls = 5
    PollDelay = 2
    TimeLimit = 60
SPECIFICATION Spec
INVARIANTS
    TypeOK
    PublicIsWhole
    PublicIsFinished
    EffortIsBounded
PROPERTIES
    ImplementsCall
