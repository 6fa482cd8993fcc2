SPECIFICATION FairSpec
CONSTANTS
    Items = 2
    Slides = 1
    Channels = 2
    MaxRuns = 3
    MaxFaults = 1
PROPERTY
    RetryCompletes
CHECK_DEADLOCK FALSE
