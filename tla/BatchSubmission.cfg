SPECIFICATION Spec
CONSTANTS
    Items = 2
    Slides = 2
    Channels = 2
    MaxRuns = 3
    MaxFaults = 3
INVARIANTS
    TypeOK
    OnePerChannel
    InManifestOrder
    SuccessIsComplete
    PostsAreWhole
CHECK_DEADLOCK FALSE
