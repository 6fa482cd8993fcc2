SPECIFICATION Spec
CONSTANTS
    Workspaces = {1, 2}
    Names = {a, b}
    Channels = {facebook, instagram}
    MaxChanges = 1
    MaxTargets = 2
    MaxForms = 2
    MaxSaves = 2
    MaxRefreshes = 1
    None = None
SYMMETRY Symmetry
INVARIANTS
    TypeOK
    StaysInBrand
    SecondPostNeedsError
    SavedMeansScheduled
