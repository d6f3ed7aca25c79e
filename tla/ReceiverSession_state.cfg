SPECIFICATION Spec
CONSTANTS
    FrameTypes <- Configured
    Values <- OnOff
    MaxSets = 0
    MaxFailures = 2
INVARIANTS
    ConnectedMeansActive
