SPECIFICATION Spec
CONSTANTS
    Audio = TRUE
    Formats = {"f1", "f2"}
    Lengths <- SomeLengths
    Default = 2
    Manual = {5}
    MaxWall = 8
INVARIANTS
    TypeOK
    NeverEarly
    CaughtUp
PROPERTIES
    AutoAdvances
