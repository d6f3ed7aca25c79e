SPECIFICATION FairSpec
CONSTANTS
    WireCap = 2
    DecodedCap = 1
    MaxFrames = 4
INVARIANTS
    TypeOK
    FramesConserved
    ArrivalOrder
    GaugeCoversQueue
    CaptureAccounted
PROPERTIES
    StopEndsThreads
