SPECIFICATION FairSpec
CONSTANTS
    FrameTypes <- Configured
    Values <- OnOff
    MaxSets = 2
    MaxFailures = 2
INVARIANTS
    TypeOK
    ReadersSubscribed
    SettingConverges
    StoppedIsFinal
PROPERTIES
    DisconnectReturns
    Recovers
