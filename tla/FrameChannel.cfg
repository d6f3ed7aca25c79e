SPECIFICATION FairSpec
CONSTANTS
    HeaderSize = 2
    MaxBody = 2
    Slack = 1
    ReadMax = 3
    Bodies = {0, 1, 2}
    MaxStream = 3
    Streams <- AllStreams
INVARIANTS
    TypeOK
    GenuineUntilRefused
    LegalNeverRefused
    CleanCloseIsComplete
PROPERTY AllDelivered
