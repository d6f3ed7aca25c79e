SPECIFICATION Spec
CONSTANTS
    None = None
    Silent = Silent
    MaxChannels = 3
    Threads = {t1, t2}
    Qualities = {"low", "high"}
    DefaultQuality = "low"
    Geometries = {"hd", "sd"}
    MetaWidth = 3
    QueueDepth = 2
    AudioQ = 1
    MetadataQ = 2
    Workloads <- FiveWorkloads
INVARIANTS
    TypeOK
    PicturesMatch
    InCallOrder
    ContentIntact
    OneFate
