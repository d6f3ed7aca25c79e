SPECIFICATION Spec
CONSTANTS
    i1 = i1
    i2 = i2
    kServer = kServer
    kPort = kPort
    KeyOrder <- TwoKeys
    ServerKey = kServer
    Texts = {"", "url"}
    Edits <- SetServerAndPort
    Blank = ""
    NotLoaded = NotLoaded
    NotSaving = NotSaving
    Budgets <- CallsOnly
    Instances = {i1, i2}
    NameOrder <- CamNames
    PartOf <- CamContains
    Registers <- SharedName
    Elsewhere = {}
    Remote = Remote
    DnsAddrs <- FromDns
    ServerAddrs <- FromServer
    None = None
    MaxConns = 1
CHECK_DEADLOCK FALSE
INVARIANTS
    NoOrphans
