CONSTANTS
    Producers = {p1}
    Tracepoints = {t1}
    LongName = LongName
    UnknownName = UnknownName
    NameLen = 1
    DataLens = {2048}
    RxFrames <- AllFrames
    SendOutcomes = {"ok", "wouldblock", "error"}
    AcceptOk = {TRUE, FALSE}
    InitArgs <- MainArgs
    UdpBindOk = {TRUE, FALSE}
    MaxSubmits = 2
    MaxConnects = 2
    MaxRx = 2
    MaxAnnounce = 1
    MaxSends = 2
SPECIFICATION Spec
INVARIANT TypeOK
PROPERTY DeliveryRefined
INVARIANT QueueTimerImpliesPending
INVARIANT BeaconOnlyWhileIdle
PROPERTY ConnectionRefined
CHECK_DEADLOCK FALSE
