\* A payload admitted just before a disconnect arms the flush timer with no connection.
CONSTANTS
    Producers = {p1}
    Tracepoints = {t1}
    LongName = LongName
    UnknownName = UnknownName
    NameLen = 1
    DataLens = {2048}
    RxFrames <- GoodFrames
    SendOutcomes = {"ok"}
    AcceptOk = {TRUE, FALSE}
    InitArgs <- FullArgs
    UdpBindOk = {TRUE}
    MaxSubmits = 2
    MaxConnects = 2
    MaxRx = 2
    MaxAnnounce = 1
    MaxSends = 2
SPECIFICATION Spec
INVARIANT FlushOnlyWhileConnected
CHECK_DEADLOCK FALSE
