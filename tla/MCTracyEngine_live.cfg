\* Liveness of shutdown and of the receive path: one producer, one
\* collector connection sending up to two requests, a write or read that may
\* fail, and two payloads that overflow the buffer.
CONSTANTS
    Producers = {p1}
    Tracepoints = {t1}
    LongName = LongName
    UnknownName = UnknownName
    NameLen = 1
    DataLens = {2048}
    RxFrames <- GoodFrames
    SendOutcomes = {"ok", "error"}
    AcceptOk = {TRUE}
    InitArgs <- FullArgs
    UdpBindOk = {TRUE}
    MaxSubmits = 2
    MaxConnects = 1
    MaxRx = 2
    MaxAnnounce = 1
    MaxSends = 2
SPECIFICATION Spec
PROPERTY TerminateLeadsToExit
PROPERTY RequestsEventuallyRead
PROPERTY BufferedDataEventuallyFlushed
CHECK_DEADLOCK FALSE
