\* An event admitted before a disable is processed is written after it.
CONSTANTS
    Producers = {p1}
    Tracepoints = {t1}
    LongName = LongName
    UnknownName = UnknownName
    NameLen = 1
    DataLens = {2048}
    RxFrames <- GoodFrames
    SendOutcomes = {"ok"}
    AcceptOk = {TRUE, FALSE}
    InitArgs <- FullArgs
    UdpBindOk = {TRUE}
    MaxSubmits = 2
    MaxConnects = 2
    MaxRx = 2
    MaxAnnounce = 1
    MaxSends = 2
SPECIFICATION Spec
INVARIANT NoEventsAfterDisable
CHECK_DEADLOCK FALSE
