\* A second collector connects while the first is served, then the first
\* closes: nothing but the engine's own steps is assumed to happen.
CONSTANTS
    Producers = {p1}
    Tracepoints = {t1}
    LongName = LongName
    UnknownName = UnknownName
    NameLen = 1
    DataLens = {2048}
    RxFrames <- GoodFrames
    SendOutcomes = {"ok"}
    AcceptOk = {TRUE}
    InitArgs <- FullArgs
    UdpBindOk = {TRUE}
    MaxSubmits = 0
    MaxConnects = 2
    MaxRx = 0
    MaxAnnounce = 1
    MaxSends = 1
SPECIFICATION Spec
PROPERTY BacklogEventuallyAccepted
CHECK_DEADLOCK FALSE
