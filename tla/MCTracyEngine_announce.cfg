\* A failed accept stops the announce timer (spec.md 8.8).
CONSTANTS
    Producers = {p1}
    Tracepoints = {t1}
    LongName = LongName
    UnknownName = UnknownName
    NameLen = 1
    DataLens = {2048}
    RxFrames <- AllFrames
    SendOutcomes = {"ok"}
    AcceptOk = {TRUE, FALSE}
    InitArgs <- FullArgs
    UdpBindOk = {TRUE}
    MaxSubmits = 2
    MaxConnects = 2
    MaxRx = 2
    MaxAnnounce = 1
    MaxSends = 2
SPECIFICATION Spec
INVARIANT AnnounceTimerArmedIffIdle
CHECK_DEADLOCK FALSE
