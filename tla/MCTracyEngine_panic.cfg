\* Two closes in one receive unwrap a connection that is already gone.
CONSTANTS
    Producers = {p1}
    Tracepoints = {t1}
    LongName = LongName
    UnknownName = UnknownName
    NameLen = 1
    DataLens = {2048}
    RxFrames <- AllFrames
    SendOutcomes = {"ok", "wouldblock", "error"}
    AcceptOk = {TRUE, FALSE}
    InitArgs <- FullArgs
    UdpBindOk = {TRUE}
    MaxSubmits = 2
    MaxConnects = 2
    MaxRx = 2
    MaxAnnounce = 1
    MaxSends = 2
SPECIFICATION Spec
INVARIANT NoEnginePanic
CHECK_DEADLOCK FALSE
