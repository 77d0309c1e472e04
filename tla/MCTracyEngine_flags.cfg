\* A request read after the connection was closed in the same receive re-enables a flag.
CONSTANTS
    Producers = {p1}
    Tracepoints = {t1}
    LongName = LongName
    UnknownName = UnknownName
    NameLen = 1
    DataLens = {2048}
    RxFrames <- AllFrames
    SendOutcomes = {"ok", "wouldblock", "error"}
    AcceptOk = {TRUE, FALSE}
    InitArgs <- FullArgs
    UdpBindOk = {TRUE}
    MaxSubmits = 2
    MaxConnects = 2
    MaxRx = 2
    MaxAnnounce = 1
    MaxSends = 2
SPECIFICATION Spec
INVARIANT FlagsOffWhileDisconnected
CHECK_DEADLOCK FALSE
