\* A jobFn call reading cfg.TargetURL while the config POST stores a new one.
CONSTANTS
    Requests = {rPost}
    rOpt = rOpt  rGet = rGet  rPut = rPut  rBad = rBad  rPost = rPost
    rProxy = rProxy  rProxyGet = rProxyGet
    rProxyFail = rProxyFail  rNodes = rNodes
    t0 = t0  t1 = t1
    Method <- MCMethod
    Route <- MCRoute
    Payload <- MCPayload
    Upload <- MCUpload
    BadBody = BadBody
    Targets = {t0, t1, EmptyTarget}
    EmptyTarget = EmptyTarget
    InitTarget = t0
    MainLog = MainLog
    Jobs = {j1}
    LogStreams = {}
    MetricsStreams = {}
    MaxLogs = 2
    LogChanCap = 1
    MetricsChanCap = 1
    MaxTicks = 1
SPECIFICATION Spec
INVARIANT NoTornTarget

\* Once every request is answered and every client has gone, the server
\* only waits for new connections.
CHECK_DEADLOCK FALSE
