\* One log stream against the config POST and main's shutdown line: the
\* stream copies the history before it subscribes.
CONSTANTS
    Requests = {rPost}
    rOpt = rOpt  rGet = rGet  rPut = rPut  rBad = rBad  rPost = rPost
    rProxy = rProxy  rProxyGet = rProxyGet
    rProxyFail = rProxyFail  rNodes = rNodes
    t0 = t0  t1 = t1
    Method <- MCMethod
    Route <- MCRoute
    Payload <- MCPayload
    Upload <- MCUpload
    BadBody = BadBody
    Targets = {t0, t1, EmptyTarget}
    EmptyTarget = EmptyTarget
    InitTarget = t0
    MainLog = MainLog
    Jobs = {}
    LogStreams = {ls1}
    MetricsStreams = {}
    MaxLogs = 2
    LogChanCap = 1
    MetricsChanCap = 1
    MaxTicks = 1
SPECIFICATION Spec
INVARIANT LogStreamComplete

\* Once every request is answered and every client has gone, the server
\* only waits for new connections.
CHECK_DEADLOCK FALSE
