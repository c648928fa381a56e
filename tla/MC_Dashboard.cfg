\* Every dashboard handler with a log stream and a metrics stream; the
\* ring holds two entries so that three callers make it wrap.
CONSTANTS
    Requests = {rOpt, rGet, rPut, rBad, rPost, rProxy, rProxyGet, rProxyFail, rNodes}
    rOpt = rOpt  rGet = rGet  rPut = rPut  rBad = rBad  rPost = rPost
    rProxy = rProxy  rProxyGet = rProxyGet
    rProxyFail = rProxyFail  rNodes = rNodes
    t0 = t0  t1 = t1
    Method <- MCMethod
    Route <- MCRoute
    Payload <- MCPayloadKeep
    Upload <- MCUpload
    BadBody = BadBody
    Targets = {t0, t1, EmptyTarget}
    EmptyTarget = EmptyTarget
    InitTarget = t0
    MainLog = MainLog
    Jobs = {j1}
    LogStreams = {ls1}
    MetricsStreams = {ms1}
    MaxLogs = 2
    LogChanCap = 1
    MetricsChanCap = 1
    MaxTicks = 1
SPECIFICATION Spec
INVARIANT LogHistoryIsRecent
PROPERTY StreamReleased
\* Once every request is answered and every client has gone, the server
\* only waits for new connections.
CHECK_DEADLOCK FALSE
