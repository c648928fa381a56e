\* A solver and the keep-alive loop extracting into the same session.
CONSTANTS
    sid = sid  jwt = jwt  v1 = v1  v2 = v2  k1 = k1  k2 = k2  x1 = x1
    Ids = {1}
    Names = {sid, jwt}
    JwtNames = {jwt}
    Values = {v1, v2}
    Responses <- MCResponses
    Claimers = {k1, k2}
    Solvers = {x1}
    SessionIDs <- MCSessionIDs
    KeepAliveURLSet = TRUE
    MaxTicks = 2
    None = None
    cInfo = cInfo  cError = cError  cDebug = cDebug  sErr = sErr  sDbg = sDbg
    Calls = {cInfo, cError, cDebug}
    Kind <- MCKind
    Setters = {sErr, sDbg}
    SetTo <- MCSetTo
    InitLevel = 1
    tExp = tExp  tBad = tBad  tNoExp = tNoExp  tNew = tNew
    Empty = Empty  NoExp = NoExp  Malformed = Malformed
    Tokens = {tExp, tBad, tNoExp, tNew}
    Exp <- MCExp
    Served = {tNew, tNoExp}
    RefreshBefore = 1
    MaxNow = 3
    NilMap = NilMap
    NoRequest = NoRequest
    Branches = {"heartbeat"}
SPECIFICATION MCSpec
INVARIANT NoLostCookie
\* Every goroutine finishes: claimers and solvers return, the loop has
\* exited or used its ticks and waits on the ticker.
CHECK_DEADLOCK FALSE
