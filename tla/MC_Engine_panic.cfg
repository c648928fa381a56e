CONSTANTS
    NumberOfSessions = 2
    ProxyFiles <- MCProxyFiles
    BadProxies <- MCBadProxies
    p1 = p1
    pbad = pbad
    Direct = Direct
    NoJob = NoJob
    ka = ka  kA = kA  ku = ku  cA = cA  cU = cU  v1 = v1  v2 = v2
    Keys = {ka, kA, ku}
    CanonKeys = {cA, cU}
    Values = {v1, v2}
    NoValue = NoValue
    MaxEntries = 4
    Branches = {"engine"}

SPECIFICATION MCSpec

INVARIANT NoPanic
