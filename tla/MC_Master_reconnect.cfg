\* A worker reconnects: a second WatchCookies stream under the same pc id
\* while the first is still open.
CONSTANTS
    n1 = n1  v1 = v1  v2 = v2
    b0 = b0  b1 = b1  b2 = b2
    pcA = pcA  pcB = pcB  s1 = s1  s2 = s2  s3 = s3  g1 = g1  r1 = r1  r2 = r2
    Zero = Zero
    Names = {n1}
    Values = {v1, v2}
    Calls = {b1}
    Request <- MCRequest
    Pcs = {pcA}
    EmptyPc = EmptyPc
    Streams = {s1, s2}
    StreamPc <- MCStreamPcReconnect
    ChanCapacity = 1
    Getters = {}
    MaxNow = 1
    Reports = {}
    Report <- MCReport
    None = None
SPECIFICATION Spec
PROPERTY WatchDelivery
CHECK_DEADLOCK FALSE
