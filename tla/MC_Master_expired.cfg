\* A worker broadcasts a cookie its site has just deleted (Expires at the
\* Unix epoch); another worker watches the jar and one calls GetCookies.
CONSTANTS
    n1 = n1  v1 = v1  v2 = v2
    b0 = b0  b1 = b1  b2 = b2
    pcA = pcA  pcB = pcB  s1 = s1  s2 = s2  s3 = s3  g1 = g1  r1 = r1  r2 = r2
    Zero = Zero
    Names = {n1}
    Values = {v1, v2}
    Calls = {b1}
    Request <- MCRequestDeleted
    Pcs = {pcA}
    EmptyPc = EmptyPc
    Streams = {s1}
    StreamPc <- MCStreamPcOne
    Getters = {g1}
    ChanCapacity = 1
    MaxNow = 1
    Reports = {}
    Report <- MCReport
    None = None
SPECIFICATION Spec
INVARIANT UnexpiredAtWorker
CHECK_DEADLOCK FALSE
