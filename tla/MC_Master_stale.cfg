\* Two workers subscribed under distinct pc ids, two overlapping broadcasts.
CONSTANTS
    n1 = n1  v1 = v1  v2 = v2
    b0 = b0  b1 = b1  b2 = b2
    pcA = pcA  pcB = pcB  s1 = s1  s2 = s2  s3 = s3  g1 = g1  r1 = r1  r2 = r2
    Zero = Zero
    Names = {n1}
    Values = {v1, v2}
    Calls = {b0, b1, b2}
    Request <- MCRequest
    Pcs = {pcA, pcB}
    EmptyPc = EmptyPc
    Streams = {s1, s2, s3}
    StreamPc <- MCStreamPcDistinct
    ChanCapacity = 1
    Getters = {}
    MaxNow = 1
    Reports = {}
    Report <- MCReport
    None = None
SPECIFICATION Spec
INVARIANT LastDeliveredIsCurrent
\* Once every call and stream has been served the master only waits for
\* further RPCs: a final state here is the idle server, not a deadlock.
CHECK_DEADLOCK FALSE
