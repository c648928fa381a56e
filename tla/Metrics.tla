------------------------------- MODULE Metrics -------------------------------
(***************************************************************************)
(* metrics.Metrics (metrics/metrics.go): three uint64 counters changed     *)
(* only by atomic adds and read only by atomic loads.  Each add and each   *)
(* load is one atomic step; Snapshot is three loads, so a reader composes  *)
(* it over three steps (the caller's actions).  The counters never come    *)
(* near 2^64 in any bounded run, so they are naturals.                     *)
(***************************************************************************)
EXTENDS Naturals

VARIABLES
    total,     \* TotalRequests
    success,   \* Success
    failed     \* Failed

\* NewMetrics (38-40): every counter starts at zero.
NewMetrics == total = 0 /\ success = 0 /\ failed = 0

\* IncrementTotal (43-45): atomic.AddUint64(&m.TotalRequests, 1).
IncrementTotal == total' = total + 1 /\ UNCHANGED <<success, failed>>

\* IncrementSuccess (48-50): atomic.AddUint64(&m.Success, 1).
IncrementSuccess == success' = success + 1 /\ UNCHANGED <<total, failed>>

\* IncrementFailed (53-55): atomic.AddUint64(&m.Failed, 1).
IncrementFailed == failed' = failed + 1 /\ UNCHANGED <<total, success>>

=============================================================================
