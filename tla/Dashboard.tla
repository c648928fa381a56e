------------------------------ MODULE Dashboard ------------------------------
(***************************************************************************)
(* The dashboard server (dashboard/server.go lines 1-456): the log ring    *)
(* buffer and its SSE subscribers, the metrics ticker and its SSE          *)
(* subscribers, and the /api/config and /api/proxy handlers that change    *)
(* the shared config and log what they did.                                *)
(*                                                                         *)
(* Every HTTP request, every SSE stream, the ticker goroutine and main's   *)
(* shutdown log line are actors with their own program counter.  AddLog   *)
(* takes logMu and logSubMu one after the other, so it is two steps.  A    *)
(* log entry is identified by the caller that logged it: each caller logs  *)
(* once.  Of the ticker's snapshot, the model keeps the Success and the   *)
(* Failed loads as separate steps: the other fields (TotalRequests, RPS,  *)
(* the session count, the cookie-jar size, the timestamp) are read from   *)
(* atomics and the clock and no property is about them, so a channel     *)
(* holds only the number of snapshots in it.                              *)
(***************************************************************************)
EXTENDS Naturals, Sequences, FiniteSets

CONSTANTS
    Requests,       \* HTTP requests to /api/config and /api/proxy
    Method,         \* Method[r]: "GET", "POST", "OPTIONS" or "PUT"
    Route,          \* Route[r]: "config", "proxy" or "nodes"
    Payload,        \* Payload[r]: the decoded ConfigPayload, or BadBody
    Upload,         \* Upload[r]: how the multipart upload of r goes
    BadBody,        \* a body json.Decode rejects
    Targets,        \* target URLs ("" is EmptyTarget)
    EmptyTarget,
    InitTarget,     \* the TargetURL main's config starts with
    MainLog,        \* main's "received signal" AddLog (main.go:152)
    Jobs,           \* jobFn calls (main.go:108-125) the workers run
    LogStreams,     \* GET /api/logs/stream connections
    MetricsStreams, \* GET /api/metrics/stream connections
    MaxLogs,        \* const maxLogs = 10_000
    LogChanCap,     \* make(chan LogEntry, 256)
    MetricsChanCap, \* make(chan MetricsSnapshot, 16)
    MaxTicks        \* bound on the ticker's ticks

Callers == Requests \cup {MainLog}
Streams == LogStreams \cup MetricsStreams

ASSUME /\ MainLog \notin Requests
       /\ \A r \in Requests : Route[r] \in {"config", "proxy", "nodes"}
       /\ MaxLogs \in Nat \ {0}
       /\ LogChanCap \in Nat \ {0} /\ MetricsChanCap \in Nat \ {0}

\* A Go string is two machine words, a data pointer and a length; a racing
\* reader may see the words of two different strings.  A target is kept as
\* its two words, each named by the string it was written for.
Str(t) == [ptr |-> t, len |-> t]

VARIABLES
    cfg,          \* *s.cfg (main's cfg), guarded by cfgMu in the dashboard only
    logs,         \* s.logs, the ring buffer
    logSubs,      \* s.logSubs
    metricsSubs,  \* s.metricsSubs
    rPc,          \* where each caller is: idle, append, fanout, done
    sPc,          \* where each stream handler is: idle, copied, streaming, closed
    lch,          \* each log stream's channel
    mch,          \* the number of snapshots in each metrics stream's channel
    cancelled,    \* the client's request context is done
    ticks,        \* ticks the metricsTicker goroutine has taken
    jPc,          \* whether each jobFn call has run
    requested,    \* history: the target strings jobs sent requests to
    appended,     \* history: every entry AddLog appended, in order
    written,      \* history: the entries each log stream wrote to its client
    copiedAt,     \* history: Len(appended) when the stream copied s.logs
    lDropped,     \* history: AddLog skipped the stream because lch was full
    total, success, failed,  \* the metrics.Metrics counters
    serving       \* ListenAndServe: not yet called, serving, or failed

Met == INSTANCE Metrics

newVars == <<total, success, failed, serving>>
vars == <<cfg, logs, logSubs, metricsSubs, rPc, sPc, lch, mch, cancelled,
          ticks, jPc, requested, appended, written, copiedAt, lDropped, newVars>>

-----------------------------------------------------------------------------
(* New (98-110): empty buffers and subscriber maps; cfg is main's.         *)
Init ==
    /\ cfg = [target |-> Str(InitTarget), sessions |-> 1, retries |-> 3,
              proxyFile |-> EmptyTarget]
    /\ logs = <<>>
    /\ logSubs = {} /\ metricsSubs = {}
    /\ rPc = [c \in Callers |-> "idle"]
    /\ sPc = [s \in Streams |-> "idle"]
    /\ lch = [s \in LogStreams |-> <<>>]
    /\ mch = [s \in MetricsStreams |-> 0]
    /\ cancelled = [s \in Streams |-> FALSE]
    /\ ticks = 0
    /\ jPc = [j \in Jobs |-> "idle"]
    /\ requested = {}
    /\ appended = <<>>
    /\ written = [s \in LogStreams |-> <<>>]
    /\ copiedAt = [s \in LogStreams |-> 0]
    /\ lDropped = [s \in LogStreams |-> FALSE]
    /\ Met!NewMetrics
    /\ serving = "off"

(***************************************************************************)
(* AddLog (119-144).                                                       *)
(***************************************************************************)

\* Mutant: the slice keeps one entry too many (len(s.logs)-maxLogs-1).
TrimOneMore(l) == IF Len(l) > MaxLogs THEN SubSeq(l, Len(l) - MaxLogs, Len(l)) ELSE l

\* s.logs = s.logs[len(s.logs)-maxLogs:] once the buffer is over maxLogs.
Trim(l) == IF Len(l) > MaxLogs THEN SubSeq(l, Len(l) - MaxLogs + 1, Len(l)) ELSE l

\* Under logMu: append the entry and trim the ring.
LogAppend(c) ==
    /\ rPc[c] = "append"
    /\ logs' = Trim(Append(logs, c))
    /\ appended' = Append(appended, c)
    /\ rPc' = [rPc EXCEPT ![c] = "fanout"]
    /\ UNCHANGED <<cfg, logSubs, metricsSubs, sPc, lch, mch, cancelled, ticks, jPc, requested,
                   written, copiedAt, lDropped, newVars>>

\* Under logSubMu, after logMu was released: a non-blocking send to every
\* subscriber; a full channel drops the entry.
LogFanOut(c) ==
    /\ rPc[c] = "fanout"
    /\ lch' = [s \in LogStreams |->
                 IF s \in logSubs /\ Len(lch[s]) < LogChanCap
                 THEN Append(lch[s], c) ELSE lch[s]]
    /\ lDropped' = [s \in LogStreams |->
                      lDropped[s] \/ (s \in logSubs /\ Len(lch[s]) >= LogChanCap)]
    /\ rPc' = [rPc EXCEPT ![c] = "done"]
    /\ UNCHANGED <<cfg, logs, logSubs, metricsSubs, sPc, mch, cancelled, ticks, jPc, requested,
                   appended, written, copiedAt, newVars>>

AddLog(c) == LogAppend(c) \/ LogFanOut(c)

(***************************************************************************)
(* /api/config (321-363), /api/proxy (414-455), withCORS (177-189) and     *)
(* main's shutdown log line (main.go:151-152).  Every path that answers    *)
(* with an error or only reads changes nothing the model keeps.            *)
(***************************************************************************)

\* withCORS (177-189): an OPTIONS preflight is answered 204 before the
\* handler runs.
CorsPreflight(r) ==
    /\ rPc[r] = "idle"
    /\ Method[r] = "OPTIONS"
    /\ UNCHANGED vars

\* GET /api/config (323-335): a copy of *s.cfg under RLock, encoded.
ConfigGet(r) ==
    /\ rPc[r] = "idle"
    /\ Route[r] = "config" /\ Method[r] = "GET"
    /\ UNCHANGED vars

\* /api/config with an undecodable body (338-343) or another method (360-361).
ConfigRejected(r) ==
    /\ rPc[r] = "idle"
    /\ Route[r] = "config"
    /\ \/ Method[r] = "POST" /\ Payload[r] = BadBody
       \/ Method[r] \notin {"GET", "POST", "OPTIONS"}
    /\ UNCHANGED vars

\* GET /api/nodes (370-407): the master's runtime stats and six fixed worker
\* stubs, encoded; nothing the server keeps is read or written.
NodesGet(r) ==
    /\ rPc[r] = "idle"
    /\ Route[r] = "nodes" /\ Method[r] # "OPTIONS"
    /\ UNCHANGED vars

\* /api/proxy other than POST (415-418), or an upload that fails in
\* ParseMultipartForm, FormFile, CreateTemp or io.Copy (420-443).
ProxyRejected(r) ==
    /\ rPc[r] = "idle"
    /\ Route[r] = "proxy"
    /\ \/ Method[r] \notin {"POST", "OPTIONS"}
       \/ Method[r] = "POST" /\ Upload[r] # "ok"
    /\ UNCHANGED vars

\* POST /api/config (338-358): under cfgMu each field in range replaces the
\* current one; then AddLog.  Assigning TargetURL stores its two words one
\* after the other: ConfigPost the pointer, ConfigStore the length and the
\* remaining fields.  The lock orders these against other handlers only.
ConfigPost(r) ==
    /\ rPc[r] = "idle"
    /\ Route[r] = "config" /\ Method[r] = "POST" /\ Payload[r] # BadBody
    /\ cfg' = IF Payload[r].target # EmptyTarget
              THEN [cfg EXCEPT !.target.ptr = Payload[r].target] ELSE cfg
    /\ rPc' = [rPc EXCEPT ![r] = "store"]
    /\ UNCHANGED <<logs, logSubs, metricsSubs, sPc, lch, mch, cancelled, ticks,
                   jPc, requested, appended, written, copiedAt, lDropped, newVars>>

ConfigStore(r) ==
    /\ rPc[r] = "store"
    /\ LET p == Payload[r] IN
       cfg' = [cfg EXCEPT
                 !.target.len = IF p.target # EmptyTarget THEN p.target ELSE @,
                 !.sessions   = IF p.sessions > 0 /\ p.sessions <= 2000
                                THEN p.sessions ELSE @,
                 !.retries    = IF p.retries > 0 /\ p.retries <= 100
                                THEN p.retries ELSE @]
    /\ rPc' = [rPc EXCEPT ![r] = "append"]
    /\ UNCHANGED <<logs, logSubs, metricsSubs, sPc, lch, mch, cancelled, ticks,
                   jPc, requested, appended, written, copiedAt, lDropped, newVars>>

\* POST /api/proxy whose upload is copied to a fresh temp file: cfg.ProxyFile
\* names that file (the request's own); then AddLog.
ProxyPost(r) ==
    /\ rPc[r] = "idle"
    /\ Route[r] = "proxy" /\ Method[r] = "POST" /\ Upload[r] = "ok"
    /\ cfg' = [cfg EXCEPT !.proxyFile = r]
    /\ rPc' = [rPc EXCEPT ![r] = "append"]
    /\ UNCHANGED <<logs, logSubs, metricsSubs, sPc, lch, mch, cancelled, ticks, jPc, requested,
                   appended, written, copiedAt, lDropped, newVars>>

\* main, on SIGINT/SIGTERM, logs the signal to the dashboard.
SignalLog ==
    /\ rPc[MainLog] = "idle"
    /\ rPc' = [rPc EXCEPT ![MainLog] = "append"]
    /\ UNCHANGED <<cfg, logs, logSubs, metricsSubs, sPc, lch, mch, cancelled,
                   ticks, jPc, requested, appended, written, copiedAt, lDropped, newVars>>

\* jobFn (main.go:108-112), run by a worker, reads cfg.TargetURL without
\* cfgMu.  An empty URL (length word 0) returns at once; otherwise
\* IncrementTotal.
JobRun(j) ==
    /\ jPc[j] = "idle"
    /\ IF cfg.target.len = EmptyTarget
         THEN jPc' = [jPc EXCEPT ![j] = "done"] /\ UNCHANGED <<total, success, failed>>
         ELSE jPc' = [jPc EXCEPT ![j] = "request"] /\ Met!IncrementTotal
    /\ UNCHANGED <<cfg, logs, logSubs, metricsSubs, rPc, sPc, lch, mch, cancelled,
                   ticks, requested, appended, written, copiedAt, lDropped,
                   serving>>

\* main.go:113-124: it reads cfg.TargetURL again, unlocked, and the request
\* goes to whatever string the two words make; a transport error or a
\* status outside 200-399 is IncrementFailed, any other IncrementSuccess.
JobRequest(j) ==
    /\ jPc[j] = "request"
    /\ requested' = requested \cup {cfg.target}
    /\ Met!IncrementSuccess \/ Met!IncrementFailed
    /\ jPc' = [jPc EXCEPT ![j] = "done"]
    /\ UNCHANGED <<cfg, logs, logSubs, metricsSubs, rPc, sPc, lch, mch, cancelled,
                   ticks, appended, written, copiedAt, lDropped,
                   serving>>

\* main's goroutine calls ListenAndServe (server.go:152-163, main.go:75-79):
\* it starts the metricsTicker goroutine, then the listener serves, or
\* fails (the address is taken) and main only logs the error.
Serve ==
    /\ serving = "off"
    /\ serving' \in {"up", "failed"}
    /\ UNCHANGED <<cfg, logs, logSubs, metricsSubs, rPc, sPc, lch, mch, cancelled,
                   ticks, jPc, requested, appended, written, copiedAt, lDropped,
                   total, success, failed>>

(***************************************************************************)
(* handleLogsStream (261-308).                                             *)
(***************************************************************************)

\* Under logMu copy s.logs, then write the copy to the client.  A write that
\* fails (the client went away) returns before the stream subscribes.
LogsHistory(s) ==
    /\ sPc[s] = "idle"
    /\ written' = [written EXCEPT ![s] = logs]
    /\ copiedAt' = [copiedAt EXCEPT ![s] = Len(appended)]
    /\ \/ sPc' = [sPc EXCEPT ![s] = "copied"] /\ UNCHANGED cancelled
       \/ sPc' = [sPc EXCEPT ![s] = "closed"]
          /\ cancelled' = [cancelled EXCEPT ![s] = TRUE]
    /\ UNCHANGED <<cfg, logs, logSubs, metricsSubs, rPc, lch, mch, ticks, jPc,
                   requested, appended, lDropped, newVars>>

\* Only then, under logSubMu, the stream's channel joins s.logSubs.
LogsRegister(s) ==
    /\ sPc[s] = "copied"
    /\ logSubs' = logSubs \cup {s}
    /\ sPc' = [sPc EXCEPT ![s] = "streaming"]
    /\ UNCHANGED <<cfg, logs, metricsSubs, rPc, lch, mch, cancelled, ticks, jPc, requested,
                   appended, written, copiedAt, lDropped, newVars>>

\* case entry := <-ch: sseWrite and Flush.
LogsForward(s) ==
    /\ sPc[s] = "streaming"
    /\ lch[s] # <<>>
    /\ written' = [written EXCEPT ![s] = Append(@, Head(lch[s]))]
    /\ lch' = [lch EXCEPT ![s] = Tail(@)]
    /\ UNCHANGED <<cfg, logs, logSubs, metricsSubs, rPc, sPc, mch, cancelled,
                   ticks, jPc, requested, appended, copiedAt, lDropped, newVars>>

\* Mutant: the handler returns without the deferred delete.
LogsExitNoDelete(s) ==
    /\ sPc[s] = "streaming"
    /\ cancelled[s]
    /\ sPc' = [sPc EXCEPT ![s] = "closed"]
    /\ lch' = [lch EXCEPT ![s] = <<>>]
    /\ UNCHANGED <<cfg, logs, logSubs, metricsSubs, rPc, mch, cancelled, ticks,
                   jPc, requested, appended, written, copiedAt, lDropped, newVars>>

\* case <-ctx.Done() (or a failed sseWrite): return; the deferred delete
\* removes the channel from s.logSubs under logSubMu.
LogsExit(s) ==
    /\ sPc[s] = "streaming"
    /\ cancelled[s]
    /\ logSubs' = logSubs \ {s}
    /\ sPc' = [sPc EXCEPT ![s] = "closed"]
    /\ lch' = [lch EXCEPT ![s] = <<>>]
    /\ UNCHANGED <<cfg, logs, metricsSubs, rPc, mch, cancelled, ticks, jPc, requested,
                   appended, written, copiedAt, lDropped, newVars>>

LogsStream(s) == LogsRegister(s) \/ LogsForward(s) \/ LogsExit(s)

(***************************************************************************)
(* metricsTicker (192-206) and handleMetricsStream (221-257).              *)
(***************************************************************************)

\* One pass of metricsTicker's loop (192-206): snapshot() (208-219) calls
\* metrics.Snapshot's three atomic loads, whose values only fill the JSON
\* the stream writes and no property reads, so they take no step of their
\* own; the snapshot is sent non-blockingly to every subscriber under
\* metricsSubMu, and only its arrival is kept.
Tick ==
    /\ serving # "off"
    /\ ticks < MaxTicks
    /\ ticks' = ticks + 1
    /\ mch' = [s \in MetricsStreams |->
                 IF s \in metricsSubs /\ mch[s] < MetricsChanCap
                 THEN mch[s] + 1 ELSE mch[s]]
    /\ UNCHANGED <<cfg, logs, logSubs, metricsSubs, rPc, sPc, lch, cancelled,
                   jPc, requested, appended, written, copiedAt, lDropped, newVars>>

MetricsRegister(s) ==
    /\ sPc[s] = "idle"
    /\ metricsSubs' = metricsSubs \cup {s}
    /\ sPc' = [sPc EXCEPT ![s] = "streaming"]
    /\ UNCHANGED <<cfg, logs, logSubs, rPc, lch, mch, cancelled, ticks, jPc, requested,
                   appended, written, copiedAt, lDropped, newVars>>

\* case snap := <-ch: marshal, write, flush.
MetricsForward(s) ==
    /\ sPc[s] = "streaming"
    /\ mch[s] > 0
    /\ mch' = [mch EXCEPT ![s] = @ - 1]
    /\ UNCHANGED <<cfg, logs, logSubs, metricsSubs, rPc, sPc, lch, cancelled,
                   ticks, jPc, requested, appended, written, copiedAt, lDropped, newVars>>

MetricsExit(s) ==
    /\ sPc[s] = "streaming"
    /\ cancelled[s]
    /\ metricsSubs' = metricsSubs \ {s}
    /\ sPc' = [sPc EXCEPT ![s] = "closed"]
    /\ mch' = [mch EXCEPT ![s] = 0]
    /\ UNCHANGED <<cfg, logs, logSubs, rPc, lch, cancelled, ticks, jPc, requested,
                   appended, written, copiedAt, lDropped, newVars>>

MetricsStream(s) == MetricsForward(s) \/ MetricsExit(s)

\* The client closes the connection: r.Context() is done.
Cancel(s) ==
    /\ sPc[s] \in {"copied", "streaming"}
    /\ ~cancelled[s]
    /\ cancelled' = [cancelled EXCEPT ![s] = TRUE]
    /\ UNCHANGED <<cfg, logs, logSubs, metricsSubs, rPc, sPc, lch, mch, ticks,
                   jPc, requested, appended, written, copiedAt, lDropped, newVars>>

-----------------------------------------------------------------------------
\* Arrivals are the clients' and the operator's choice; the handlers, once
\* running, and the ticker goroutine are scheduled by the Go runtime.  A
\* request reaches the handler registerRoutes (167-173) gives its route.
Arrivals ==
    \/ \E r \in Requests : \/ CorsPreflight(r) \/ ConfigGet(r) \/ ConfigRejected(r)
                           \/ NodesGet(r)
                           \/ ProxyRejected(r) \/ ConfigPost(r) \/ ProxyPost(r)
    \/ SignalLog
    \/ \E s \in LogStreams : LogsHistory(s)
    \/ \E s \in MetricsStreams : MetricsRegister(s)
    \/ \E s \in Streams : Cancel(s)

Next ==
    \/ serving = "up" /\ Arrivals
    \/ Serve
    \/ \E r \in Requests : ConfigStore(r)
    \/ \E j \in Jobs : JobRun(j) \/ JobRequest(j)
    \/ \E c \in Callers : AddLog(c)
    \/ \E s \in LogStreams : LogsStream(s)
    \/ \E s \in MetricsStreams : MetricsStream(s)
    \/ Tick

Spec ==
    /\ Init /\ [][Next]_vars
    /\ \A r \in Requests : WF_vars(ConfigStore(r))
    /\ \A c \in Callers : WF_vars(AddLog(c))
    /\ \A s \in LogStreams : WF_vars(LogsStream(s))
    /\ \A s \in MetricsStreams : WF_vars(MetricsStream(s))

-----------------------------------------------------------------------------
(***************************************************************************)
(* Properties.                                                             *)
(***************************************************************************)

\* The ring buffer (AddLog's append and trim) holds exactly the most recent
\* min(maxLogs, n) of the n entries ever logged, oldest first: the trim never
\* drops a newer entry or keeps one too many, whatever order callers run in.
LogHistoryIsRecent ==
    LET n == Len(appended)
        k == IF n > MaxLogs THEN MaxLogs ELSE n
    IN logs = SubSeq(appended, n - k + 1, n)

\* A stream whose client went away is eventually closed and its channel
\* removed from the subscriber map (the deferred delete of handleLogsStream
\* and handleMetricsStream), so AddLog and the ticker stop sending to it.
StreamReleased ==
    /\ \A s \in LogStreams :
         cancelled[s] ~> (sPc[s] = "closed" /\ s \notin logSubs)
    /\ \A s \in MetricsStreams :
         cancelled[s] ~> (sPc[s] = "closed" /\ s \notin metricsSubs)

\* A log stream shows its client every entry from the start of the history
\* it copied onwards, each once and in the order AddLog appended them,
\* whenever it is quiet: subscribed, its channel drained, nothing dropped
\* for it, and no AddLog between its append and its fan-out.
LogStreamQuiet(s) ==
    /\ sPc[s] = "streaming"
    /\ lch[s] = <<>>
    /\ ~lDropped[s]
    /\ \A c \in Callers : rPc[c] # "fanout"

HistoryStart(s) ==
    IF copiedAt[s] > MaxLogs THEN copiedAt[s] - MaxLogs + 1 ELSE 1

LogStreamComplete ==
    \A s \in LogStreams :
        LogStreamQuiet(s) => written[s] = SubSeq(appended, HistoryStart(s), Len(appended))

\* Every request a job sends goes to a URL that was configured at some
\* time: the two words jobFn reads of cfg.TargetURL belong to one string,
\* although a dashboard POST may be storing a new one (main.go:109-113
\* against server.go:343-345).
NoTornTarget == \A t \in requested : t.ptr = t.len

====
