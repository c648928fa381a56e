------------------------------- MODULE Engine -------------------------------
(***************************************************************************)
(* One worker node of GoSessionEngine as main.go drives it: the session    *)
(* manager (session/manager.go, part_006), the bounded worker pool         *)
(* (worker/pool.go), the scheduler's control goroutine (scheduler package, *)
(* dashboard/server.go 457-541) and main's startup and shutdown order.     *)
(*                                                                         *)
(* A session is known by its id; a job on the queue is the id of the       *)
(* session jobFn was captured for.  jobFn is two steps of a worker: the   *)
(* target check with IncrementTotal, and the request's outcome counted in  *)
(* the metrics.  Since the scheduler runs without end, the counters are    *)
(* kept as pending = TotalRequests - Success - Failed, the requests whose  *)
(* outcome is not yet counted.  The request, headers, proxy URLs and       *)
(* timestamps are abstracted; the only thing a proxy decides here is       *)
(* whether NewSession fails on it.  The target is fixed once the config is *)
(* loaded: the dashboard's hot update of it is Dashboard.tla's.           *)
(***************************************************************************)
EXTENDS Naturals, Sequences, FiniteSets, SequencesExt

CONSTANTS
    NumberOfSessions,  \* cfg.NumberOfSessions: sessions to create and workers to start
    ProxyFiles,        \* the proxy lists LoadProxies may have produced
    BadProxies,        \* proxies NewHTTPClient rejects (invalid proxy URL)
    Direct,            \* the "" proxy GetNextProxy returns when none are loaded
    NoJob              \* a worker not running a job

ASSUME NumberOfSessions \in Nat \ {0}
ASSUME Direct \notin BadProxies
ASSUME <<>> \in ProxyFiles

Ids == 0 .. NumberOfSessions - 1
\* main.go:95-98: workerCount = cfg.NumberOfSessions, at least 1.
Workers == 1 .. NumberOfSessions
\* worker/pool.go:40: make(chan func(), workerCount*4)
QueueCapacity == 4 * NumberOfSessions

VARIABLES
    proxies,      \* ProxyManager.proxies
    proxyIndex,   \* ProxyManager.index
    sessions,     \* the ids in SessionManager.sessions (the map's domain)
    state,        \* Session.State of every session object ever created
    jobQueue,     \* WorkerPool.jobQueue, a buffered channel
    queueClosed,  \* close(wp.jobQueue) has run
    started,      \* WorkerPool.Start has launched the workers
    job,          \* the job each worker is running, or NoJob
    exited,       \* workers that left `for job := range wp.jobQueue`
    stopCh,       \* Scheduler.stopCh has been closed
    schedPc,      \* where the scheduler's control goroutine is
    schedCount,   \* dispatchJobs: count = sm.Count()
    schedId,      \* dispatchJobs: the loop's id
    mainPc,       \* where main() is
    crashed,      \* an unrecovered panic has ended the process
    targetSet,    \* cfg.TargetURL != ""
    requesting,   \* workers inside jobFn between IncrementTotal and the outcome
    pending       \* TotalRequests - Success - Failed (metrics.go)

jobVars == <<targetSet, requesting, pending>>
vars == <<proxies, proxyIndex, sessions, state, jobQueue, queueClosed, started,
          job, exited, stopCh, schedPc, schedCount, schedId, mainPc, crashed, jobVars>>

States == {"none", "idle", "active", "closed"}
SchedPcs == {"unstarted", "top", "next", "submit", "exited"}
MainPcs == {"config", "proxies", "create", "startPool", "startAll", "startSched", "running",
            "stopSched", "stopPool", "waitPool", "stopAll", "final", "done", "exited"}

\* main returned (normally or by os.Exit) or a goroutine panicked: every
\* goroutine of the process is gone.
Halted == crashed \/ mainPc \in {"done", "exited"}

-----------------------------------------------------------------------------
(* ProxyManager.GetNextProxy (proxy.go:64-74), the k-th call from index i. *)
NextProxy(p, i, k) ==
    IF Len(p) = 0 THEN Direct ELSE p[((i + k) % Len(p)) + 1]

(***************************************************************************)
(* main.go:43-67: the configuration, then the proxy list.                  *)
(***************************************************************************)

\* config.LoadConfig (config.go:61-75): os.Open fails, the strict decoder
\* rejects the JSON (unknown fields included), or the file is loaded.
LoadConfigResults == {"loaded", "failed"}

\* DefaultConfig (config.go:82-92): TargetURL is "".
DefaultTargetSet == FALSE

\* main.go:35-56: with the -config flag, LoadConfig, and os.Exit(1) on its
\* error; a loaded file may or may not name a target.  Without the flag,
\* the DefaultConfig.  (The logger it makes first is not modelled.)  Either config
\* yields NumberOfSessions sessions here.
LoadConfiguration ==
    /\ mainPc = "config"
    /\ \/ /\ \E r \in LoadConfigResults :
             mainPc' = IF r = "failed" THEN "exited" ELSE "proxies"
          /\ targetSet' \in BOOLEAN
       \/ /\ mainPc' = "proxies"
          /\ targetSet' = DefaultTargetSet
    /\ UNCHANGED <<proxies, proxyIndex, sessions, state, jobQueue, queueClosed,
                   started, job, exited, stopCh, schedPc, schedCount, schedId, crashed,
                   requesting, pending>>

\* cfg.ProxyFile set: LoadProxies, and os.Exit(1) if it fails; unset (the
\* empty list): sessions connect directly.
LoadProxyFile ==
    /\ mainPc = "proxies"
    /\ \/ \E pf \in ProxyFiles : proxies' = pf /\ mainPc' = "create"
       \/ mainPc' = "exited" /\ UNCHANGED proxies
    /\ UNCHANGED <<proxyIndex, sessions, state, jobQueue, queueClosed,
                   started, job, exited, stopCh, schedPc, schedCount, schedId, crashed, jobVars>>

(***************************************************************************)
(* main.go:83-88 with SessionManager.CreateSessions (manager.go:46-90).    *)
(* The creation goroutines call GetNextProxy in whatever order the runtime *)
(* runs them; NewSession fails exactly when its proxy is rejected.  The    *)
(* results are registered under the write lock once all goroutines are    *)
(* done; failures are kept out of the map and main exits on any failure.  *)
(***************************************************************************)
CreateSessions ==
    /\ mainPc = "create"
    /\ \E order \in SetToSeqs(Ids) :
        LET failed == {order[k] : k \in {k \in 1 .. Len(order) :
                          NextProxy(proxies, proxyIndex, k - 1) \in BadProxies}}
        IN  /\ sessions' = Ids \ failed
            /\ state' = [i \in Ids |-> IF i \in failed THEN "none" ELSE "idle"]
            /\ mainPc' = IF failed = {} THEN "startPool" ELSE "exited"
    /\ proxyIndex' = IF Len(proxies) = 0 THEN proxyIndex
                     ELSE (proxyIndex + NumberOfSessions) % Len(proxies)
    /\ UNCHANGED <<proxies, jobQueue, queueClosed, started, job, exited,
                   stopCh, schedPc, schedCount, schedId, crashed, jobVars>>

\* main.go:99-100, WorkerPool.Start (pool.go:46-57).
StartPool ==
    /\ mainPc = "startPool"
    /\ started' = TRUE
    /\ mainPc' = "startAll"
    /\ UNCHANGED <<proxies, proxyIndex, sessions, state, jobQueue, queueClosed,
                   job, exited, stopCh, schedPc, schedCount, schedId, crashed, jobVars>>

\* main.go:127, SessionManager.StartAll (manager.go:103-113): idle -> active.
StartAll ==
    /\ mainPc = "startAll"
    /\ state' = [i \in Ids |-> IF i \in sessions /\ state[i] = "idle"
                                THEN "active" ELSE state[i]]
    /\ mainPc' = "startSched"
    /\ UNCHANGED <<proxies, proxyIndex, sessions, jobQueue, queueClosed, started,
                   job, exited, stopCh, schedPc, schedCount, schedId, crashed, jobVars>>

\* main.go:128, Scheduler.Start: the control goroutine is launched.
StartScheduler ==
    /\ mainPc = "startSched"
    /\ schedPc' = "top"
    /\ mainPc' = "running"
    /\ UNCHANGED <<proxies, proxyIndex, sessions, state, jobQueue, queueClosed,
                   started, job, exited, stopCh, schedCount, schedId, crashed, jobVars>>

\* main.go:147-152: SIGINT or SIGTERM arrives.
Signal ==
    /\ mainPc = "running"
    /\ mainPc' = "stopSched"
    /\ UNCHANGED <<proxies, proxyIndex, sessions, state, jobQueue, queueClosed,
                   started, job, exited, stopCh, schedPc, schedCount, schedId, crashed, jobVars>>

\* main.go:155, Scheduler.Stop: close(stopCh) once; it does not wait.
StopScheduler ==
    /\ mainPc = "stopSched"
    /\ stopCh' = TRUE
    /\ mainPc' = "stopPool"
    /\ UNCHANGED <<proxies, proxyIndex, sessions, state, jobQueue, queueClosed,
                   started, job, exited, schedPc, schedCount, schedId, crashed, jobVars>>

\* Mutant: Stop forgets close(wp.jobQueue).
StopPoolNoClose ==
    /\ mainPc = "stopPool"
    /\ mainPc' = "waitPool"
    /\ UNCHANGED <<proxies, proxyIndex, sessions, state, jobQueue, queueClosed, started,
                   job, exited, stopCh, schedPc, schedCount, schedId, crashed, jobVars>>

\* main.go:158, WorkerPool.Stop (pool.go:69-72), first half: close(wp.jobQueue).
StopPool ==
    /\ mainPc = "stopPool"
    /\ queueClosed' = TRUE
    /\ mainPc' = "waitPool"
    /\ UNCHANGED <<proxies, proxyIndex, sessions, state, jobQueue, started,
                   job, exited, stopCh, schedPc, schedCount, schedId, crashed, jobVars>>

\* Mutant: Stop returns without wp.wg.Wait().
WaitPoolSkipped ==
    /\ mainPc = "waitPool"
    /\ mainPc' = "stopAll"
    /\ UNCHANGED <<proxies, proxyIndex, sessions, state, jobQueue, queueClosed,
                   started, job, exited, stopCh, schedPc, schedCount, schedId, crashed, jobVars>>

\* WorkerPool.Stop, second half: wp.wg.Wait() returns once every worker exited.
WaitPool ==
    /\ mainPc = "waitPool"
    /\ exited = Workers
    /\ mainPc' = "stopAll"
    /\ UNCHANGED <<proxies, proxyIndex, sessions, state, jobQueue, queueClosed,
                   started, job, exited, stopCh, schedPc, schedCount, schedId, crashed, jobVars>>

\* main.go:161, SessionManager.StopAll (manager.go:116-123) with Session.Close:
\* every registered session is closed and deleted from the map.
StopAll ==
    /\ mainPc = "stopAll"
    /\ state' = [i \in Ids |-> IF i \in sessions THEN "closed" ELSE state[i]]
    /\ sessions' = {}
    /\ mainPc' = "final"
    /\ UNCHANGED <<proxies, proxyIndex, jobQueue, queueClosed, started, job,
                   exited, stopCh, schedPc, schedCount, schedId, crashed, jobVars>>

\* main.go:163-166: the final metrics are logged and main returns.
MainReturn ==
    /\ mainPc = "final"
    /\ mainPc' = "done"
    /\ UNCHANGED <<proxies, proxyIndex, sessions, state, jobQueue, queueClosed,
                   started, job, exited, stopCh, schedPc, schedCount, schedId, crashed, jobVars>>

-----------------------------------------------------------------------------
(***************************************************************************)
(* The scheduler's control goroutine (Scheduler.Start and dispatchJobs).   *)
(***************************************************************************)

\* The select at the top of the loop: return once stopCh is closed, otherwise
\* start a dispatchJobs pass with count := sm.Count() (read-locked).
SchedLoop ==
    /\ schedPc = "top"
    /\ IF stopCh
         THEN /\ schedPc' = "exited"
              /\ UNCHANGED <<schedCount, schedId, jobVars>>
         ELSE /\ schedPc' = "next"
              /\ schedCount' = Cardinality(sessions)
              /\ schedId' = 0
    /\ UNCHANGED <<proxies, proxyIndex, sessions, state, jobQueue, queueClosed,
                   started, job, exited, stopCh, mainPc, crashed, jobVars>>

\* Mutant: the loop bound is off by one (id < count-1).
SchedLookupOffByOne ==
    /\ schedPc = "next"
    /\ \/ /\ schedId >= schedCount - 1
          /\ schedPc' = "top"
          /\ UNCHANGED schedId
       \/ /\ schedId < schedCount - 1
          /\ schedId \in sessions
          /\ schedPc' = "submit"
          /\ UNCHANGED schedId
       \/ /\ schedId < schedCount - 1
          /\ schedId \notin sessions
          /\ schedId' = schedId + 1
          /\ UNCHANGED schedPc
    /\ UNCHANGED <<proxies, proxyIndex, sessions, state, jobQueue, queueClosed,
                   started, job, exited, stopCh, schedCount, mainPc, crashed, jobVars>>

\* One turn of `for id := 0; id < count; id++`: GetSession(id), skipping a
\* missing session, or the end of the pass.
SchedLookup ==
    /\ schedPc = "next"
    /\ \/ /\ schedId >= schedCount
          /\ schedPc' = "top"
          /\ UNCHANGED schedId
       \/ /\ schedId < schedCount
          /\ schedId \in sessions
          /\ schedPc' = "submit"
          /\ UNCHANGED schedId
       \/ /\ schedId < schedCount
          /\ schedId \notin sessions
          /\ schedId' = schedId + 1
          /\ UNCHANGED schedPc
    /\ UNCHANGED <<proxies, proxyIndex, sessions, state, jobQueue, queueClosed,
                   started, job, exited, stopCh, schedCount, mainPc, crashed, jobVars>>

\* Mutant: the send does not wait for room in the buffer.
SchedSubmitUnbounded ==
    /\ schedPc = "submit"
    /\ ~queueClosed
    /\ jobQueue' = Append(jobQueue, schedId)
    /\ schedId' = schedId + 1
    /\ schedPc' = "next"
    /\ UNCHANGED <<proxies, proxyIndex, sessions, state, queueClosed, started,
                   job, exited, stopCh, schedCount, mainPc, crashed, jobVars>>

\* wp.Submit(job): `wp.jobQueue <- job` blocks while the buffer is full.
SchedSubmit ==
    /\ schedPc = "submit"
    /\ ~queueClosed
    /\ Len(jobQueue) < QueueCapacity
    /\ jobQueue' = Append(jobQueue, schedId)
    /\ schedId' = schedId + 1
    /\ schedPc' = "next"
    /\ UNCHANGED <<proxies, proxyIndex, sessions, state, queueClosed, started,
                   job, exited, stopCh, schedCount, mainPc, crashed, jobVars>>

\* A send on a closed channel, or a sender blocked on it when it is closed,
\* panics: nothing recovers it, so the process dies.
SchedSubmitPanics ==
    /\ schedPc = "submit"
    /\ queueClosed
    /\ crashed' = TRUE
    /\ UNCHANGED <<proxies, proxyIndex, sessions, state, jobQueue, queueClosed,
                   started, job, exited, stopCh, schedPc, schedCount, schedId, mainPc, jobVars>>

-----------------------------------------------------------------------------
(***************************************************************************)
(* The worker goroutines of WorkerPool.Start (pool.go:49-55).              *)
(***************************************************************************)

\* `for job := range wp.jobQueue` receives the next job.
WorkerTake(w) ==
    /\ started
    /\ w \notin exited
    /\ job[w] = NoJob
    /\ jobQueue # <<>>
    /\ job' = [job EXCEPT ![w] = Head(jobQueue)]
    /\ jobQueue' = Tail(jobQueue)
    /\ UNCHANGED <<proxies, proxyIndex, sessions, state, queueClosed, started,
                   exited, stopCh, schedPc, schedCount, schedId, mainPc, crashed, jobVars>>

\* job() calls jobFn(captured) (main.go:108-113): with no target it returns
\* at once; otherwise IncrementTotal and the request on the captured
\* session starts.  ExecuteRequest never looks at the session's State.
WorkerRun(w) ==
    /\ job[w] # NoJob
    /\ w \notin requesting
    /\ IF targetSet
         THEN /\ pending' = pending + 1
              /\ requesting' = requesting \cup {w}
              /\ UNCHANGED job
         ELSE /\ job' = [job EXCEPT ![w] = NoJob]
              /\ UNCHANGED <<requesting, pending>>
    /\ UNCHANGED <<proxies, proxyIndex, sessions, state, jobQueue, queueClosed,
                   started, exited, stopCh, schedPc, schedCount, schedId, mainPc, crashed,
                   targetSet>>

\* Mutant: the error path returns without IncrementFailed.
WorkerFinishErrorUncounted(w) ==
    /\ w \in requesting
    /\ \/ pending' = pending - 1   \* IncrementSuccess
       \/ UNCHANGED pending         \* the error path
    /\ requesting' = requesting \ {w}
    /\ job' = [job EXCEPT ![w] = NoJob]
    /\ UNCHANGED <<proxies, proxyIndex, sessions, state, jobQueue, queueClosed,
                   started, exited, stopCh, schedPc, schedCount, schedId, mainPc, crashed,
                   targetSet>>

\* The request returns (main.go:113-125): a transport error or a status
\* outside 200-399 is IncrementFailed, a 2xx/3xx is IncrementSuccess; then
\* job() returns.
WorkerFinish(w) ==
    /\ w \in requesting
    /\ pending' = pending - 1   \* IncrementSuccess or IncrementFailed
    /\ requesting' = requesting \ {w}
    /\ job' = [job EXCEPT ![w] = NoJob]
    /\ UNCHANGED <<proxies, proxyIndex, sessions, state, jobQueue, queueClosed,
                   started, exited, stopCh, schedPc, schedCount, schedId, mainPc, crashed,
                   targetSet>>

\* The range loop ends once the channel is closed and drained; wg.Done().
WorkerExit(w) ==
    /\ started
    /\ w \notin exited
    /\ job[w] = NoJob
    /\ queueClosed
    /\ jobQueue = <<>>
    /\ exited' = exited \cup {w}
    /\ UNCHANGED <<proxies, proxyIndex, sessions, state, jobQueue, queueClosed,
                   started, job, stopCh, schedPc, schedCount, schedId, mainPc, crashed, jobVars>>

-----------------------------------------------------------------------------
\* NewScheduler (server.go:488-494): a fresh stopCh; no goroutine yet.
NewScheduler == stopCh = FALSE /\ schedPc = "unstarted"

Init ==
    /\ proxies = <<>>
    /\ proxyIndex = 0
    /\ sessions = {}
    /\ state = [i \in Ids |-> "none"]
    /\ jobQueue = <<>>
    /\ queueClosed = FALSE
    /\ started = FALSE
    /\ job = [w \in Workers |-> NoJob]
    /\ exited = {}
    /\ NewScheduler
    /\ schedCount = 0
    /\ schedId = 0
    /\ mainPc = "config"
    /\ crashed = FALSE
    /\ targetSet = DefaultTargetSet
    /\ requesting = {}
    /\ pending = 0    \* NewMetrics

MainStep ==
    \/ LoadConfiguration \/ LoadProxyFile \/ CreateSessions \/ StartPool \/ StartAll \/ StartScheduler
    \/ StopScheduler \/ StopPool \/ WaitPool \/ StopAll \/ MainReturn

SchedStep == SchedLoop \/ SchedLookup \/ SchedSubmit \/ SchedSubmitPanics

WorkerStep(w) == WorkerTake(w) \/ WorkerRun(w) \/ WorkerFinish(w) \/ WorkerExit(w)

\* Once the process is gone nothing happens any more.
Terminated == Halted /\ UNCHANGED vars

Next ==
    \/ ~Halted /\ (MainStep \/ Signal \/ SchedStep \/ \E w \in Workers : WorkerStep(w))
    \/ Terminated

(* The Go runtime schedules every runnable goroutine eventually; the       *)
(* signal is the operator's choice and is not fair.                        *)
Fairness ==
    /\ WF_vars(~Halted /\ MainStep)
    /\ WF_vars(~Halted /\ SchedStep)
    /\ \A w \in Workers : WF_vars(~Halted /\ WorkerStep(w))

Spec == Init /\ [][Next]_vars /\ Fairness

-----------------------------------------------------------------------------
TypeOK ==
    /\ proxies \in ProxyFiles
    /\ sessions \subseteq Ids
    /\ state \in [Ids -> States]
    /\ jobQueue \in Seq(Ids) /\ Len(jobQueue) <= QueueCapacity
    /\ job \in [Workers -> Ids \cup {NoJob}]
    /\ exited \subseteq Workers
    /\ schedPc \in SchedPcs /\ mainPc \in MainPcs
    /\ {queueClosed, started, stopCh, crashed, targetSet} \subseteq BOOLEAN
    /\ requesting \subseteq Workers /\ pending \in Nat

(***************************************************************************)
(* No job, queued or running, is for a closed session.  main.go:155-161    *)
(* relies on Scheduler.Stop, then WorkerPool.Stop draining every submitted *)
(* job, before StopAll closes the sessions: a job left on the queue or a   *)
(* worker let go early would send its request through a closed session.   *)
(***************************************************************************)
NoJobOnClosedSession ==
    /\ \A w \in Workers : job[w] # NoJob => state[job[w]] # "closed"
    /\ \A k \in 1 .. Len(jobQueue) : state[jobQueue[k]] # "closed"

(* Nothing panics: Submit is never called on the closed job queue          *)
(* (pool.go:61 "Submit must not be called after Stop"), which is what the  *)
(* shutdown order of spec section 5 is meant to ensure.                    *)
NoPanic == ~crashed

(***************************************************************************)
(* While the engine runs, every registered session keeps being served:     *)
(* whenever it is in the map, a worker eventually runs a job for it (or    *)
(* shutdown has begun).  dispatchJobs walks ids 0 .. Count()-1 against the *)
(* back-pressure of the bounded queue.                                     *)
(***************************************************************************)
ServedWhileRunning ==
    \A i \in Ids :
        (mainPc = "running" /\ i \in sessions)
            ~> (i \in Range(job) \/ mainPc # "running")

(* Once the signal has been handled, the process ends: main returns or a  *)
(* goroutine panics.  Stop must not wait for a worker that never exits.   *)
ShutdownCompletes == (mainPc = "stopSched") ~> Halted

(***************************************************************************)
(* The final metrics line (main.go:163-165) counts every request: once     *)
(* wp.Stop has returned, each request jobFn counted in TotalRequests has   *)
(* its outcome in Success or Failed.  It takes wp.Stop to wait for the     *)
(* workers, a worker to leave the range loop only between jobs, and every  *)
(* path of jobFn after IncrementTotal to count an outcome.                 *)
(***************************************************************************)
FinalMetricsComplete == mainPc \in {"final", "done"} => pending = 0

=============================================================================
