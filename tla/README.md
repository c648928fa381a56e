# TLA+ models of GoSessionEngine

These modules model the concurrent core of GoSessionEngine and check it with TLC.
- **Worker node:** main's startup and shutdown, the session manager, the scheduler's control goroutine and the bounded worker pool.
- **Cluster master:** the Global Cookie Jar, the BroadcastCookie fan-out and the WatchCookies streams.
- **Dashboard:** the log ring, the log and metrics SSE streams, the config and proxy handlers, and the job that reads the configured target URL.
- **Metrics:** the three atomic counters, used by the job and the dashboard's metrics snapshot.
- **Ordered headers:** `OrderedHeader`, shown to implement an abstract case-insensitive header map.
- **Client fingerprint:** `ApplyHeaders` of the browser profiles on a session's header map, the request `ExecuteRequest` builds from that map, and the sensor payload's mouse path.
- **Logger:** the levelled logger every component shares, shown to implement an atomic levelled log.
- **Token refresh:** the `TokenRefreshManager`'s auto-refresh loop over a clock.

Every action is translated from the Go source. `PROJECT.json` maps each definition to the lines it models.

## The system and how its parts interact

**Worker node (`main.go`)**
- Startup:
  0. It loads the config (`-config` with `LoadConfig`, exiting on error, or `DefaultConfig`, whose target is empty), creates the metrics and starts the dashboard server.
  1. It loads proxies (`ProxyManager`, `unnamed/part_007`).
  2. `SessionManager.CreateSessions` (`unnamed/part_006`) creates one session per id in parallel goroutines. Each goroutine takes the next proxy round-robin. `NewSession` fails on an invalid proxy. The process exits if any session failed.
  3. It starts `workerCount = NumberOfSessions` workers (`worker/pool.go`) on a channel of capacity `4*workerCount`.
  4. It marks every session active (`StartAll`).
  5. It starts the scheduler (`dashboard/server.go` lines 479-541). The scheduler's goroutine loops `select { stopCh: return; default: dispatchJobs }`. Each pass submits one job per registered session id; `Submit` blocks while the queue is full.
- Shutdown, on SIGINT/SIGTERM:
  1. `sc.Stop()` closes `stopCh` and does not wait.
  2. `wp.Stop()` closes the queue and waits for the workers to drain it.
  3. `sm.StopAll()` closes and removes every session.

**Cluster master (`unnamed/part_018`)**
- It holds the jar: a name→cookie map under an RW lock, plus an atomic version.
- `BroadcastCookie` stores cookies, takes a snapshot, and sends it non-blockingly to every subscriber channel (capacity 32) under `subMu`.
- `WatchCookies` does the following:
  1. registers a subscriber under its pc id;
  2. sends the current snapshot;
  3. forwards channel messages until its context is cancelled;
  4. on exit, deletes the pc id's entry.
- A worker's `WorkerClient.WatchCookies` (`cluster/worker_client.go`) runs a reader goroutine that hands every message to `onUpdate` in arrival order.
- `WorkerClient.BroadcastCookie` converts each `http.Cookie`'s `Expires` to `ExpiresUnix`; `GetCookies` fetches the jar's snapshot and `pbCookiesToHTTP` drops cookies that are expired at the worker's clock.
- `WorkerClient.ReportStatus` calls `UpdateStatus`, which overwrites the session's entry in the status registry (last writer wins).

**Per-session helpers**
- `HeartbeatManager` (`unnamed/part_002`): a sync.Map of session states with a CAS claim and an extract/merge of response cookies.
- `TokenRefreshManager` (`unnamed/part_003`): the token under an RW lock, with auto-refresh and heartbeat loops.
- `InMemoryLock` (`client/tls_dialer_test.go` lines 60-269): per-key mutexes with waiter counts and cancellable Lock.
- The schema `Validator` (`unnamed/part_014`): flattens JSON into dot paths and diffs them against a baseline.
- `OrderedHeader` (`client/ordered_header.go`).
- `Profile.ApplyHeaders` (`fingerprint/fingerprint.go`): writes a browser profile's User-Agent and the extra headers the session has not set.
- The sensor payload generator (`fingerprint/sensor.go`): random navigator data and a mouse path of 18-45 moves followed by a click.

**Dashboard (`dashboard/server.go` lines 1-456)**
- `AddLog` appends to a ring of `maxLogs` entries under `logMu`, then, under `logSubMu`, sends the entry non-blockingly to every log subscriber channel.
- `handleLogsStream` copies the ring under `logMu`, writes the copy, then subscribes under `logSubMu` and forwards until the client goes away; a deferred delete unsubscribes.
- `metricsTicker` sends a snapshot to every metrics subscriber every 100 ms; `handleMetricsStream` subscribes, forwards and unsubscribes the same way.
- `handleConfig` POST rewrites `TargetURL`, `NumberOfSessions` and `MaxRetries` under `cfgMu` and then calls `AddLog`; `handleProxy` stores the uploaded file's name and calls `AddLog`.
- The config is the same `*Config` main hands to `jobFn` (`main.go:108-125`), which reads `TargetURL` without the lock, counts the request in `TotalRequests` and then its outcome in `Success` or `Failed`.
- `metricsTicker` builds its snapshot with three separate atomic loads (`metrics.go:72-74`), so jobs finish between them; the comment at `metrics.go:68-71` accepts that, and the values only fill the JSON the stream writes.

**Logger (`logger/logger.go`)**
- Every component logs through a `Logger`. `Info`, `Error` and `Debug` load the level under a read lock, release it, and only then compare and write; `SetLevel` stores a new level under the write lock.
- main creates it with `New(LevelInfo)` and never calls `SetLevel`, but the type is documented as safe for concurrent use, and the model checks it under concurrent `SetLevel` calls.

**Library code main does not call.** `main.go` constructs no `HeartbeatManager`, `TokenRefreshManager`, `WorkerClient`, `OrderedHeader` or fingerprint `Profile`, and never generates a sensor payload or calls `Logger.SetLevel`. These are exported packages that other programs, and the repository's tests, use. The modules of them (`HeartbeatState`, `TokenRefresh`, `Master`'s worker side, `OrderedHeader`, `Fingerprint`, `Sensor`, `Logger`) check the packages under the concurrent use their doc comments allow, not a use this binary makes; a property that fails there is a hazard for callers, not a failure of the worker node.

**Not concurrent or not checkable:** the TLS/HTTP2 fingerprinting transport, the otto-based JS solver and the React frontend.

## Modules

### `Engine.tla` (with `MC_Engine.tla`)

This module models one worker node.

**State**
- `ProxyManager.proxies` and `ProxyManager.index`.
- The session map's ids and each session's `State`.
- The job queue as a sequence, plus whether it is closed.
- Each worker's current job and whether it has exited.
- `stopCh`.
- The scheduler's program counter, its `count` and its loop `id`.
- main's program counter and whether the loaded config names a target.
- `requesting` and `pending`: the jobs inside their request, and `TotalRequests - Success - Failed`. The counters themselves grow without bound, since the scheduler loops for ever, so the model keeps only their difference, which is all `FinalMetricsComplete` reads.
- `crashed`, for an unrecovered panic.

**Actions**
- **main:** `LoadConfiguration`, `LoadProxyFile`, `CreateSessions` (goroutines pick proxies in any order), `StartPool`, `StartAll`, `StartScheduler`, `Signal`, `StopScheduler`, `StopPool` (close), `WaitPool` (wg.Wait), `StopAll`, `MainReturn`.
- **scheduler:**
  - `SchedLoop`: the select; `count := Count()`.
  - `SchedLookup`: end of pass, session found, or id missing.
  - `SchedSubmit`: blocking send.
  - `SchedSubmitPanics`: send on a closed queue.
- **workers:** `WorkerTake` (range receive), `WorkerRun` (jobFn's target check, `IncrementTotal` and the request), `WorkerFinish` (`IncrementSuccess` or `IncrementFailed`), `WorkerExit` (the range ends).

**Abstraction**
- A job is the id of the session its closure captured.
- The HTTP request and headers are inside `WorkerRun`; only its outcome (success or error) is kept. `ExecuteRequest` never reads the session state, so nothing in it could stop a job on a closed session.

### `Master.tla` (with `MC_Master.tla`)

This module models the master's jar, broadcasts and watch streams.

**State**
- The jar's entries and version.
- Per broadcast call: a program counter, the `ver` from Store, and the `resp` it built.
- `subs` keyed by pc id.
- Per stream: a program counter, the channel, cancellation, and the last message the worker applied (its jar).
- `now`, the clock in whole seconds up to `MaxNow`; per `GetCookies` call, what it returned and when.
- `statuses`, the status registry, and `reported`, the reports already made.
- History variables that no code reads:
  - `applied`: the calls whose Store has written the jar;
  - `regApplied`: `applied` at a stream's registration;
  - `got`: the calls reflected in anything delivered;
  - `dropped`: set when a fan-out found the channel full.

**Actions**
- **Store** is split at the point where the jar lock is released: `BroadcastStore` writes the entries under the lock, then `BroadcastVersion` runs `version.Add(1)`.
- **BroadcastCookie:** `BroadcastSnapshot` takes the separate `Snapshot` and pairs it with Store's version. `BroadcastFanOut` sends to every subscriber under `subMu` and drops when a channel is full.
- **WatchCookies:** `WatchRegister`, `WatchInitial`, `WatchForward` and `WatchExit`. `WatchExit` covers both a cancelled context and a failed send, and runs the deferred delete by pc id.
- **Worker side:** `Deliver` is `onUpdate`. `Cancel` is the worker cancelling its stream. `GetCookies(g)` is the snapshot converted by `PbCookiesToHTTP` at the current time. `ReportStatus(r)` is one report and the registry's overwrite.
- **Clock:** `Tick` advances `now`.
- **Rejections:** an empty cookie list or an empty pc id is rejected before any state is touched, so those actions are steps that change nothing.
- A cookie is a name, a value and an `Expires`: `Zero` (a session cookie) or a second on the clock. `ToPb` gives 0 for the zero time and `Expires.Unix()` otherwise. A cookie deleted with `Expires` at the Unix epoch therefore also gets 0, which the reader takes as "no expiry". Domain and path are not modelled.

### `HeartbeatState.tla` (with `MC_HeartbeatState.tla`)

This module models the `HeartbeatManager` session-state store (`unnamed/part_002`).

**State**
- `sessions`: the sync.Map, one `SessionState` per id. Each stored state carries a `ptr`, the identity of the heap object, taken from `nextPtr` on every store. `sync.Map.CompareAndSwap` compares pointers, not contents, so `ptr` is what `ClaimCAS` compares.
- Per claimer: a program counter, the id it found, and the `old` pointer it loaded.
- Per extractor (each solver, and `"hb"` for the keep-alive goroutine): a program counter, the id, the copied `base` and the response.
- The keep-alive goroutine: its program counter, its index into `sessionIDs`, the ticks taken, and the `sync.Once` and `stopCh` state.
- History variables that no code reads:
  - `won`: the pointer each claimer's CAS swapped out;
  - `merged`: the cookies every extract of an id has asked to store.

**Actions**
- `Claim`: `FindAvailable` (Range stops at any available state), then `ClaimLoad` (load, the `Available` check) and `ClaimCAS`.
- `Solve`: one `ExtractFromResponse` by a solver. `ExtractLoad` is `GetState` plus the copy; `ExtractStore` is `mergeCookies`, the token from a jwt/token cookie or a bearer header, and `SetState`.
- `Start` and `Stop` consume the `sync.Once`; `Stop` closes `stopCh`.
- `Keepalive`: `HbExit` (stopCh ready), `HbTick` (a tick; with a keep-alive URL the request succeeds) and `HbExtract` (one `ExtractFromResponse` per id in `sessionIDs`, all with the same response).
- `stopCalled` is a history variable: `Stop` has returned. A second `Stop` finds the `Once` used and changes nothing, so it is not modelled.
- A response is a member of a small set: no cookies, a session cookie, or a jwt cookie with a bearer header.

### `Dashboard.tla` (with `MC_Dashboard.tla`)

This module models the dashboard server and the job that reads its config.

**State**
- `cfg`: the shared config. `TargetURL` is a Go string, two machine words; the model keeps them as `[ptr, len]`, and a string whose words name different targets is torn.
- `logs`: the ring; `logSubs` and `metricsSubs`: the subscriber maps; `lch` and `mch`: each stream's channel (a sequence of callers' entries, and a count of snapshots).
- `rPc`: each request handler's and main's step; `sPc` and `cancelled`: each stream's step and whether its context is done; `jPc`: each job.
- `total`, `success`, `failed`: the metrics counters (`Metrics.tla`, instantiated); `serving`: whether `ListenAndServe` is up.
- History variables no code reads: `appended` (every entry ever appended, in append order), `written` (what each log stream wrote to its client), `copiedAt` (how much had been appended when the stream copied the ring), `requested` (the targets jobs requested), `lDropped`.

**Actions**
- `AddLog(c)` is two steps, as in the code: `LogAppend` (append and `Trim`, under `logMu`) and `LogFanOut` (the non-blocking send to each subscriber, under `logSubMu`). Between them, other callers and streams run.
- Requests: `CorsPreflight`, `ConfigGet`, `ConfigRejected` and `ProxyRejected` answer without changing state; `ConfigPost` and `ConfigStore` are the POST's two stores of the target string's words (then the range-checked fields); `ProxyPost` stores the proxy file; all of them then run `AddLog`. `SignalLog` is main's shutdown log line.
- `JobRun(j)`: `jobFn`'s unlocked read of `TargetURL`, returning early on an empty one, then `IncrementTotal`. `JobRequest(j)`: the second unlocked read that builds the request, and `IncrementSuccess` or `IncrementFailed`.
- `Serve`: `ListenAndServe` starts the ticker and then serves or fails; requests arrive only while it serves.
- `NodesGet`: `handleNodes`, a read of runtime stats.
- Log streams: `LogsHistory` (copy and write; a failed write returns), `LogsRegister`, `LogsForward`, `LogsExit` (with the deferred delete). Metrics streams: `MetricsRegister`, `MetricsForward`, `MetricsExit`. `Tick` is one ticker pass: `snapshot()`'s three loads, whose values no property reads, and the non-blocking send to each subscriber; only a snapshot's arrival in a channel is kept. `Cancel` is the client closing the connection.

### `OrderedHeader.tla` and `HttpHeader.tla` (checked in `MC_Engine.tla`)

`OrderedHeader` models `client/ordered_header.go`: `entries` is the slice of (key, value) pairs, and `http.CanonicalHeaderKey` is a constant map `Canon` from the keys used to their canonical forms.
- `Add` appends. `Set` is `SetEntries`, a fold over the entries that replaces the first match with the new pair, drops later matches, and appends when nothing matched. `Del` keeps the non-matching entries. `Get` returns the first match's value, or the empty string (`NoValue`); `Get`, `ApplyToRequest` and `ToHTTPHeader` are operators that no property uses.
- The number of entries is bounded by `MaxEntries`; `Add` and `Set` are disabled beyond it.

`HttpHeader` is the abstract specification: a map from canonical key to the sequence of its values, with `Add`, `Set` and `Del` as `net/http`'s `Header` defines them. `OrderedHeader` instantiates it with `hdr` mapped to the values of each canonical key in entry order, and checks `HH!Spec` as a property: every step of the ordered header is a step of the header map.

`KeyOrder` is the order of first appearance of the canonical keys in the slice, the order `OrderedHeader`'s doc comment promises. It is a property of the slice only: `ApplyToRequest` copies the entries into a Go map, and `net/http` does not write that map in insertion order.

`MC_Engine.tla` adds the header as a second branch: each behaviour is either the worker node or a sequence of header operations, chosen by the variable `branch`, and `OrderedHeader` is taken with `INSTANCE` because its `Init` and `Next` share their names with `Engine`'s.

### `Metrics.tla`

`metrics/metrics.go`: `NewMetrics` and the three atomic increments, each one step. `Dashboard` instantiates it; `Engine` keeps only the difference of its counters, as explained above.

### `Fingerprint.tla`

`fingerprint/fingerprint.go`: `ChromeProfile` and `FirefoxProfile` as records of header names in list order (a header's value is `<<browser, name>>`), and `ApplyHeaders` as a fold over the extra headers that writes only absent keys, after setting User-Agent. The state is one session's `Headers` map (or a nil map) and the names the session's own code wrote (`SessionSet`); `Apply(p)` runs either profile at any time.
- `ExecuteRequest` is `Session.ExecuteRequest`'s copy of the map into the request (`part_006:241-243`): `req.Header.Set` for each key in Go's unspecified map order, so of two raw keys with one canonical form either may be sent; the model chooses which. `sent` records the header sent and the names the session had written by then.
- The session writes `Accept`, `accept` and `Sec-Fetch-User`; `CanonicalHeaderKey` maps `accept` to `Accept`.
- `MC_Fingerprint.tla` checks it alone; `MC_HeartbeatState.tla` runs it as a fifth branch so every action fires in a passing run.

### `Sensor.tla`

`fingerprint/sensor.go`: `GenerateSensorPayload` and `generateMousePath`.
- **State:** the loop's `n` (`pathLen`) and `i` (`sample`), the event kinds appended so far, and `last`, the timestamps of the points the last step appended minus the timestamp before that step.
- **Actions:**
  - `GenerateSensorPayload` draws `n` from 18-45.
  - `SampleMove` is one loop iteration, with delay `MoveDelay(base, j)`: the base `round(12/(0.6 + sin(pi*rawT)))`, jitter `Intn(6) - 2`, and the clamp at 4.
  - `Click` appends mousedown at `lastT + 20..59` and mouseup at `lastT + 80..199`.
  - `ReturnPayload` hands the path back.
- **Abstraction:**
  - The base delay is a float computation of `i` and `n`. Its range is 8-20, and every sample may take any value in it.
  - Coordinates, the screen, navigator fields and the canvas hash are random values that no property reads.
  - Absolute times are dropped, because only the order of consecutive points is checked.

### `Logger.tla` and `LevelledLog.tla`

`Logger` models `logger/logger.go`.
- **State:** `level`; for each calling goroutine, `lPc` (`"idle"` or `"loaded"`), `lvl` (the level its current call loaded) and `out` (whether its latest finished call wrote its message).
- **Actions:** `New`; `SetLevel(s)`; and for each caller, the method its kind names (`Info`, `Error` or `Debug`, each including its `f` variant). Each method is `LogLoad` (the load between `RLock` and `RUnlock`) followed by `LogOutput` (the comparison `lvl <= min` and the write). Callers call again and again, and setters set again and again.
- **Abstraction:** the message text and the formatting are dropped. `log.Logger` serialises its own writes, so a write is one step.

`LevelledLog` is the abstract specification: a logger whose calls check the level and write at one instant. `Logger` instantiates it with `out` mapped, for a call that has loaded but not yet written, to the outcome its loaded level decides. `ImplementsLevelledLog` checks `LL!Spec` as a property: the calls are linearizable, with the load as the linearization point.

### `TokenRefresh.tla`

`TokenRefresh` models the `TokenRefreshManager` of `unnamed/part_003`.
- **State:** `token`; `now`, the clock in whole seconds up to `MaxNow`; `arPc`, the auto-refresh goroutine (`"wait"`, `"refresh"` inside `Refresh`, `"set"` between the response and `SetToken`, `"exited"`); `fetched`, the token read from the response; `tStopped`, whether `stopCh` is closed.
- **Actions:**
  - `SetToken(t)` is the session's own code storing a token, which may be empty.
  - `AutoCheck` is a tick of the loop. It reads the token, skips an empty one, refreshes one that does not parse, and refreshes one whose `exp - refreshBefore` deadline `time.Now()` is after.
  - `RefreshFailed` is a failed `Refresh`: the GET failed, the status was not 2xx, or the body was unreadable or empty. The loop drops the error.
  - `RefreshFetched` and `RefreshSet` are a successful `Refresh`: the GET, then the store.
  - `AutoExit` is the `stopCh` case, and `TokenStop` is `Stop`.
  - `ClockTick` advances the clock.
- **Abstraction:**
  - A token is a model value, and `Exp[t]` is its exp claim: a second on the clock, `NoExp` (missing or not a number), or `Malformed` (`ParseClaims` fails).
  - `time.Now()` lies somewhere in the current second, so `After` is certain past the deadline's second and may go either way within it.
  - `StartHeartbeat`'s loop and `SendHeartbeat` only read the token to send a request, and are left out.

### `MC_HeartbeatState.tla`: five components in one run

`MC_HeartbeatState.tla` checks `HeartbeatState`, `Sensor`, `Logger`, `TokenRefresh` and `Fingerprint`. They share no state, so each behaviour picks one component with the variable `branch`, drawn from the constant `Branches`. The other components' variables keep their initial values. A run therefore explores the sum of the five state spaces, not their product. Outside its branch the token manager holds the empty token, so its fair actions are never enabled there, and the session's header map is nil.

## Runs

| run | cfg | expect | what it shows |
|---|---|---|---|
| engine_main | MC_Engine.cfg | pass | `NoJobOnClosedSession`, `FinalMetricsComplete`, `ServedWhileRunning`, `ShutdownCompletes` (and `TypeOK`) hold, over configs with and without a target; in the header branch, `ImplementsHttpHeader` and `OrderPreserved` hold for every sequence of Add, Set and Del. |
| engine_panic | MC_Engine_panic.cfg | violation | `NoPanic`: the scheduler's Submit panics on the queue wp.Stop closed. |
| master_main | MC_Master.cfg | pass | `WatchDelivery` (and `TypeOK`) holds for one watching worker, with a second stream rejected for its empty pc id, a GetCookies caller, a clock passing one cookie's expiry and two status reports alongside. |
| master_reconnect | MC_Master_reconnect.cfg | violation | `WatchDelivery` fails when a worker opens a second stream under its pc id. |
| master_stale | MC_Master_stale.cfg | violation | `LastDeliveredIsCurrent`: a worker ends on an older snapshot with no broadcast in flight. |
| master_expired | MC_Master_expired.cfg | violation | `UnexpiredAtWorker`: a cookie deleted with `Expires` at the Unix epoch travels as `ExpiresUnix` 0, which the worker reads as a session cookie. |
| heartbeat_main | MC_HeartbeatState.cfg | pass | Five branches. `ClaimExclusive`: two workers never both win the same stored state, while a solver and the keep-alive loop rewrite it; `KeepaliveStops`: after `Stop` the keep-alive loop exits. `MousePathWellFormed` for every mouse path. `ImplementsLevelledLog`: three callers racing two `SetLevel` callers. `ExpiringTokenReplaced`: an expiring or unparseable token is eventually replaced. The fingerprint branch only fires its actions; its property is `fingerprint_override`'s. |
| heartbeat_lost | MC_HeartbeatState_lost.cfg | violation | `NoLostCookie`: a solver's extract is overwritten by the keep-alive loop's extract from an older copy. |
| dashboard_main | MC_Dashboard.cfg | pass | `LogHistoryIsRecent` and `StreamReleased` hold with concurrent loggers, streams, handlers, a counted job and the ticker. |
| dashboard_logs | MC_Dashboard_logs.cfg | violation | `LogStreamComplete`: a log stream misses (or repeats) an entry logged between its history copy and its subscription. |
| dashboard_race | MC_Dashboard_race.cfg | violation | `NoTornTarget`: a job requests a target made of the new pointer and the old length. |
| fingerprint_override | MC_Fingerprint.cfg | violation | `SessionHeadersSent`: a session writes `accept`, applies a profile, and `ExecuteRequest` may send the profile's `Accept` instead of the session's value. |

What the properties say:
- `NoJobOnClosedSession`: no job queued or running is for a session whose `State` is `closed`. This is why main must stop the pool before `StopAll`.
- `FinalMetricsComplete`: when main prints the final metrics, every request counted in `TotalRequests` has its outcome counted, since `wp.Stop` waited for the workers.
- `ServedWhileRunning`: while main is running, each registered session eventually has a job running.
- `ShutdownCompletes`: once main begins shutting down, the process ends.
- `WatchDelivery` is the spec's subscription invariant (section 4.10): a cookie stored after a stream registered reaches that worker, unless its channel overflowed or the stream ended.
- `LastDeliveredIsCurrent`: a quiet, loss-free stream has delivered the jar as it now is.
- `UnexpiredAtWorker` (violation run only): every cookie `GetCookies` returned was live, by the `Expires` the broadcasting worker held, at the time it was converted.
- `ClaimExclusive`: no two claimers' CAS succeeded on the same stored pointer, so a session is handed to one worker per time it became available.
- `NoLostCookie`: every id's stored cookies are the merge of everything extracted for it.
- `LogHistoryIsRecent`: the ring is exactly the last `min(maxLogs, n)` of the `n` entries ever appended, in append order, whichever callers interleave.
- `StreamReleased`: a stream whose client went away is eventually closed and out of its subscriber map.
- `LogStreamComplete`: a log stream that has caught up has written, in order and once each, every entry from the start of its history to the newest one.
- `NoTornTarget`: every target a job requested is one some caller stored.
- `ImplementsHttpHeader`: `OrderedHeader` refines `HttpHeader`.
- `OrderPreserved` (an action property): two keys present before and after a step keep their relative order, so `Set` never moves a header on the wire.
- `SessionHeadersSent`: every header the session wrote before a request goes out on it with the session's value, whatever profile was applied (User-Agent excepted), as `ApplyHeaders`' doc comment and spec.md's canonical-name override promise. It fails: `ApplyHeaders` compares exact names.
- `MousePathWellFormed` (spec invariant 9): timestamps never decrease from one point to the next, and a finished path is 18-45 mousemoves, then mousedown, then mouseup.
- `KeepaliveStops`: once `Stop` has returned, the keep-alive loop eventually exits (or was never started), as `Stop`'s doc comment promises.
- `ImplementsLevelledLog`: `Logger` refines `LevelledLog`, so every call behaves as if it checked and wrote at the instant it loaded the level. A message may still be written after a `SetLevel` that forbids it has returned.
- `ExpiringTokenReplaced`: whenever the stored token has expired, is within `refreshBefore` of its exp, or does not parse, a `Refresh` eventually fetches a new token. The exceptions are the session storing a token that needs no refresh, and `Stop`. The empty token is excluded, because the loop skips it.

Each property of a passing run has a mutant in `PROJECT.json`, a plausible bug that TLC shows breaking it:
- a Submit that ignores the capacity;
- a `Stop` without `wg.Wait`;
- an off-by-one bound in `dispatchJobs`;
- a `Stop` that forgets `close`;
- a fan-out that ignores the channel capacity;
- a subscriber never put into `subs`;
- a claim that compares contents instead of pointers. This lets a claimer win against a state re-stored with equal contents (ABA);
- a ring trim that keeps one entry too many;
- a log stream that returns without its deferred delete;
- a `Set` that keeps later duplicates, and one that deletes and appends;
- a worker's error outcome left uncounted;
- a `pbCookiesToHTTP` that keeps expired cookies;
- a mouseup offset from the mousedown's base (20) instead of 80;
- a strict `lvl < min` comparison in the logger;
- a `Stop` that closes `stopCh` inside the `Once` that `Start` shares, so after `Start` it never closes and the running loop never exits;
- an auto-refresh loop that skips a token that does not parse, as it skips an empty one.

## Bounds and why they suffice

**Engine**
- There are 2 sessions and therefore 2 workers, with queue capacity 8.
- The proxy lists are `<<>>` (direct), `<<p1>>` and `<<p1, pbad>>`, where `pbad` is rejected by `NewHTTPClient`. These reach both the all-good startup and the partial-failure exit.
- Two sessions are enough for the scheduler to skip a missing id and for two workers to interleave. The scheduler's passes fill the queue to capacity, so the blocked Submit is reached.

**Master**
- There is one cookie name and two values, with three calls:
  - `b0` is empty and rejected;
  - `b1` and `b2` write different values to the same name, so last-writer order is visible.
- There is one stream with a pc id and a second with an empty pc id, which `WatchCookies` rejects. A second real stream, with its channel and delivery history, makes the state space too large to finish in minutes; a stream's delivery does not depend on other streams except through `subs`, which the rejected stream and `master_reconnect` exercise.
- The channel capacity is 1 instead of 32. Two broadcasts then reach the drop branch, and nothing else depends on the capacity.
- The clock runs from 0 to `MaxNow = 2`, so a cookie expiring at 1 is live, then expired, and `GetCookies` can run on either side.
- There are two status reports for one session (`r1` "active" and `r2` "closed"), so both orders of the overwrite arise.
- `master_reconnect` uses two streams under one pc id and a single broadcast; `master_expired` a single broadcast of a cookie deleted at the epoch and one `GetCookies`.

**HeartbeatState**
- There is one session id (the one the keep-alive loop visits) and two cookie names, one of them jwt-like.
- There are two claimers, so the CAS race happens, and one solver, which runs concurrently with the keep-alive loop.
- Three responses cover extraction:
  - one with no cookies (the early return);
  - one with a session cookie;
  - one with a jwt cookie and a bearer token.
- The keep-alive loop is bounded at `MaxTicks = 2` ticks. That is enough for its extract to interleave with the solver's both before and after a claim.
- Sensor: the full ranges of the code: n in 18-45, each delay in 6-23, the click offsets in 20-59 and 80-199.
- Logger: an Info, an Error and a Debug caller, and two setters (to `LevelError` and to `LevelDebug`), from main's `LevelInfo`. Every caller's outcome then changes with the level, and a `SetLevel` can fall between a load and its write.
- Token: tokens expiring at 1 (`tExp`) and at 3 (`tNew`), one without exp (`tNoExp`), and one that does not parse (`tBad`), with `refreshBefore = 1` and the clock running to 3. The endpoint issues `tNew` or `tNoExp`, so a refreshed token can itself come due, and a refresh can end the loop's work.

**Dashboard**
- Callers: one of each request kind (OPTIONS, GET, a bad-method config request, an undecodable POST, a valid POST whose sessions and retries are out of range, a proxy upload, a non-POST proxy request, a failing upload) and main's signal log.
- Targets `t0` (initial), `t1` and the empty string, so the torn pair (`t1` pointer, `t0` length) exists.
- In `dashboard_main` the valid POST keeps the target (`MCPayloadKeep`): the torn target is `dashboard_race`'s question, and keeping the target halves a state space dominated by the liveness check.
- One job, one log stream, one metrics stream; `maxLogs = 2` instead of 1000, so the trim runs with the three log lines; channel capacity 1 instead of 256 and 16, so the drop branch is reached; one ticker pass. `Tick` keeps no counter values, since the snapshot's loads are unobserved.
- `MC_Dashboard_logs.cfg` keeps only the POST and the log stream, and `MC_Dashboard_race.cfg` only the POST and the job: the smallest instances in which each disagreement appears.

**Fingerprint**
- Both profiles, and three header names the session writes: `Accept`, which both profiles send, its lower-case `accept`, and `Sec-Fetch-User`, which only Firefox sends; on an empty or a nil map. `accept` is what makes a session key and a profile key share a canonical form.

**OrderedHeader**
- Keys `ka` and `kA` share a canonical form, `ku` has another; two values; at most 4 entries. The initial list has two distinct headers, as `ChromeOrderedHeaders` builds; duplicates, case changes and reordering then all arise from `Add`, `Set` and `Del`.

## Fairness

**Engine**
- Weak fairness on main's steps, on the scheduler's steps, and on each worker's steps. These are goroutines the Go runtime keeps scheduling.
- The signal is not fair: the process may run forever.

**Master**
- Weak fairness on each broadcast handler's steps after it was called, and on each stream handler's steps.
- Not fair: the arrival of RPCs and the worker's cancellation. Those are the clients' choice.

**Dashboard**
- Weak fairness on a config POST's second step, on each caller's `AddLog` steps once started, and on each stream's handler steps: these run in goroutines the runtime keeps scheduling.
- Not fair: request arrivals, `ListenAndServe`'s outcome, the job's steps, the signal, the client's cancellation, and the ticker (bounded by `MaxTicks`). `StreamReleased` needs none of them.

**HeartbeatState**
- Weak fairness on `HbExtract`: the keep-alive goroutine keeps running.
- Strong fairness on `HbExit`. When the ticker and `stopCh` are both ready, Go's `select` picks uniformly at random, so a loop that keeps returning to the select with `stopCh` closed takes that case eventually.
- Claimers, solvers, `Start` and `Stop` are not fair: they are the callers' choice.

**TokenRefresh**
- Weak fairness on the auto-refresh goroutine's steps: the ticker fires every `checkInterval`.
- Strong fairness on `RefreshFetched`. This is an assumption about the refresh endpoint, not the code: asked again and again, it eventually answers with a new token. Without it, a server that always fails would keep any token from being refreshed.
- `SetToken`, `ClockTick` and `Stop` are not fair.

**OrderedHeader, Fingerprint, Sensor, Logger**
- There is no fairness: the properties are safety properties or a refinement of a specification without fairness.

**Deadlock checking**
- `MC_Master.cfg` turns deadlock checking off. Once every call has been served, the master only waits for further RPCs.
- `MC_HeartbeatState.cfg` turns it off. Claimers and solvers finish, the keep-alive loop stops ticking at its bound, and in the sensor branch a path can end.
- `MC_Dashboard.cfg` turns it off: with every request served and every stream closed the server only waits for new connections.
- `MC_Fingerprint.cfg` keeps it on: a request can always be built.
- `MC_Engine.cfg` keeps deadlock checking on. A halted process stutters through `Terminated`, and in the header branch `Del` is always enabled.

## Plan for later work

The project keeps twelve runs, and all twelve are used. A new run can come only by replacing one, or as a further branch of an existing MC module, as for the sensor, the logger and the token manager.

1. `InMemoryLock` (`client/tls_dialer_test.go`), with an abstract per-key mutex and a refinement mapping: mutual exclusion per key, no leaked key entries, waiters never negative.
2. `TokenRefresh`: a second `Refresh` caller, and a property that a stored token is never older than one already stored. That property fails, so it needs a violation run of its own. The empty-token skip would be another violation run.
3. `SchemaValidator` (`unnamed/part_014`): `flattenSchema` and `diffSchemas` as RECURSIVE operators checked against a reference diff.
4. `HeartbeatState`: two concurrent `Stop` calls.

## Not modelled

- **TLS and HTTP/2 transport construction** (`client/`, `fingerprint.go`'s TLS specs): configuration handed to crypto/tls and net/http, with no state of their own.
- **The otto JavaScript VM:** every method runs under one mutex, and the VM itself is out of TLC's reach.
- **`NewSensorRequest` and `extractOrigin`:** string building and slicing. The one edge case is an endpoint with no path after the host, where Origin carries the query; a unit test reaches it more directly than a model.
- **Values that only feed logs or the UI:** `RequestsPerSecond` (a float division, guarded against zero elapsed time), the monitor goroutine's `SetActiveSessions`/`SetCookieJarSize` stores, the JSON and SSE encoding, and the React frontend.
- **`StartHeartbeat` and `SendHeartbeat`** of the token manager: a ticker loop that sends a request with the current token and discards the result.
- **`NewWorkerClient` and `WorkerClient.Close`:** dialling and tearing down the gRPC connection. A closed connection looks to the master like a cancelled stream, which `Cancel` already models.

**Why the map covers less of `dashboard/server.go` than of the other files.** Lines 542-1463 of that file are not Go: they are the project README, appended after the scheduler. The map covers none of them. They account for most of the distance between the map's share of all counted lines (about 31%) and its share of the Go code (over 40%).

See `components` in `PROJECT.json` for the status of each part.
