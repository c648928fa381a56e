------------------------------- MODULE Master -------------------------------
(***************************************************************************)
(* The cluster master (part_018): the Global Cookie Jar, the BroadcastCookie *)
(* fan-out to WatchCookies subscribers and the WatchCookies server loop,   *)
(* with the worker side of the RPCs (cluster/worker_client.go): the        *)
(* http.Cookie -> pb.Cookie conversion of BroadcastCookie, GetCookies, and  *)
(* the WatchCookies reader that filters expired cookies for onUpdate.       *)
(*                                                                         *)
(* Each BroadcastCookie call and each WatchCookies stream is an actor with *)
(* its own program counter, so that the steps the handlers take under      *)
(* different locks interleave as the Go runtime may interleave them.  A    *)
(* cookie is its name, value and expiry; domain, path and flags are left   *)
(* out.  ReportStatus and the master's status registry are modelled too. *)
(* The jar records, per name, the call whose cookie it holds, and    *)
(* every message carries, besides the cookies and the version the code    *)
(* puts in it, the set of broadcasts whose Store it reflects (a history    *)
(* field no code reads, used only by the properties).  Time is a clock of  *)
(* Unix seconds shared by master and workers.                              *)
(***************************************************************************)
EXTENDS Integers, Sequences, FiniteSets

CONSTANTS
    Names,            \* cookie names
    Values,           \* cookie values
    Zero,             \* the zero time.Time: an http.Cookie without Expires
    Calls,            \* BroadcastCookie calls the workers make
    Request,          \* Request[c]: the http.Cookies of call c, name -> [value, expires]
    Pcs,              \* pc ids (PcId); EmptyPc is the empty string
    EmptyPc,
    Streams,          \* WatchCookies calls
    StreamPc,         \* StreamPc[s]: the pc id stream s subscribes as
    Getters,          \* WorkerClient.GetCookies calls
    ChanCapacity,     \* make(chan *pb.GetGlobalCookiesResponse, 32)
    MaxNow,           \* the last second the clock reaches
    Reports,          \* WorkerClient.ReportStatus calls
    Report,           \* Report[r]: its session id, pc id and state
    None              \* no cookie / no subscriber / no status

ASSUME /\ \A c \in Calls : DOMAIN Request[c] \subseteq Names
                           /\ \A n \in DOMAIN Request[c] :
                                 /\ Request[c][n].value \in Values
                                 /\ Request[c][n].expires \in Int \cup {Zero}
       /\ Zero \notin Int
       /\ StreamPc \in [Streams -> Pcs \cup {EmptyPc}]
       /\ ChanCapacity \in Nat \ {0}
       /\ MaxNow \in Nat \ {0}
       /\ \A r \in Reports : Report[r].pc \in Pcs

\* The session ids the reports name.
Sids == {Report[r].sid : r \in Reports}

Jar == [Names -> Calls \cup {None}]
Msg == [cookies : Jar, version : Nat, applied : SUBSET Calls]

VARIABLES
    entries,     \* GlobalCookieJar.entries: name -> the call whose pb.Cookie it holds
    version,     \* GlobalCookieJar.version
    applied,     \* history: the calls whose Store has written the jar
    bcPc,        \* where each BroadcastCookie handler is
    bcVer,       \* its ver := s.jar.Store(...)
    bcResp,      \* its resp := {cookies of a later Snapshot, ver}
    subs,        \* MasterControllerServer.subs, keyed by pc id
    wPc,         \* where each WatchCookies handler is
    ch,          \* each subscriber's channel
    last,        \* the last message each stream delivered (the worker's jar)
    got,         \* history: the calls reflected in any message delivered
    cancelled,   \* the worker cancelled the stream's context
    regApplied,  \* history: `applied` when the stream registered
    dropped,     \* history: a fan-out skipped the stream because ch was full
    fetched,     \* what each GetCookies call returned (as a jar), or None
    fetchedAt,   \* time.Now() when it converted the response
    now,         \* the clock, in Unix seconds
    statuses,    \* MasterControllerServer.sessions: session id -> SessionStatus
    reported     \* the ReportStatus calls that have returned

statusVars == <<statuses, reported>>
vars == <<entries, version, applied, bcPc, bcVer, bcResp, subs, wPc, ch, last,
          got, cancelled, regApplied, dropped, fetched, fetchedAt, now, statusVars>>
jarVars == <<entries, version, applied>>
bcVars == <<bcPc, bcVer, bcResp>>
watchVars == <<wPc, last, got, cancelled, regApplied>>
clientVars == <<fetched, fetchedAt, now, statusVars>>

-----------------------------------------------------------------------------
(* GlobalCookieJar.Snapshot (part_018:78-87): cookies and version read     *)
(* together under the read lock.                                           *)
Snapshot == [cookies |-> entries, version |-> version, applied |-> applied]

\* The handler's locals once it has returned (or before it runs).
NoResp == [cookies |-> [n \in Names |-> None], version |-> 0, applied |-> {}]

(***************************************************************************)
(* The cookie conversions of the worker client.                            *)
(***************************************************************************)

\* WorkerClient.BroadcastCookie (worker_client.go:88-103): ExpiresUnix is
\* c.Expires.Unix(), or 0 when c.Expires is the zero time.
ToPb(hc) == [value |-> hc.value,
             exp   |-> IF hc.expires = Zero THEN 0 ELSE hc.expires]

\* The pb.Cookie the jar holds under name n when call c stored it.
Wire(c, n) == ToPb(Request[c][n])


\* pbCookiesToHTTP (160-181): a cookie with ExpiresUnix > 0 and before now is
\* skipped; the others become http.Cookies (Expires set only when > 0).
PbKept(pb, t) == ~(pb.exp > 0 /\ pb.exp < t)

\* As a jar: the names whose cookie is kept.
PbCookiesToHTTP(cookies, t) ==
    [n \in Names |-> IF cookies[n] # None /\ PbKept(Wire(cookies[n], n), t)
                     THEN cookies[n] ELSE None]

\* Whether an http.Cookie as the worker obtained it is still live at t: it
\* has no Expires, or Expires is not before t.
HttpLive(hc, t) == hc.expires = Zero \/ hc.expires >= t

(***************************************************************************)
(* BroadcastCookie (part_018:149-171).                                     *)
(***************************************************************************)

\* len(req.Cookies) == 0: InvalidArgument before any state is touched.
BroadcastRejected(c) ==
    /\ bcPc[c] = "idle"
    /\ DOMAIN Request[c] = {}
    /\ UNCHANGED vars

\* GlobalCookieJar.Store (68-75), first half: under the write lock every
\* cookie replaces the entry of its name; the lock is released before the
\* version is touched.
BroadcastStore(c) ==
    /\ bcPc[c] = "idle"
    /\ DOMAIN Request[c] # {}
    /\ entries' = [n \in Names |-> IF n \in DOMAIN Request[c] THEN c ELSE entries[n]]
    /\ applied' = applied \cup {c}
    /\ bcPc' = [bcPc EXCEPT ![c] = "stored"]
    /\ UNCHANGED <<version, bcVer, bcResp, subs, watchVars, ch, dropped, clientVars>>

\* Store, second half: return j.version.Add(1).
BroadcastVersion(c) ==
    /\ bcPc[c] = "stored"
    /\ version' = version + 1
    /\ bcVer' = [bcVer EXCEPT ![c] = version + 1]
    /\ bcPc' = [bcPc EXCEPT ![c] = "versioned"]
    /\ UNCHANGED <<entries, applied, bcResp, subs, watchVars, ch, dropped, clientVars>>

\* cookies, _ := s.jar.Snapshot(); resp carries those cookies and Store's ver.
BroadcastSnapshot(c) ==
    /\ bcPc[c] = "versioned"
    /\ bcResp' = [bcResp EXCEPT ![c] = [Snapshot EXCEPT !.version = bcVer[c]]]
    /\ bcPc' = [bcPc EXCEPT ![c] = "snapped"]
    /\ UNCHANGED <<jarVars, bcVer, subs, watchVars, ch, dropped, clientVars>>

\* Mutant: the send to a subscriber ignores the channel's capacity.
BroadcastFanOutUnbounded(c) ==
    /\ bcPc[c] = "snapped"
    /\ LET targets == {subs[p] : p \in {p \in Pcs : subs[p] # None}}
       IN  ch' = [s \in Streams |-> IF s \in targets THEN Append(ch[s], bcResp[c])
                                                   ELSE ch[s]]
    /\ bcPc' = [bcPc EXCEPT ![c] = "done"]
    /\ bcVer' = [bcVer EXCEPT ![c] = 0]
    /\ bcResp' = [bcResp EXCEPT ![c] = NoResp]
    /\ UNCHANGED <<jarVars, subs, watchVars, dropped, clientVars>>

\* Under subMu, a non-blocking send of resp to every subscriber in subs: a
\* full channel drops it.
BroadcastFanOut(c) ==
    /\ bcPc[c] = "snapped"
    /\ LET targets == {subs[p] : p \in {p \in Pcs : subs[p] # None}}
           full(s) == Len(ch[s]) >= ChanCapacity
       IN  /\ ch' = [s \in Streams |-> IF s \in targets /\ ~full(s)
                                      THEN Append(ch[s], bcResp[c]) ELSE ch[s]]
           /\ dropped' = [s \in Streams |-> dropped[s] \/ (s \in targets /\ full(s))]
    /\ bcPc' = [bcPc EXCEPT ![c] = "done"]
    /\ bcVer' = [bcVer EXCEPT ![c] = 0]
    /\ bcResp' = [bcResp EXCEPT ![c] = NoResp]
    /\ UNCHANGED <<jarVars, subs, watchVars, clientVars>>

(***************************************************************************)
(* WatchCookies (part_018:196-235).                                        *)
(***************************************************************************)

\* stream.Send(m) succeeds; the worker's reader goroutine
\* (worker_client.go:146-154) hands m's cookies to onUpdate, whatever m's
\* version.  Its pbCookiesToHTTP is the conversion GetCookies makes, which
\* UnexpiredAtWorker checks; the time of each delivery is not kept.
Deliver(s, m) ==
    /\ last' = [last EXCEPT ![s] = m]
    /\ got' = [got EXCEPT ![s] = @ \cup m.applied]

\* req.PcId == "": InvalidArgument before anything is registered.
WatchRejected(s) ==
    /\ wPc[s] = "idle"
    /\ StreamPc[s] = EmptyPc
    /\ UNCHANGED vars

\* Mutant: the subscriber is never put into s.subs.
WatchRegisterNoSub(s) ==
    /\ wPc[s] = "idle"
    /\ StreamPc[s] # EmptyPc
    /\ regApplied' = [regApplied EXCEPT ![s] = applied]
    /\ wPc' = [wPc EXCEPT ![s] = "registered"]
    /\ UNCHANGED <<jarVars, bcVars, subs, ch, last, got, cancelled, dropped, clientVars>>

\* Under subMu: s.subs[req.PcId] = sub, replacing any subscriber of that pc.
WatchRegister(s) ==
    /\ wPc[s] = "idle"
    /\ StreamPc[s] # EmptyPc
    /\ subs' = [subs EXCEPT ![StreamPc[s]] = s]
    /\ regApplied' = [regApplied EXCEPT ![s] = applied]
    /\ wPc' = [wPc EXCEPT ![s] = "registered"]
    /\ UNCHANGED <<jarVars, bcVars, ch, last, got, cancelled, dropped, clientVars>>

\* The initial snapshot is sent; the loop starts.
WatchInitial(s) ==
    /\ wPc[s] = "registered"
    /\ ~cancelled[s]
    /\ Deliver(s, Snapshot)
    /\ wPc' = [wPc EXCEPT ![s] = "streaming"]
    /\ UNCHANGED <<jarVars, bcVars, subs, ch, cancelled, regApplied, dropped, clientVars>>

\* case update := <-ch: stream.Send(update).
WatchForward(s) ==
    /\ wPc[s] = "streaming"
    /\ ~cancelled[s]
    /\ ch[s] # <<>>
    /\ Deliver(s, Head(ch[s]))
    /\ ch' = [ch EXCEPT ![s] = Tail(@)]
    /\ UNCHANGED <<jarVars, bcVars, subs, wPc, cancelled, regApplied, dropped, clientVars>>

\* ctx.Done(), or a Send failing on the cancelled stream: return, and the
\* deferred delete(s.subs, req.PcId) removes whatever is registered under
\* the pc id.  The stream's channel and the worker's view of it are gone
\* with it (cleared so that ended streams do not multiply the states).
WatchExit(s) ==
    /\ wPc[s] \in {"registered", "streaming"}
    /\ cancelled[s]
    /\ subs' = [subs EXCEPT ![StreamPc[s]] = None]
    /\ wPc' = [wPc EXCEPT ![s] = "closed"]
    /\ ch' = [ch EXCEPT ![s] = <<>>]
    /\ last' = [last EXCEPT ![s] = NoResp]
    /\ got' = [got EXCEPT ![s] = {}]
    /\ regApplied' = [regApplied EXCEPT ![s] = {}]
    /\ dropped' = [dropped EXCEPT ![s] = FALSE]
    /\ UNCHANGED <<jarVars, bcVars, cancelled, clientVars>>

\* The worker cancels its stream's context (WorkerClient.WatchCookies' ctx).
Cancel(s) ==
    /\ wPc[s] \in {"registered", "streaming"}
    /\ ~cancelled[s]
    /\ cancelled' = [cancelled EXCEPT ![s] = TRUE]
    /\ UNCHANGED <<jarVars, bcVars, subs, wPc, ch, last, got, regApplied, dropped, clientVars>>

(***************************************************************************)
(* WorkerClient.GetCookies (worker_client.go:121-127) on GetGlobalCookies  *)
(* (part_018:185-189): the jar's Snapshot, converted by pbCookiesToHTTP on *)
(* the worker at its time.Now().                                            *)
(***************************************************************************)
GetCookies(g) ==
    /\ fetched[g] = None
    /\ fetched' = [fetched EXCEPT ![g] = PbCookiesToHTTP(Snapshot.cookies, now)]
    /\ fetchedAt' = [fetchedAt EXCEPT ![g] = now]
    /\ UNCHANGED <<jarVars, bcVars, subs, watchVars, ch, dropped, now, statusVars>>

\* A second passes.
Tick ==
    /\ now < MaxNow
    /\ now' = now + 1
    /\ UNCHANGED <<jarVars, bcVars, subs, watchVars, ch, dropped, fetched, fetchedAt,
                   statusVars>>

(***************************************************************************)
(* WorkerClient.ReportStatus (worker_client.go:66-78) on UpdateStatus      *)
(* (part_018:174-181): the request always carries a status, so it is       *)
(* stored, s.sessions.Store(id, status), replacing the id's last one.      *)
(* Calls made concurrently reach the master in either order.               *)
(***************************************************************************)
ReportStatus(r) ==
    /\ r \notin reported
    /\ statuses' = [statuses EXCEPT ![Report[r].sid] =
                      [pc |-> Report[r].pc, state |-> Report[r].state]]
    /\ reported' = reported \cup {r}
    /\ UNCHANGED <<jarVars, bcVars, subs, watchVars, ch, dropped, fetched, fetchedAt, now>>

-----------------------------------------------------------------------------
Init ==
    /\ entries = [n \in Names |-> None]
    /\ version = 0
    /\ applied = {}
    /\ bcPc = [c \in Calls |-> "idle"]
    /\ bcVer = [c \in Calls |-> 0]
    /\ bcResp = [c \in Calls |-> NoResp]
    /\ subs = [p \in Pcs |-> None]
    /\ wPc = [s \in Streams |-> "idle"]
    /\ ch = [s \in Streams |-> <<>>]
    /\ last = [s \in Streams |-> NoResp]
    /\ got = [s \in Streams |-> {}]
    /\ cancelled = [s \in Streams |-> FALSE]
    /\ regApplied = [s \in Streams |-> {}]
    /\ dropped = [s \in Streams |-> FALSE]
    /\ fetched = [g \in Getters |-> None]
    /\ fetchedAt = [g \in Getters |-> 0]
    /\ now = 1
    /\ statuses = [i \in Sids |-> None]
    /\ reported = {}

\* The server side of a call or stream, once the RPC has arrived.
BroadcastHandler(c) ==
    BroadcastVersion(c) \/ BroadcastSnapshot(c) \/ BroadcastFanOut(c)
WatchHandler(s) == WatchInitial(s) \/ WatchForward(s) \/ WatchExit(s)

\* The workers: RPCs arrive, streams are cancelled.
Arrivals ==
    \/ \E c \in Calls : BroadcastRejected(c) \/ BroadcastStore(c)
    \/ \E s \in Streams : WatchRejected(s) \/ WatchRegister(s) \/ Cancel(s)
    \/ \E g \in Getters : GetCookies(g)
    \/ \E r \in Reports : ReportStatus(r)

Next ==
    \/ Arrivals
    \/ \E c \in Calls : BroadcastHandler(c)
    \/ \E s \in Streams : WatchHandler(s)
    \/ Tick

(* Handlers are goroutines the runtime keeps scheduling; when the workers  *)
(* call or cancel is theirs to choose, and the clock is bounded.           *)
Spec ==
    /\ Init /\ [][Next]_vars
    /\ \A c \in Calls : WF_vars(BroadcastHandler(c))
    /\ \A s \in Streams : WF_vars(WatchHandler(s))

-----------------------------------------------------------------------------
TypeOK ==
    /\ entries \in Jar
    /\ version \in Nat /\ applied \subseteq Calls
    /\ bcPc \in [Calls -> {"idle", "stored", "versioned", "snapped", "done"}]
    /\ bcVer \in [Calls -> Nat]
    /\ bcResp \in [Calls -> Msg]
    /\ subs \in [Pcs -> Streams \cup {None}]
    /\ wPc \in [Streams -> {"idle", "registered", "streaming", "closed"}]
    /\ \A s \in Streams : /\ ch[s] \in Seq(Msg) /\ Len(ch[s]) <= ChanCapacity
    /\ last \in [Streams -> Msg] /\ got \in [Streams -> SUBSET Calls]
    /\ fetched \in [Getters -> Jar \cup {None}] /\ now \in 1 .. MaxNow
    /\ statuses \in [Sids -> [pc : Pcs, state : {Report[r].state : r \in Reports}] \cup {None}]

(* WatchCookies delivery (spec 4.10): once a stream is registered, every   *)
(* cookie a later BroadcastCookie stores reaches that worker in some       *)
(* message, unless the stream's channel overflowed or the stream ended.    *)
(* It needs the registration in subs to survive while the stream lives and *)
(* the fan-out to follow the Store: several broadcasts and streams must    *)
(* interleave to break it.                                                 *)
WatchDelivery ==
    \A s \in Streams, c \in Calls :
        (wPc[s] \in {"registered", "streaming"} /\ c \in applied \ regApplied[s])
            ~> (c \in got[s] \/ dropped[s] \/ wPc[s] = "closed")

(* A worker whose stream has drained, dropped nothing and sees no          *)
(* broadcast in flight holds the master's current jar: the last message    *)
(* onUpdate applied, in arrival order and ignoring the version, carries    *)
(* the jar as it is now.                                                   *)
LastDeliveredIsCurrent ==
    \A s \in Streams :
        (/\ wPc[s] = "streaming" /\ ~cancelled[s] /\ ch[s] = <<>> /\ ~dropped[s]
         /\ \A c \in Calls : bcPc[c] \in {"idle", "done"})
            => last[s].cookies = entries

(* Worker jars hold no expired cookie: every cookie GetCookies returned,   *)
(* after pbCookiesToHTTP, was live by the Expires of the http.Cookie the   *)
(* broadcasting worker held, at the time it was converted.  It needs the   *)
(* BroadcastCookie conversion, the jar and the reader's filter to agree on *)
(* what "no expiry" is, across a clock that moves between the steps.      *)
UnexpiredAtWorker ==
    \A g \in Getters, n \in Names :
        fetched[g] # None /\ fetched[g][n] # None
            => HttpLive(Request[fetched[g][n]][n], fetchedAt[g])

=============================================================================
