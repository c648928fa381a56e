---------------------------- MODULE HeartbeatState ----------------------------
(***************************************************************************)
(* HeartbeatManager (part_002): the per-session state store, a sync.Map    *)
(* from session id to an immutable *SessionState, and the goroutines that  *)
(* use it: claimers (FindAvailable then ClaimSession), challenge solvers   *)
(* calling ExtractFromResponse, and the keep-alive goroutine started by    *)
(* Start, which runs sendKeepAlive on every tick until Stop.               *)
(*                                                                         *)
(* A stored state carries `ptr`, the identity of the pointer the map holds: *)
(* every Store allocates a new one and CompareAndSwap compares pointers.   *)
(* Cookies are a name -> value function (mergeCookies replaces by name and *)
(* appends new names; their order is not modelled); LastRefreshed is left *)
(* out.  A response is its Set-Cookie set and its Authorization header.    *)
(***************************************************************************)
EXTENDS Naturals, Sequences, FiniteSets

CONSTANTS
    Ids,             \* session ids
    Names,           \* cookie names
    JwtNames,        \* names containing "jwt" or "token" (case-insensitive)
    Values,          \* cookie and token values
    Responses,       \* responses: [cookies : name -> value, bearer : value or None]
    Claimers,        \* goroutines calling FindAvailable then ClaimSession
    Solvers,         \* goroutines calling ExtractFromResponse once each
    SessionIDs,      \* Start's sessionIDs, a sequence of ids
    KeepAliveURLSet, \* keepAliveURL != ""
    MaxTicks,        \* bound on the ticks of the keep-alive loop
    None

ASSUME /\ JwtNames \subseteq Names
       /\ \A r \in Responses : DOMAIN r.cookies \subseteq Names
       /\ MaxTicks \in Nat

Cookies == [Names -> Values \cup {None}]
State == [ptr : Nat, cookies : Cookies, token : Values \cup {None}, available : BOOLEAN]
Nil == [ptr |-> 0, cookies |-> [n \in Names |-> None], token |-> None, available |-> FALSE]

VARIABLES
    sessions,    \* HeartbeatManager.sessions: id -> stored state, or Nil
    nextPtr,     \* the next pointer identity a Store allocates
    clPc,        \* each claimer: "find", "load", "cas", "done"
    clId,        \* the id FindAvailable returned
    clOld,       \* ClaimSession's old pointer
    won,         \* history: the pointer each claimer's CAS replaced, 0 if none
    exPc,        \* each extractor (solvers and the keep-alive loop): "idle", "store", "done"
    exId,        \* the id being extracted into
    exBase,      \* the copy of the state GetState returned
    exResp,      \* the response being extracted
    hbPc,        \* keep-alive goroutine: "unstarted", "wait", "extract", "exited"
    hbIdx,       \* sendKeepAlive's position in SessionIDs
    ticks,       \* ticks the loop has handled
    onceUsed,    \* m.once has run
    stopped,     \* m.stopCh is closed
    stopCalled,  \* history: Stop has returned
    merged       \* history: each id's cookies if every Store had merged into the current state

vars == <<sessions, nextPtr, clPc, clId, clOld, won, exPc, exId, exBase, exResp,
          hbPc, hbIdx, ticks, onceUsed, stopped, stopCalled, merged>>
claimVars == <<clPc, clId, clOld, won>>
exVars == <<exPc, exId, exBase, exResp>>
hbVars == <<hbPc, hbIdx, ticks, onceUsed, stopped, stopCalled>>

\* The keep-alive loop extracts as the actor "hb".
Extractors == Solvers \cup {"hb"}

-----------------------------------------------------------------------------
(* mergeCookies (part_002:211-229): replace by name, append the others.    *)
MergeCookies(existing, updates) ==
    [n \in Names |-> IF n \in DOMAIN updates THEN updates[n] ELSE existing[n]]

(* The token ExtractFromResponse derives: a cookie whose name contains jwt *)
(* or token, overridden by an Authorization: Bearer header.                *)
NewToken(old, r) ==
    IF r.bearer # None THEN r.bearer
    ELSE IF DOMAIN r.cookies \cap JwtNames # {}
         THEN r.cookies[CHOOSE n \in DOMAIN r.cookies \cap JwtNames : TRUE]
         ELSE old

\* m.sessions.Store(id, &st): a fresh pointer.
StoreState(id, st) ==
    /\ sessions' = [sessions EXCEPT ![id] = [st EXCEPT !.ptr = nextPtr]]
    /\ nextPtr' = nextPtr + 1

(***************************************************************************)
(* ExtractFromResponse (part_002:166-206), as its two accesses to the map. *)
(***************************************************************************)

\* resp == nil or no Set-Cookie: return.  Otherwise GetState and copy.
ExtractLoad(e, id, r) ==
    /\ exPc[e] = "idle"
    /\ IF DOMAIN r.cookies = {}
         THEN /\ exPc' = [exPc EXCEPT ![e] = "done"]
              /\ UNCHANGED <<exId, exBase, exResp>>
         ELSE /\ exPc' = [exPc EXCEPT ![e] = "store"]
              /\ exId' = [exId EXCEPT ![e] = id]
              /\ exBase' = [exBase EXCEPT ![e] = sessions[id]]
              /\ exResp' = [exResp EXCEPT ![e] = r]

\* Merge into the copy, Available = true, token; SetState.
ExtractStore(e) ==
    LET id == exId[e]
        r == exResp[e]
        b == exBase[e]
    IN  /\ exPc[e] = "store"
        /\ StoreState(id, [b EXCEPT !.cookies = MergeCookies(b.cookies, r.cookies),
                                    !.token = NewToken(b.token, r),
                                    !.available = TRUE])
        /\ merged' = [merged EXCEPT ![id] = MergeCookies(@, r.cookies)]
        /\ exPc' = [exPc EXCEPT ![e] = "done"]

\* A challenge solver's one call.
Solve(e) ==
    \/ \E id \in Ids, r \in Responses :
           /\ ExtractLoad(e, id, r)
           /\ UNCHANGED <<sessions, nextPtr, claimVars, hbVars, merged>>
    \/ /\ ExtractStore(e)
       /\ UNCHANGED <<claimVars, exId, exBase, exResp, hbVars>>

(***************************************************************************)
(* FindAvailable (122-133) and ClaimSession (138-153).                     *)
(***************************************************************************)

\* Range stops at an available entry, in no fixed order; nil if none.
FindAvailable(k) ==
    /\ clPc[k] = "find"
    /\ IF \E id \in Ids : sessions[id].available
         THEN \E id \in {i \in Ids : sessions[i].available} :
                  /\ clId' = [clId EXCEPT ![k] = id]
                  /\ clPc' = [clPc EXCEPT ![k] = "load"]
         ELSE /\ clPc' = [clPc EXCEPT ![k] = "done"]
              /\ UNCHANGED clId
    /\ UNCHANGED <<sessions, nextPtr, clOld, won, exVars, hbVars, merged>>

\* Load; missing or not Available returns false.
ClaimLoad(k) ==
    LET old == sessions[clId[k]]
    IN  /\ clPc[k] = "load"
        /\ IF old = Nil \/ ~old.available
             THEN /\ clPc' = [clPc EXCEPT ![k] = "done"]
                  /\ UNCHANGED clOld
             ELSE /\ clPc' = [clPc EXCEPT ![k] = "cas"]
                  /\ clOld' = [clOld EXCEPT ![k] = old]
        /\ UNCHANGED <<sessions, nextPtr, clId, won, exVars, hbVars, merged>>

\* Mutant: the swap compares the states' contents, not the pointers.
ClaimCASByValue(k) ==
    LET id == clId[k]
        Content(st) == [st EXCEPT !.ptr = 0]
    IN  /\ clPc[k] = "cas"
        /\ IF Content(sessions[id]) = Content(clOld[k])
             THEN /\ StoreState(id, [clOld[k] EXCEPT !.available = FALSE])
                  /\ won' = [won EXCEPT ![k] = clOld[k].ptr]
             ELSE UNCHANGED <<sessions, nextPtr, won>>
        /\ clPc' = [clPc EXCEPT ![k] = "done"]
        /\ UNCHANGED <<clId, clOld, exVars, hbVars, merged>>

\* CompareAndSwap(id, old, &updated): succeeds only if the map still holds old.
ClaimCAS(k) ==
    LET id == clId[k]
    IN  /\ clPc[k] = "cas"
        /\ IF sessions[id].ptr = clOld[k].ptr
             THEN /\ StoreState(id, [clOld[k] EXCEPT !.available = FALSE])
                  /\ won' = [won EXCEPT ![k] = clOld[k].ptr]
             ELSE UNCHANGED <<sessions, nextPtr, won>>
        /\ clPc' = [clPc EXCEPT ![k] = "done"]
        /\ UNCHANGED <<clId, clOld, exVars, hbVars, merged>>

Claim(k) == FindAvailable(k) \/ ClaimLoad(k) \/ ClaimCAS(k)

(***************************************************************************)
(* The keep-alive goroutine: Start (243-247), Stop (250-257), loop         *)
(* (263-280) and sendKeepAlive (284-318).                                  *)
(***************************************************************************)

\* m.once.Do(func() { go m.loop(ctx, sessionIDs) }).
Start ==
    /\ ~onceUsed
    /\ onceUsed' = TRUE
    /\ hbPc' = "wait"
    /\ UNCHANGED <<sessions, nextPtr, claimVars, exVars, hbIdx, ticks, stopped, stopCalled,
                   merged>>

\* Mutant: the close runs inside once.Do, so it is skipped when Start has
\* consumed the once.
StopInOnce ==
    /\ ~stopCalled
    /\ onceUsed' = TRUE
    /\ stopped' = (stopped \/ ~onceUsed)
    /\ stopCalled' = TRUE
    /\ UNCHANGED <<sessions, nextPtr, claimVars, exVars, hbPc, hbIdx, ticks, merged>>

\* m.once.Do(func() {}) consumes the once; stopCh is closed if it is open.
\* A second Stop changes nothing and is not modelled.
Stop ==
    /\ ~stopCalled
    /\ onceUsed' = TRUE
    /\ stopped' = TRUE
    /\ stopCalled' = TRUE
    /\ UNCHANGED <<sessions, nextPtr, claimVars, exVars, hbPc, hbIdx, ticks, merged>>

\* The select sees stopCh closed and returns.
HbExit ==
    /\ hbPc = "wait"
    /\ stopped
    /\ hbPc' = "exited"
    /\ UNCHANGED <<sessions, nextPtr, claimVars, exVars, hbIdx, ticks, onceUsed, stopped,
                   stopCalled, merged>>

\* case <-ticker.C: sendKeepAlive.  With no URL, a failed request or a
\* non-2xx status nothing changes; a 2xx response is extracted into every
\* id of sessionIDs in turn.
HbTick ==
    /\ hbPc = "wait"
    /\ ticks < MaxTicks
    /\ ticks' = ticks + 1
    /\ \/ UNCHANGED <<hbPc, hbIdx>>
       \/ /\ KeepAliveURLSet
          /\ hbPc' = "extract"
          /\ hbIdx' = 1
    /\ UNCHANGED <<sessions, nextPtr, claimVars, exVars, onceUsed, stopped, stopCalled, merged>>

\* for _, id := range sessionIDs { m.ExtractFromResponse(id, resp) }: the
\* response is chosen at the first id and kept for the others.
HbExtract ==
    /\ hbPc = "extract"
    /\ \/ /\ hbIdx <= Len(SessionIDs)
          /\ \E r \in IF hbIdx = 1 THEN Responses ELSE {exResp["hb"]} :
                 ExtractLoad("hb", SessionIDs[hbIdx], r)
          /\ UNCHANGED <<sessions, nextPtr, hbPc, hbIdx, merged>>
       \/ /\ ExtractStore("hb")
          /\ UNCHANGED <<exId, exBase, exResp, hbPc, hbIdx>>
       \/ /\ exPc["hb"] = "done"
          /\ exPc' = [exPc EXCEPT !["hb"] = "idle"]
          /\ hbIdx' = hbIdx + 1
          /\ UNCHANGED <<sessions, nextPtr, exId, exBase, exResp, hbPc, merged>>
       \/ /\ hbIdx > Len(SessionIDs)
          /\ exPc["hb"] = "idle"
          /\ hbPc' = "wait"
          /\ UNCHANGED <<sessions, nextPtr, exVars, hbIdx, merged>>
    /\ UNCHANGED <<claimVars, ticks, onceUsed, stopped, stopCalled>>

Keepalive == HbExit \/ HbTick \/ HbExtract

-----------------------------------------------------------------------------
Init ==
    /\ sessions = [id \in Ids |-> Nil]
    /\ nextPtr = 1
    /\ clPc = [k \in Claimers |-> "find"]
    /\ clId = [k \in Claimers |-> CHOOSE id \in Ids : TRUE]
    /\ clOld = [k \in Claimers |-> Nil]
    /\ won = [k \in Claimers |-> 0]
    /\ exPc = [e \in Extractors |-> "idle"]
    /\ exId = [e \in Extractors |-> CHOOSE id \in Ids : TRUE]
    /\ exBase = [e \in Extractors |-> Nil]
    /\ exResp = [e \in Extractors |-> CHOOSE r \in Responses : TRUE]
    /\ hbPc = "unstarted"
    /\ hbIdx = 1
    /\ ticks = 0
    /\ onceUsed = FALSE
    /\ stopped = FALSE
    /\ stopCalled = FALSE
    /\ merged = [id \in Ids |-> Nil.cookies]

Next ==
    \/ \E k \in Claimers : Claim(k)
    \/ \E e \in Solvers : Solve(e)
    \/ Start \/ Stop \/ Keepalive

Spec == Init /\ [][Next]_vars

\* The loop goroutine, once started, keeps being scheduled, so it finishes
\* a keep-alive pass; and Go's select picks uniformly among ready cases, so
\* a stopCh that is ready again and again is eventually the case taken.
Fairness == WF_vars(HbExtract) /\ SF_vars(HbExit)

-----------------------------------------------------------------------------
(* ClaimSession linearises claims (spec 4.8 (d)): no two claimers win the  *)
(* same stored state.  A claimer's Load and CompareAndSwap are separate    *)
(* steps, and extractions keep replacing the entry in between, so a swap  *)
(* that compared anything weaker than the pointer would let a second      *)
(* claimer win a state the first already took.                             *)
ClaimExclusive ==
    \A k1, k2 \in Claimers :
        (k1 # k2 /\ won[k1] # 0) => won[k1] # won[k2]

(* No extracted cookie is lost: each session's stored cookies are what the *)
(* Stores of ExtractFromResponse give when each merges into the state      *)
(* current at its Store (a claim keeps the cookies it swapped out).        *)
NoLostCookie ==
    \A id \in Ids : sessions[id].cookies = merged[id]

(* Stop ends the keep-alive loop (its doc comment: "signals the background *)
(* goroutine to exit"): after Stop has returned, the loop goroutine, if    *)
(* Start ever launched it, eventually returns, whichever of Start and Stop *)
(* consumed m.once and whatever pass of sendKeepAlive the loop was in.     *)
KeepaliveStops == stopCalled ~> hbPc \in {"unstarted", "exited"}

====
