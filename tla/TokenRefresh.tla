----------------------------- MODULE TokenRefresh -----------------------------
(***************************************************************************)
(* TokenRefreshManager (unnamed/part_003, lines 306-521): one token under  *)
(* an RW lock, Refresh (a GET, then SetToken), the StartAutoRefresh        *)
(* goroutine, and Stop.  A token is a model value; ParseClaims is reduced *)
(* to what the loop reads of it, Exp[t]: a second on the clock, NoExp     *)
(* when the claims have no numeric "exp", or Malformed when they cannot be *)
(* parsed.  The clock counts whole seconds; time.Now() is somewhere in the *)
(* current second.  StartHeartbeat's loop only reads the token and is not *)
(* modelled beyond that.                                                   *)
(***************************************************************************)
EXTENDS Naturals

CONSTANTS
    Tokens,          \* non-empty tokens
    Empty,           \* the empty string
    Exp,             \* Exp[t]: t's exp claim, NoExp or Malformed
    NoExp,
    Malformed,
    Served,          \* tokens the refresh endpoint may issue
    RefreshBefore,   \* refreshBefore, in seconds
    MaxNow           \* the last second the clock reaches

VARIABLES
    token,      \* m.token
    now,        \* the current second
    arPc,       \* the auto-refresh goroutine: "wait", "refresh", "set" or "exited"
    fetched,    \* the token Refresh read from the response body
    tStopped    \* m.stopCh is closed

tokenVars == <<token, now, arPc, fetched, tStopped>>

\* SetToken (335-339), called by the session's own code.
SetToken(t) ==
    /\ token' = t
    /\ UNCHANGED <<now, arPc, fetched, tStopped>>

\* A second passes.
ClockTick ==
    /\ now < MaxNow
    /\ now' = now + 1
    /\ UNCHANGED <<token, arPc, fetched, tStopped>>

\* time.Now().After(deadline) for deadline = exp - refreshBefore: certain
\* past the deadline's second, possible within it.
After(deadline) == IF now > deadline THEN {TRUE} ELSE IF now = deadline THEN BOOLEAN ELSE {FALSE}

\* Mutant: a token whose claims do not parse is skipped like an empty one.
AutoCheckSkipMalformed ==
    /\ arPc = "wait"
    /\ ~tStopped
    /\ token # Empty
    /\ Exp[token] \notin {NoExp, Malformed}
    /\ \E due \in After(Exp[token] - RefreshBefore) : due /\ arPc' = "refresh"
    /\ UNCHANGED <<token, now, fetched, tStopped>>

\* case <-ticker.C (461-478): tok := GetToken(); an empty token is skipped;
\* one that does not parse is refreshed; one with a numeric exp is
\* refreshed once now is after exp - refreshBefore.
AutoCheck ==
    /\ arPc = "wait"
    /\ ~tStopped
    /\ token # Empty
    /\ \/ Exp[token] = Malformed
       \/ /\ Exp[token] \notin {NoExp, Malformed}
          /\ \E due \in After(Exp[token] - RefreshBefore) : due
    /\ arPc' = "refresh"
    /\ UNCHANGED <<token, now, fetched, tStopped>>

\* Refresh (399-422) failing: the GET fails, the status is not 2xx, the body
\* cannot be read or is empty after TrimSpace.  The loop drops the error.
RefreshFailed ==
    /\ arPc = "refresh"
    /\ arPc' = "wait"
    /\ UNCHANGED <<token, now, fetched, tStopped>>

\* Refresh's GET answered with a new token (the endpoint issues a token
\* other than the one being refreshed).
RefreshFetched ==
    /\ arPc = "refresh"
    /\ \E t \in Served \ {token} : fetched' = t
    /\ arPc' = "set"
    /\ UNCHANGED <<token, now, tStopped>>

\* m.SetToken(newToken) at the end of Refresh (423-424).
RefreshSet ==
    /\ arPc = "set"
    /\ token' = fetched
    /\ arPc' = "wait"
    /\ UNCHANGED <<now, fetched, tStopped>>

\* case <-m.stopCh: return (459-460).
AutoExit ==
    /\ arPc = "wait"
    /\ tStopped
    /\ arPc' = "exited"
    /\ UNCHANGED <<token, now, fetched, tStopped>>

\* Stop (517-521): once.Do(close(stopCh)).
TokenStop ==
    /\ ~tStopped
    /\ tStopped' = TRUE
    /\ UNCHANGED <<token, now, arPc, fetched>>

AutoRefresh == AutoCheck \/ RefreshFailed \/ RefreshFetched \/ RefreshSet \/ AutoExit

\* NewTokenRefreshManager (322-332) with StartAutoRefresh called: no token
\* yet, or one the session set before the loop's first tick.
TokenInit ==
    /\ token \in {Empty} \cup Tokens
    /\ now = 0
    /\ arPc = "wait"
    /\ fetched = Empty
    /\ tStopped = FALSE

TokenNext ==
    \/ \E t \in {Empty} \cup Tokens : SetToken(t)
    \/ ClockTick \/ AutoRefresh \/ TokenStop

\* The loop goroutine keeps running (its ticker fires every checkInterval),
\* and the refresh endpoint, asked again and again, eventually answers
\* with a token: an assumption about the server, not the code.
TokenFairness == WF_tokenVars(AutoRefresh) /\ SF_tokenVars(RefreshFetched)

-----------------------------------------------------------------------------
(***************************************************************************)
(* StartAutoRefresh's promise ("calls Refresh when the token is expired or *)
(* will expire within refreshBefore"): whenever the stored token has       *)
(* expired, is within refreshBefore of its exp, or cannot be parsed, a     *)
(* Refresh eventually obtains a new token, unless the session first stores *)
(* one that needs no refresh or Stop ends the loop.  An empty token is     *)
(* excluded: the loop skips it (line 463) and never obtains a first token. *)
(***************************************************************************)
MustRefresh(t) ==
    \/ Exp[t] = Malformed
    \/ Exp[t] \notin {NoExp, Malformed} /\ now > Exp[t] - RefreshBefore

ExpiringTokenReplaced ==
    (token # Empty /\ MustRefresh(token))
        ~> (arPc = "set" \/ tStopped \/ token = Empty \/ ~MustRefresh(token))

====
