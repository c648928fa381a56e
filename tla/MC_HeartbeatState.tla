-------------------------- MODULE MC_HeartbeatState --------------------------
(* One session, two claimers, one challenge solver and a keep-alive loop    *)
(* that ticks twice; responses without cookies, with a plain cookie, and    *)
(* with a JWT cookie and a Bearer header.                                   *)
(* Components that share no state with it are checked in behaviours of   *)
(* their own: the sensor's mouse path; the logger every component shares  *)
(* (an Info, an Error and a Debug caller racing two SetLevel callers, from *)
(* main's LevelInfo); the token refresh manager (tokens expiring at 1 and  *)
(* at 3, one without exp, one that does not parse; the clock runs to 3);  *)
(* and a session's Headers map under the profiles' ApplyHeaders and        *)
(* ExecuteRequest.  A behaviour picks one branch of Branches and the       *)
(* others' variables keep their initial values, so a run checks the sum   *)
(* of the state spaces, not their product.                                 *)
EXTENDS HeartbeatState, Sensor, Logger, TokenRefresh, Fingerprint, TLC

CONSTANTS sid, jwt, v1, v2, k1, k2, x1, cInfo, cError, cDebug, sErr, sDbg,
          tExp, tBad, tNoExp, tNew

CONSTANT Branches   \* a subset of {"heartbeat", "sensor", "logger", "token", "fingerprint"}

VARIABLE branch

MCKind == cInfo :> "Info" @@ cError :> "Error" @@ cDebug :> "Debug"

MCSetTo == sErr :> LevelError @@ sDbg :> LevelDebug

MCResponses ==
    { [cookies |-> [n \in {} |-> v1], bearer |-> None],
      [cookies |-> (sid :> v1), bearer |-> None],
      [cookies |-> (sid :> v2 @@ jwt :> v2), bearer |-> v1] }

MCSessionIDs == <<1>>

MCExp == tExp :> 1 @@ tNew :> 3 @@ tNoExp :> NoExp @@ tBad :> Malformed

\* Outside its branch the manager holds no token, so none of its fair steps
\* is enabled there; outside its branch the session's map is nil.
MCInit ==
    /\ Init /\ SensorInit /\ New /\ TokenInit /\ FingerprintInit
    /\ branch \in Branches
    /\ branch # "token" => token = Empty
    /\ branch # "fingerprint" => headers = NilMap

MCNext ==
    \/ branch = "heartbeat" /\ Next /\ UNCHANGED <<sensorVars, logVars, tokenVars, fpVars, branch>>
    \/ branch = "sensor" /\ SensorNext /\ UNCHANGED <<vars, logVars, tokenVars, fpVars, branch>>
    \/ branch = "logger" /\ LoggerNext /\ UNCHANGED <<vars, sensorVars, tokenVars, fpVars, branch>>
    \/ branch = "token" /\ TokenNext /\ UNCHANGED <<vars, sensorVars, logVars, fpVars, branch>>
    \/ branch = "fingerprint" /\ FingerprintNext
          /\ UNCHANGED <<vars, sensorVars, logVars, tokenVars, branch>>

MCSpec ==
    /\ MCInit
    /\ [][MCNext]_<<vars, sensorVars, logVars, tokenVars, fpVars, branch>>
    /\ Fairness /\ TokenFairness

====
