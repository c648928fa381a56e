----------------------------- MODULE MC_Dashboard -----------------------------
(* Model of the dashboard for TLC: a config POST, a proxy upload, a nodes  *)
(* request, the requests every rejecting path answers, main's shutdown    *)
(* log line, log and metrics streams and one jobFn call.                  *)
EXTENDS Dashboard, TLC

CONSTANTS rOpt, rGet, rPut, rBad, rPost, rProxy, rProxyGet, rProxyFail, rNodes, t0, t1

MCMethod == rOpt :> "OPTIONS" @@ rGet :> "GET" @@ rPut :> "PUT" @@ rBad :> "POST"
         @@ rPost :> "POST" @@ rProxy :> "POST"
         @@ rProxyGet :> "GET" @@ rProxyFail :> "POST" @@ rNodes :> "GET"

MCRoute == rOpt :> "config" @@ rGet :> "config" @@ rPut :> "config"
        @@ rBad :> "config" @@ rPost :> "config"
        @@ rProxy :> "proxy" @@ rProxyGet :> "proxy" @@ rProxyFail :> "proxy"
        @@ rNodes :> "nodes"

\* rPost sets a new target, with counts the range checks reject.
MCPayload == [r \in {rOpt, rGet, rPut, rBad, rProxy, rProxyGet, rProxyFail, rNodes} |-> BadBody]
          @@ rPost :> [target |-> t1, sessions |-> 2001, retries |-> 0]

\* The same, but rPost keeps the target: every field it sends is rejected.
MCPayloadKeep == [MCPayload EXCEPT ![rPost] = [target |-> EmptyTarget, sessions |-> 2001, retries |-> 0]]

\* rProxyFail: ParseMultipartForm, FormFile, CreateTemp or io.Copy failed.
MCUpload == [r \in {rOpt, rGet, rPut, rBad, rPost, rProxyGet, rNodes} |-> "ok"]
         @@ rProxy :> "ok" @@ rProxyFail :> "failed"

====
