------------------------------ MODULE MC_Master ------------------------------
(* Model of the master for TLC: one cookie name, three   BroadcastCookie     *)
(* calls (one empty, two overlapping on a name), streams and a channel      *)
(* small enough for the overflow branch to be reached, a GetCookies call    *)
(* a clock that passes a cookie's expiry, and two status reports.          *)
EXTENDS Master, TLC

CONSTANTS n1, v1, v2, b0, b1, b2, pcA, pcB, s1, s2, s3, g1, r1, r2

\* Two lifecycle transitions of session 0 on pcA, reported concurrently.
MCReport == r1 :> [sid |-> 0, pc |-> pcA, state |-> "active"]
         @@ r2 :> [sid |-> 0, pc |-> pcA, state |-> "closed"]

\* b0 sends no cookies (rejected); b1 and b2 set n1 to different values,
\* b1's expiring at second 1 and b2's a session cookie.
MCRequest == b0 :> [n \in {} |-> [value |-> v1, expires |-> Zero]]
          @@ b1 :> (n1 :> [value |-> v1, expires |-> 1])
          @@ b2 :> (n1 :> [value |-> v2, expires |-> Zero])

\* b1 carries a cookie its site deleted: Set-Cookie with
\* Expires=Thu, 01 Jan 1970 00:00:00 GMT parses to time.Unix(0, 0).
MCRequestDeleted == b1 :> (n1 :> [value |-> v1, expires |-> 0])

\* Distinct pc ids, plus a stream with an empty pc id.
MCStreamPcDistinct == s1 :> pcA @@ s2 :> pcB @@ s3 :> EmptyPc

\* One worker's stream.
MCStreamPcOne == s1 :> pcA

\* One worker's stream and a stream with an empty pc id.
MCStreamPcMain == s1 :> pcA @@ s3 :> EmptyPc

\* A worker that reconnects: two streams under the same pc id.
MCStreamPcReconnect == s1 :> pcA @@ s2 :> pcA

====
