----------------------------- MODULE Fingerprint -----------------------------
(***************************************************************************)
(* fingerprint.Profile (fingerprint/fingerprint.go): a User-Agent and an   *)
(* ordered list of extra headers, and ApplyHeaders, which merges them into *)
(* a session's header map.  Header names are the strings of the code,      *)
(* since ApplyHeaders compares them exactly; a profile's header value is   *)
(* kept as <<browser, name>> (the value that browser sends for that name). *)
(* The TLS configurations only feed crypto/tls and are not modelled.       *)
(* The state is one session's Headers map (session.Session.Headers) and   *)
(* the names the session's own code wrote into it, and the header of the   *)
(* last request Session.ExecuteRequest built from it; the steps are those  *)
(* writes, ApplyHeaders with either profile and requests, in any order.   *)
(***************************************************************************)
EXTENDS Sequences, SequencesExt, FiniteSets

CONSTANTS
    NilMap,     \* a nil map[string]string
    NoRequest   \* no request has been built yet

VARIABLES
    headers,   \* the session's Headers map, or NilMap
    own,       \* the names the session itself wrote
    sent       \* the last request: its http.Header (canonical key |-> value)
               \* and, as history, the names the session had written by then

fpVars == <<headers, own, sent>>

\* The header of a profile's ExtraHeaders list (Header, 57-60).
Header(browser, name) == [name |-> name, value |-> <<browser, name>>]

\* ChromeProfile (68-87).
ChromeProfile ==
    [userAgent    |-> <<"chrome", "User-Agent">>,
     extraHeaders |-> [i \in 1 .. 10 |-> Header("chrome",
                        <<"Accept", "Accept-Language", "Accept-Encoding", "Sec-Ch-Ua",
                          "Sec-Ch-Ua-Mobile", "Sec-Ch-Ua-Platform", "Sec-Fetch-Dest",
                          "Sec-Fetch-Mode", "Sec-Fetch-Site",
                          "Upgrade-Insecure-Requests">>[i])]]

\* FirefoxProfile (90-106).
FirefoxProfile ==
    [userAgent    |-> <<"firefox", "User-Agent">>,
     extraHeaders |-> [i \in 1 .. 8 |-> Header("firefox",
                        <<"Accept", "Accept-Language", "Accept-Encoding",
                          "Upgrade-Insecure-Requests", "Sec-Fetch-Dest", "Sec-Fetch-Mode",
                          "Sec-Fetch-Site", "Sec-Fetch-User">>[i])]]

\* headers[name] = value for a Go map held as a function.
Put(hm, name, value) == [k \in DOMAIN hm \cup {name} |->
                            IF k = name THEN value ELSE hm[k]]

\* ApplyHeaders (121-133): nothing for a nil map; otherwise User-Agent is
\* set (the profiles' is never empty), then each extra header in list order
\* is written only when its exact key is absent.
ApplyHeaders(p, hm) ==
    IF hm = NilMap THEN NilMap
    ELSE FoldLeft(LAMBDA acc, h : IF h.name \in DOMAIN acc THEN acc
                                  ELSE Put(acc, h.name, h.value),
                  Put(hm, "User-Agent", p.userAgent), p.extraHeaders)

\* The names a session writes here: Accept, which both profiles send, in
\* its canonical and in lower case, and one only Firefox sends.
SessionNames == {"Accept", "accept", "Sec-Fetch-User"}

\* http.CanonicalHeaderKey on the names that occur: the profiles' names are
\* already canonical, and of the session's only "accept" is not.
CanonicalHeaderKey(k) == IF k = "accept" THEN "Accept" ELSE k

\* The keys of a Go map; ranging over a nil map visits none.
MapKeys(hm) == IF hm = NilMap THEN {} ELSE DOMAIN hm

\* The raw keys of hm that req.Header.Set files under canonical key c.
Sources(hm, c) == {k \in MapKeys(hm) : CanonicalHeaderKey(k) = c}

\* The value the session's own code writes, shaped like a profile's.
SessionValue == <<"session", "value">>

\* Session.Headers (part_006:177-179): the session's code sets a header,
\* headers[k] = v, on a map NewSession made.
SessionSet(k) ==
    /\ headers # NilMap
    /\ headers' = Put(headers, k, SessionValue)
    /\ own' = own \cup {k}
    /\ UNCHANGED sent

\* p.ApplyHeaders(s.Headers), the usage of the package comment.
Apply(p) ==
    /\ headers' = ApplyHeaders(p, headers)
    /\ UNCHANGED <<own, sent>>

\* ExecuteRequest (part_006:232-246): under the read lock, req.Header.Set(k, v)
\* for every k, v of s.Headers in map iteration order, which Go leaves
\* unspecified; Set canonicalises k and replaces, so of two raw keys with
\* one canonical form the one visited last is sent.  The request itself,
\* and its response, change no state here.
ExecuteRequest ==
    LET canon == {CanonicalHeaderKey(k) : k \in MapKeys(headers)}
        shared == {c \in canon : Cardinality(Sources(headers, c)) > 1}
    IN  \E last \in [shared -> MapKeys(headers)] :
          /\ \A c \in shared : last[c] \in Sources(headers, c)
          /\ sent' = [hdr |-> [c \in canon |->
                                  headers[IF c \in shared THEN last[c]
                                          ELSE CHOOSE k \in Sources(headers, c) : TRUE]],
                      own |-> own]
          /\ UNCHANGED <<headers, own>>

\* A map made by NewSession (make(map[string]string)), or a nil map.
FingerprintInit ==
    /\ headers \in {[k \in {} |-> SessionValue], NilMap}
    /\ own = {}
    /\ sent = NoRequest

FingerprintNext ==
    \/ \E k \in SessionNames : SessionSet(k)
    \/ \E p \in {ChromeProfile, FirefoxProfile} : Apply(p)
    \/ ExecuteRequest

-----------------------------------------------------------------------------
(***************************************************************************)
(* Session-level headers take precedence (ApplyHeaders' doc comment, and   *)
(* spec.md's "caller-supplied headers override entries with matching       *)
(* canonical name"): every header the session wrote goes out on its next   *)
(* request with the session's value, whatever profile was applied before  *)
(* or after, User-Agent excepted, which ApplyHeaders always sets.          *)
(***************************************************************************)
SessionHeadersSent ==
    sent # NoRequest =>
        \A k \in sent.own \ {"User-Agent"} : sent.hdr[CanonicalHeaderKey(k)] = SessionValue

=============================================================================
