----------------------------- MODULE HttpHeader -----------------------------
(***************************************************************************)
(* What OrderedHeader promises: to behave as net/http's http.Header, a map *)
(* from the canonical form of a key to the list of its values.  Add        *)
(* appends a value, Set leaves exactly one, Del removes the key, and Get   *)
(* returns the first value or "".  Order across keys is not part of it.   *)
(***************************************************************************)
EXTENDS Sequences

CONSTANTS CanonKeys, Values, NoValue, InitHdr  \* InitHdr: the header it starts as

VARIABLE hdr   \* canonical key -> the values of that key, in order

Init == hdr = InitHdr

Add(c, v) == hdr' = [hdr EXCEPT ![c] = Append(@, v)]

Set(c, v) == hdr' = [hdr EXCEPT ![c] = <<v>>]

Del(c) == hdr' = [hdr EXCEPT ![c] = <<>>]

Get(c) == IF hdr[c] = <<>> THEN NoValue ELSE Head(hdr[c])

Next == \E c \in CanonKeys, v \in Values : Add(c, v) \/ Set(c, v) \/ Del(c)

Spec == Init /\ [][Next]_hdr

====
