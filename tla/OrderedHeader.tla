---------------------------- MODULE OrderedHeader ----------------------------
(***************************************************************************)
(* OrderedHeader (client/ordered_header.go): header entries kept in a      *)
(* slice in insertion order with the caller's key casing.  The header is   *)
(* owned by one session and built before its goroutine starts, so its      *)
(* operations are the steps of a single actor.  A key is a model value and *)
(* Canon is what http.CanonicalHeaderKey makes of it: keys differing only  *)
(* in case have the same canonical form.                                   *)
(***************************************************************************)
EXTENDS Naturals, Sequences, FiniteSets
LOCAL INSTANCE SequencesExt

CONSTANTS
    Keys,        \* header keys as callers spell them
    CanonKeys,   \* their canonical forms
    Canon,       \* Canon[k]: http.CanonicalHeaderKey(k)
    Values,      \* header values
    NoValue,     \* ""
    InitEntries, \* the entries the header is built with (ChromeOrderedHeaders)
    MaxEntries   \* bound on the number of entries Add may create

ASSUME /\ Canon \in [Keys -> CanonKeys]
       /\ NoValue \notin Values
       /\ MaxEntries \in Nat

Entry == [key : Keys, value : Values]

VARIABLE entries   \* h.entries

-----------------------------------------------------------------------------
Matches(e, k) == Canon[e.key] = Canon[k]

\* Add (34-36): append, keeping k's casing.
Add(k, v) ==
    /\ Len(entries) < MaxEntries
    /\ entries' = Append(entries, [key |-> k, value |-> v])

\* Mutant: Set as Del followed by Add, which moves the key to the end.
SetEntriesByDelAdd(es, k, v) ==
    Append(SelectSeq(es, LAMBDA e : ~Matches(e, k)), [key |-> k, value |-> v])

\* Mutant: Set without the skip of later duplicates.
SetEntriesKeepDups(es, k, v) ==
    LET step(acc, e) ==
          IF Matches(e, k) /\ ~acc.replaced
          THEN [out |-> Append(acc.out, [key |-> k, value |-> v]), replaced |-> TRUE]
          ELSE [out |-> Append(acc.out, e), replaced |-> acc.replaced]
        r == FoldLeft(step, [out |-> <<>>, replaced |-> FALSE], es)
    IN IF r.replaced THEN r.out ELSE Append(r.out, [key |-> k, value |-> v])

\* Set (44-63): one pass over the entries; the first match becomes (k, v),
\* later matches are skipped, the rest are kept; with no match, append.
SetEntries(es, k, v) ==
    LET step(acc, e) ==
          IF Matches(e, k)
          THEN IF acc.replaced THEN acc
               ELSE [out |-> Append(acc.out, [key |-> k, value |-> v]), replaced |-> TRUE]
          ELSE [out |-> Append(acc.out, e), replaced |-> acc.replaced]
        r == FoldLeft(step, [out |-> <<>>, replaced |-> FALSE], es)
    IN IF r.replaced THEN r.out ELSE Append(r.out, [key |-> k, value |-> v])

Set(k, v) ==
    /\ Len(SetEntries(entries, k, v)) <= MaxEntries
    /\ entries' = SetEntries(entries, k, v)

\* Del (66-75): keep the entries whose key does not match.
Del(k) == entries' = SelectSeq(entries, LAMBDA e : ~Matches(e, k))

\* Get (79-87): the value of the first match, or "".
Get(k) ==
    LET i == SelectInSeq(entries, LAMBDA e : Matches(e, k))
    IN IF i = 0 THEN NoValue ELSE entries[i].value

\* ApplyToRequest (110-118): a fresh http.Header; every entry's value is
\* appended under its raw key, bypassing canonicalisation.
ApplyToRequest(es) ==
    [k \in {es[i].key : i \in DOMAIN es} |->
        LET m == SelectSeq(es, LAMBDA e : e.key = k)
        IN  [i \in 1 .. Len(m) |-> m[i].value]]

\* ToHTTPHeader (124-130) builds the same map.
ToHTTPHeader(es) == ApplyToRequest(es)

Init == entries = InitEntries

Next == \E k \in Keys, v \in Values : Add(k, v) \/ Set(k, v) \/ Del(k)

Spec == Init /\ [][Next]_entries

-----------------------------------------------------------------------------
(***************************************************************************)
(* Properties.                                                             *)
(***************************************************************************)

\* The values of one canonical key, in entry order.
ValuesOf(es, c) ==
    LET m == SelectSeq(es, LAMBDA e : Canon[e.key] = c)
    IN [i \in 1..Len(m) |-> m[i].value]

\* Refinement: Add, Set and Del act on each canonical key's values exactly
\* as http.Header's do, so OrderedHeader is the drop-in companion its doc
\* comment says (a Set that left a later duplicate in place would differ).
HH == INSTANCE HttpHeader WITH hdr <- [c \in CanonKeys |-> ValuesOf(entries, c)],
                               InitHdr <- [c \in CanonKeys |-> ValuesOf(InitEntries, c)]
ImplementsHttpHeader == HH!Spec

\* The canonical keys in the order of their first entry in the slice (the
\* order the doc comment promises; ApplyToRequest does not carry it to the
\* wire, see README).
KeyOrder(es) ==
    LET firsts == SelectSeq([i \in DOMAIN es |-> i],
                    LAMBDA i : \A j \in 1..(i - 1) : Canon[es[j].key] # Canon[es[i].key])
    IN [n \in DOMAIN firsts |-> Canon[es[firsts[n]].key]]

\* No step reorders headers: two canonical keys present before and after any
\* Add, Set or Del keep their relative order (Set replaces in place).
Before(s, a, b) ==
    \E i, j \in DOMAIN s : i < j /\ s[i] = a /\ s[j] = b

OrderPreserved ==
    [][\A a, b \in CanonKeys :
         Before(KeyOrder(entries), a, b) /\ Contains(KeyOrder(entries'), a)
           /\ Contains(KeyOrder(entries'), b)
         => Before(KeyOrder(entries'), a, b)]_entries

====
