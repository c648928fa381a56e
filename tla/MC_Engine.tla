------------------------------ MODULE MC_Engine ------------------------------
(* Two sessions, hence two workers and a job queue of eight.  The proxy     *)
(* files: none (direct connections), one good proxy shared round-robin,    *)
(* and one good and one invalid proxy, so that one creation fails.         *)
(* The ordered header, which shares no state with the engine, is checked  *)
(* in behaviours of its own: two spellings of one key and a second key,   *)
(* from a header built as ChromeOrderedHeaders builds it (the user agent   *)
(* before accept).  A behaviour picks one branch, and the other branch's  *)
(* variables keep their initial values.                                    *)
EXTENDS Engine

CONSTANTS p1, pbad, ka, kA, ku, cA, cU, v1, v2

\* OrderedHeader's constants.
CONSTANTS Keys, CanonKeys, Values, NoValue, MaxEntries

CONSTANT Branches   \* a subset of {"engine", "header"}

VARIABLES entries, branch

MCProxyFiles == {<<>>, <<p1>>, <<p1, pbad>>}
MCBadProxies == {pbad}

MCCanon == ka :> cA @@ kA :> cA @@ ku :> cU

MCInitEntries == <<[key |-> ku, value |-> v1], [key |-> ka, value |-> v1]>>

OH == INSTANCE OrderedHeader WITH Canon <- MCCanon, InitEntries <- MCInitEntries

\* Add, Set and Del act on each canonical key's values as http.Header's do:
\* OrderedHeader refines HttpHeader.
ImplementsHttpHeader == OH!ImplementsHttpHeader

\* No Add, Set or Del moves one header before another in the entries.
OrderPreserved == OH!OrderPreserved

MCInit == Init /\ OH!Init /\ branch \in Branches

MCNext ==
    \/ branch = "engine" /\ Next /\ UNCHANGED <<entries, branch>>
    \/ branch = "header" /\ OH!Next /\ UNCHANGED <<vars, branch>>

\* Engine's Fairness, for the engine's branch.
MCFairness ==
    /\ WF_vars(branch = "engine" /\ ~Halted /\ MainStep)
    /\ WF_vars(branch = "engine" /\ ~Halted /\ SchedStep)
    /\ \A w \in Workers : WF_vars(branch = "engine" /\ ~Halted /\ WorkerStep(w))

MCSpec == MCInit /\ [][MCNext]_<<vars, entries, branch>> /\ MCFairness
=============================================================================
