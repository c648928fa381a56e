----------------------------- MODULE LevelledLog -----------------------------
(***************************************************************************)
(* What a levelled logger promises its concurrent callers: each logging    *)
(* call takes effect at one instant, writing its message exactly when the  *)
(* level at that instant lets its kind through, and SetLevel changes the   *)
(* level at one instant.  Logger.tla is shown to implement this.           *)
(***************************************************************************)
EXTENDS Naturals

CONSTANTS
    Calls,      \* goroutines that log, each making one call after another
    Kind,       \* Kind[c] \in DOMAIN KindLevel: the method call c makes
    KindLevel,  \* KindLevel[k]: the level of kind k; it is written while level <= it
    Setters,    \* goroutines that call SetLevel
    SetTo,      \* SetTo[s]: the level s sets
    InitLevel   \* the level New was given

VARIABLES
    level,   \* the logger's level
    out      \* out[c]: whether caller c's latest message was written

\* One logging call by caller c, checked and written at one instant.
Log(c) ==
    /\ out' = [out EXCEPT ![c] = level <= KindLevel[Kind[c]]]
    /\ UNCHANGED level

SetLevel(s) ==
    /\ level' = SetTo[s]
    /\ UNCHANGED out

Init ==
    /\ level = InitLevel
    /\ out = [c \in Calls |-> FALSE]

Next == (\E c \in Calls : Log(c)) \/ (\E s \in Setters : SetLevel(s))

Spec == Init /\ [][Next]_<<level, out>>

====
