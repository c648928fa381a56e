-------------------------------- MODULE Logger --------------------------------
(***************************************************************************)
(* logger.Logger (logger/logger.go).  Info, Error and Debug each load the  *)
(* level under the read lock, release it, and only then compare and write; *)
(* SetLevel stores the level under the write lock.  A call is therefore    *)
(* two steps, and SetLevel may run between them.  The message text and    *)
(* the formatting of Infof, Errorf and Debugf are left out; log.Logger's  *)
(* own mutex makes each write one step.                                    *)
(***************************************************************************)
EXTENDS Naturals

\* Level (12-22): LevelDebug, LevelInfo, LevelError = iota.
LevelDebug == 0
LevelInfo  == 1
LevelError == 2
Levels == {LevelDebug, LevelInfo, LevelError}

CONSTANTS
    Calls,      \* goroutines that log, each making one call after another
    Kind,       \* Kind[c] \in {"Info", "Error", "Debug"}: the method c calls
    Setters,    \* goroutines that call SetLevel, any number of times
    SetTo,      \* SetTo[s] \in Levels: the level SetLevel call s sets
    InitLevel   \* the level passed to New

ASSUME /\ \A c \in Calls : Kind[c] \in {"Info", "Error", "Debug"}
       /\ \A s \in Setters : SetTo[s] \in Levels
       /\ InitLevel \in Levels

VARIABLES
    level,     \* l.level
    lPc,       \* lPc[c]: "idle" between calls, "loaded" after RUnlock
    lvl,       \* lvl[c]: the level c's call loaded
    out        \* out[c]: whether c's latest finished call wrote its message

logVars == <<level, lPc, lvl, out>>

\* lvl := l.level between RLock and RUnlock (61-63, 76-78, 91-93).
LogLoad(c) ==
    /\ lPc[c] = "idle"
    /\ lvl' = [lvl EXCEPT ![c] = level]
    /\ lPc' = [lPc EXCEPT ![c] = "loaded"]
    /\ UNCHANGED <<level, out>>

\* Mutant: the comparison is strict.
LogOutputStrict(c, min) ==
    /\ lPc[c] = "loaded"
    /\ out' = [out EXCEPT ![c] = lvl[c] < min]
    /\ lPc' = [lPc EXCEPT ![c] = "idle"]
    /\ UNCHANGED <<level, lvl>>

\* if lvl <= min { ...Output(2, msg) } (64-66), with the loaded level.
LogOutput(c, min) ==
    /\ lPc[c] = "loaded"
    /\ out' = [out EXCEPT ![c] = lvl[c] <= min]
    /\ lPc' = [lPc EXCEPT ![c] = "idle"]
    /\ UNCHANGED <<level, lvl>>

\* Info and Infof (59-72): written from LevelInfo down.
Info(c) == Kind[c] = "Info" /\ (LogLoad(c) \/ LogOutput(c, LevelInfo))

\* Error and Errorf (74-87): written at every level.
Error(c) == Kind[c] = "Error" /\ (LogLoad(c) \/ LogOutput(c, LevelError))

\* Debug and Debugf (89-102): written only at LevelDebug.
Debug(c) == Kind[c] = "Debug" /\ (LogLoad(c) \/ LogOutput(c, LevelDebug))

\* SetLevel (52-57): one store under the write lock.
SetLevel(s) ==
    /\ level' = SetTo[s]
    /\ UNCHANGED <<lPc, lvl, out>>

\* New (42-50).
New ==
    /\ level = InitLevel
    /\ lPc = [c \in Calls |-> "idle"]
    /\ lvl = [c \in Calls |-> InitLevel]
    /\ out = [c \in Calls |-> FALSE]

LoggerNext ==
    \/ \E c \in Calls : Info(c) \/ Error(c) \/ Debug(c)
    \/ \E s \in Setters : SetLevel(s)

LoggerSpec == New /\ [][LoggerNext]_logVars

-----------------------------------------------------------------------------
TypeOKLogger ==
    /\ level \in Levels
    /\ lPc \in [Calls -> {"idle", "loaded"}]
    /\ lvl \in [Calls -> Levels]
    /\ out \in [Calls -> BOOLEAN]

KindLevel == [k \in {"Info", "Error", "Debug"} |->
                CASE k = "Info" -> LevelInfo
                  [] k = "Error" -> LevelError
                  [] k = "Debug" -> LevelDebug]

(***************************************************************************)
(* The refinement mapping: a call takes effect when it loads the level     *)
(* (its linearization point): a loaded call's outcome is already the one  *)
(* its loaded level decides, though its Output has not run.                *)
(***************************************************************************)
LL == INSTANCE LevelledLog WITH
        out <- [c \in Calls |-> IF lPc[c] = "loaded" THEN lvl[c] <= KindLevel[Kind[c]]
                                                       ELSE out[c]]

(***************************************************************************)
(* Every logging call behaves as if it checked the level and wrote at the  *)
(* single instant it loaded the level, so that concurrent SetLevel calls   *)
(* (which the type comment allows) only decide which side of that instant *)
(* they fall on.  It fails if a method compares with the wrong level, or  *)
(* with a level other than the one it loaded.  A message may still be      *)
(* written after a SetLevel that forbids it has returned.                   *)
(***************************************************************************)
ImplementsLevelledLog == LL!Spec

====
