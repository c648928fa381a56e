-------------------------------- MODULE Sensor --------------------------------
(***************************************************************************)
(* GenerateSensorPayload and generateMousePath (fingerprint/sensor.go):    *)
(* the mouse path of a sensor payload, as the event kinds it appends and   *)
(* the timestamps of each append relative to the timestamp before it.      *)
(* Coordinates (the Bezier curve and its jitter), the screen, timezone,    *)
(* navigator fields and canvas hash feed no ordering and are left out.     *)
(* The inter-sample delay is round(12 / (0.6 + sin(pi*rawT))) plus a      *)
(* jitter: sin(pi*rawT) ranges over [0, 1], so the rounded base is some    *)
(* integer of 8 .. 20 (12/1.6 = 7.5 rounds up); the model lets every      *)
(* sample take any of them.  Absolute times (baseT, elapsed) are dropped: *)
(* only the order of consecutive events is asked about.                    *)
(***************************************************************************)
EXTENDS Naturals, Sequences

VARIABLES
    sPhase,   \* "idle" before a call, "path" in the sampling loop, "done" after it
    pathLen,  \* n, the number of mousemove samples drawn for this path
    sample,   \* i, the loop index
    kinds,    \* the EventType of every point appended so far
    last      \* T of each point the last step appended, minus T before that step

sensorVars == <<sPhase, pathLen, sample, kinds, last>>

\* rng.Intn(k): any of 0 .. k-1.
Intn(k) == 0 .. k - 1

MinPoints == 18
MaxPoints == 45

\* n := minPoints + rng.Intn(maxPoints-minPoints+1) (200-204).
PathLengths == {MinPoints + x : x \in Intn(MaxPoints - MinPoints + 1)}

\* math.Round(12 / (speed + 0.1)) for speed = 0.5 + sin(pi*rawT) (240-241).
BaseDelays == 8 .. 20

\* The jittered, clamped delay of one sample (238-246).
MoveDelay(base, j) == IF base + j - 2 < 4 THEN 4 ELSE base + j - 2

\* GenerateSensorPayload (138-175), called again for each page load: the
\* payload's other fields are drawn and dropped; generateMousePath draws n.
GenerateSensorPayload ==
    /\ sPhase = "idle"
    /\ pathLen' \in PathLengths
    /\ sPhase' = "path"
    /\ sample' = 0
    /\ kinds' = <<>>
    /\ last' = <<>>

\* One iteration of the sampling loop (226-254): a mousemove at
\* T = baseT + elapsed, elapsed grown by the sample's delay.
SampleMove ==
    /\ sPhase = "path"
    /\ sample < pathLen
    /\ \E delay \in {MoveDelay(base, j) : base \in BaseDelays, j \in Intn(6)} :
          last' = <<delay>>
    /\ kinds' = Append(kinds, 0)
    /\ sample' = sample + 1
    /\ UNCHANGED <<sPhase, pathLen>>

\* Mutant: mouseup offset from the same base as mousedown.
ClickUpFromDown ==
    /\ sPhase = "path"
    /\ sample = pathLen
    /\ \E d \in Intn(40), u \in Intn(120) : last' = <<20 + d, 20 + u>>
    /\ kinds' = kinds \o <<1, 2>>
    /\ sPhase' = "done"
    /\ UNCHANGED <<pathLen, sample>>

\* The click at the endpoint (256-263): mousedown at lastT + 20 .. 59 and
\* mouseup at lastT + 80 .. 199, both after the last mousemove.
Click ==
    /\ sPhase = "path"
    /\ sample = pathLen
    /\ \E d \in Intn(40), u \in Intn(120) : last' = <<20 + d, 80 + u>>
    /\ kinds' = kinds \o <<1, 2>>
    /\ sPhase' = "done"
    /\ UNCHANGED <<pathLen, sample>>

\* return &SensorPayload{...} (164-175): the path goes to the caller, which
\* may call GenerateSensorPayload again for its next page load.
ReturnPayload ==
    /\ sPhase = "done"
    /\ sPhase' = "idle"
    /\ kinds' = <<>>
    /\ last' = <<>>
    /\ UNCHANGED <<pathLen, sample>>

SensorInit ==
    /\ sPhase = "idle"
    /\ pathLen = MinPoints
    /\ sample = 0
    /\ kinds = <<>>
    /\ last = <<>>

SensorNext == GenerateSensorPayload \/ SampleMove \/ Click \/ ReturnPayload

-----------------------------------------------------------------------------
TypeOKSensor ==
    /\ sPhase \in {"idle", "path", "done"}
    /\ pathLen \in PathLengths
    /\ sample \in 0 .. pathLen
    /\ kinds \in Seq({0, 1, 2})
    /\ last \in Seq(Nat)

(***************************************************************************)
(* Sensor invariant 9 of the specification, on the path generateMousePath  *)
(* returns: the timestamps never decrease from one point to the next (each *)
(* delay of the loop, mousedown after the last move, mouseup after         *)
(* mousedown), and a finished path is 18 to 45 mousemoves, then one       *)
(* mousedown, then one mouseup.                                            *)
(***************************************************************************)
MousePathWellFormed ==
    /\ \A k \in 1 .. Len(last) : last[k] >= IF k = 1 THEN 0 ELSE last[k - 1]
    /\ sPhase = "done" =>
         \E m \in MinPoints .. MaxPoints :
            kinds = [k \in 1 .. m + 2 |-> IF k <= m THEN 0 ELSE k - m]

====
