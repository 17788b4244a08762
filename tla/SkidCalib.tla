------------------------------ MODULE SkidCalib -------------------------------
(***************************************************************************)
(* skid_calib, the tool that measures skid_factor, listening to the status *)
(* that drive_bridge publishes while an operator turns the robot.  The     *)
(* bridge is DriveData: the rates are those of its last telemetry frame,   *)
(* published again and again by the status timer.                          *)
(***************************************************************************)
EXTENDS DriveData

CONSTANTS
    Turns,      \* the frames of a robot that is turned for calibration
    Gaps,       \* times between two status messages, by their stamps
    MinRate,    \* --min-rate, in gyro units
    MinCalib,   \* --min-calib-gyro
    MaxGap,     \* 0.5 s: a longer gap is a stalled clock
    MaxSamples  \* bound: samples taken while turning

ASSUME CalibrationAssumption ==
    /\ Turns \subseteq Frames /\ Gaps \subseteq Nat
    /\ MinRate \in Nat \ {0} /\ MinCalib \in 0 .. 3 /\ MaxGap \in Nat /\ MaxSamples \in Nat

VARIABLES
    attached,  \* the tool runs
    since,     \* stamp of the last message less _last_stamp, None when that is None
    encAngle,  \* _enc_angle
    imuAngle,  \* _imu_angle
    samples,   \* _rotating_samples
    turn,      \* history: wheels and body of the frame the status comes from
    turned     \* history: those of the samples taken

toolVars  == <<attached, since, encAngle, imuAngle, samples, turn, turned>>
calibVars == <<vars, toolVars>>

Zero == [n |-> 0, d |-> 1]

\* Sum of two fractions.
Sum(a, b) ==
    IF a.d = b.d THEN [n |-> a.n + b.n, d |-> a.d]
                 ELSE [n |-> a.n * b.d + b.n * a.d, d |-> a.d * b.d]

\* Mutant: the encoder's angle also counts what the gate keeps out.
EncGainUngated(dt, turning) == [n |-> topics.slip.rate.n * dt, d |-> topics.slip.rate.d]

\* What a sample adds to the two angles.
EncGain(dt, turning) ==
    IF turning THEN [n |-> topics.slip.rate.n * dt, d |-> topics.slip.rate.d] ELSE Zero
ImuGain(dt, turning) ==
    IF turning THEN [n |-> topics.slip.imu.n * dt, d |-> topics.slip.imu.d] ELSE Zero

\* A status message before the first telemetry has calib_gyro 0 and no rates.
Ignored ==
    IF topics = None THEN MinCalib > 0
                     ELSE topics.odom.inflated \/ topics.calib < MinCalib
\* _report and summary: the ratio they print, the denominator made positive.
Fraction(n, d) == IF d < 0 THEN [n |-> -n, d |-> -d] ELSE [n |-> n, d |-> d]
Ratio == Fraction(encAngle.n * imuAngle.d, encAngle.d * imuAngle.n)

Turning == topics # None /\ Abs(topics.slip.imu.n) >= MinRate
-----------------------------------------------------------------------------
CalibInit ==
    /\ Init /\ attached \in BOOLEAN
    /\ since = None /\ encAngle = Zero /\ imuAngle = Zero /\ samples = 0
    /\ turn = None /\ turned = {}

\* The bridge's steps while the robot is turned.
BridgeStep ==
    /\ attached
    /\ \/ \E f \in Turns :
            /\ OnTelemetry(f)
            /\ turn' = [wheels |-> f.right - f.left, track |-> track, body |-> f.gyro - GyroBias]
       \/ \E mm \in Tracks : OnBootInfo(mm) /\ UNCHANGED turn
    /\ UNCHANGED <<attached, since, encAngle, imuAngle, samples, turned>>

\* _on_status returns before it looks at the stamp.
IgnoreStatus(gap) ==
    /\ attached /\ Ignored
    /\ since' = IF since = None THEN None ELSE Smaller(since + gap, MaxGap + 1)
    /\ UNCHANGED <<vars, attached, encAngle, imuAngle, samples, turn, turned>>

FirstStatus ==
    /\ attached /\ ~Ignored /\ since = None
    /\ since' = 0
    /\ UNCHANGED <<vars, attached, encAngle, imuAngle, samples, turn, turned>>

\* A gap that is no time or too much: the stamp is kept, nothing is integrated.
SkipStatus(gap) ==
    /\ attached /\ ~Ignored /\ since # None
    /\ since + gap \notin 1 .. MaxGap
    /\ since' = 0
    /\ UNCHANGED <<vars, attached, encAngle, imuAngle, samples, turn, turned>>

OnStatus(gap) ==
    /\ attached /\ ~Ignored /\ since # None
    /\ since + gap \in 1 .. MaxGap
    /\ samples < MaxSamples
    /\ since' = 0
    /\ encAngle' = Sum(encAngle, EncGain(since + gap, Turning))
    /\ imuAngle' = Sum(imuAngle, ImuGain(since + gap, Turning))
    /\ samples' = IF Turning THEN samples + 1 ELSE samples
    /\ turned' = IF Turning THEN turned \union {turn} ELSE turned
    /\ UNCHANGED <<vars, attached, turn>>

CalibNext ==
    \/ ~attached /\ Next /\ UNCHANGED toolVars
    \/ BridgeStep
    \/ FirstStatus
    \/ \E gap \in Gaps : IgnoreStatus(gap) \/ SkipStatus(gap) \/ OnStatus(gap)

CalibSpec == CalibInit /\ [][CalibNext]_calibVars
-----------------------------------------------------------------------------
(***************************************************************************)
(* Properties.                                                             *)
(***************************************************************************)
AtMost(a, b)   == a.n * b.d <= b.n * a.d

\* How much more the wheels of a turn say than the body turns.
Scrub(t) == Fraction(t.wheels * RateUnit, t.track * t.body)

\* The printed ratio, times the skid_factor that drive_bridge already applied.
Measured == [n |-> Ratio.n * SkidNum, d |-> Ratio.d * SkidDen]

\* What the printed ratio measures, whatever messages are ignored, late or repeated and
\* whatever was driven straight between.  Of a robot turned in one direction the ratio,
\* times the factor in force, lies within the scrubs of the turns sampled; of one that
\* scrubs alike in every turn it is that scrub, in whatever directions the robot turned,
\* unless the turns cancel.  The documentation promises more: to turn both ways and to
\* put the bare ratio in as the factor (scout2map_bridge/README.md:519, 526-527 and
\* skid_calib.py:57, 161-162).  The bare ratio is the factor only while 1.0 is in force,
\* and turned both ways by a robot that scrubs unevenly, as the one measured in
\* drive_bridge.yaml:110-114 does, it can lie outside both scrubs: the signed angles
\* cancel.  One run a direction, as that file reports, is the use that this vouches for.
FactorIsMeasured ==
    /\ samples > 0 /\ (\A t, u \in turned : t.body * u.body > 0) =>
         /\ imuAngle.n # 0
         /\ \E t, u \in turned : AtMost(Scrub(t), Measured) /\ AtMost(Measured, Scrub(u))
    /\ imuAngle.n # 0 /\ (\A t, u \in turned : SameRate(Scrub(t), Scrub(u))) =>
         \A t \in turned : SameRate(Scrub(t), Measured)
-----------------------------------------------------------------------------
(***************************************************************************)
(* What an induction over the tool's steps needs.                          *)
(***************************************************************************)
Turn == [wheels : Int, track : Int, body : Int]
AngleInv ==
    /\ encAngle \in [n : Int, d : Nat \ {0}] /\ imuAngle \in [n : Int, d : Nat \ {0}]
    /\ samples \in Nat /\ since \in Nat \union {None}

\* The rates in the status are those of the turn.
TurnInv ==
    /\ track \in Int
    /\ attached /\ Published /\ topics.slip.imu.n # 0 =>
         /\ turn \in Turn /\ turn.track * SkidNum > 0
         /\ topics.slip.rate = [n |-> turn.wheels * SkidDen, d |-> turn.track * SkidNum]
         /\ topics.slip.imu = [n |-> turn.body, d |-> RateUnit]

\* The turns sampled had a track and a rate; without one the angles are 0.
SampleInv ==
    /\ \A t \in turned : t \in Turn /\ t.track * SkidNum > 0 /\ t.body # 0
    /\ samples > 0 <=> turned # {}
    /\ turned = {} => encAngle.n = 0 /\ imuAngle.n = 0

\* The scrub of t as a fraction, times the factor in force; by how much the ratio of
\* the angles exceeds it, up to a positive factor.
Wheels(t) == t.wheels * RateUnit * SkidDen
Body(t)   == t.track * SkidNum * t.body
Excess(t) == encAngle.n * imuAngle.d * Body(t) - Wheels(t) * (encAngle.d * imuAngle.n)

\* In one direction the ratio of the angles stays between the scrubs of two turns.
OneWayInv ==
    turned # {} /\ (\A t, u \in turned : t.body * u.body > 0) =>
        /\ \A t \in turned : imuAngle.n * t.body > 0
        /\ \E t, u \in turned : Excess(t) >= 0 /\ Excess(u) <= 0

\* While every turn scrubs alike it is that scrub, in whatever directions they went.
AlikeInv ==
    (\A t, u \in turned : Wheels(t) * Body(u) = Wheels(u) * Body(t)) =>
        \A t \in turned : Excess(t) = 0

RatioInv == OneWayInv /\ AlikeInv
=============================================================================
