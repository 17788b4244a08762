------------------------------ MODULE DriveData -------------------------------
(***************************************************************************)
(* The numbers of drive_bridge: what it publishes of a telemetry frame,    *)
(* the battery filter, the track width, the flags it announces, and the    *)
(* velocity it puts into a frame.                                          *)
(*                                                                         *)
(* Integers stand for floats and are exact: a rate, a ratio or a charge is *)
(* a fraction [n, d], a yaw angle a direction <<s, c>> up to a positive    *)
(* factor.  The executor runs the callbacks; PortOpens is the reader's.    *)
(***************************************************************************)
EXTENDS Integers, Sequences, FiniteSets

CONSTANTS
    Frames,        \* the telemetry payloads of the right length
    Tracks,        \* track_mm in a BOOT_INFO; 0 when the firmware has none
    Twists,        \* cmd_vel values, as floats
    DefaultTrack,  \* default_track_width_m
    SkidNum, SkidDen,  \* skid_factor
    GyroBias, RateUnit, \* gyro_bias_radps; gyro units in one rad/s
    SlipFloor, SlipMinSpeed,
    Curve,         \* battery_curve: <<cell voltage, charge>>, in file order
    Cells,         \* battery_cells
    UseImu, YawOnly,   \* use_imu_orientation, imu_orientation_yaw_only
    Offset,        \* imu_yaw_offset_rad: <<w, z>> of its quaternion
    MaxSpeed,      \* max_linear_mps, in half units of the wire
    Int16Max,      \* the wire's largest value
    None           \* Python's None

\* A telemetry payload, of which the model keeps what the topics depend on.
Telemetry == [left : Int, right : Int, gyro : Int, heading : Int \X Int,
              quat : Int \X Int \X Int \X Int, battery : Nat,
              status : SUBSET {"imu_ok", "imu_calibrated", "openloop", "estop", "stall",
                               "warn", "critical", "dead"},
              calib : 0 .. 3]

ASSUME InputsAssumption ==
    /\ Frames \subseteq Telemetry /\ Tracks \subseteq Nat
    /\ Twists \subseteq [nan : BOOLEAN, v : Int]
    /\ None \notin Int /\ None \notin Nat \X Nat
ASSUME GeometryAssumption ==
    /\ DefaultTrack \in Int /\ SkidNum \in Int /\ SkidDen \in Nat \ {0}
    /\ GyroBias \in Int /\ Offset \in Int \X Int
    /\ SlipFloor \in Nat \ {0} /\ RateUnit \in Nat \ {0}
    /\ Cells \in Nat \ {0} /\ MaxSpeed \in Nat /\ Int16Max \in Nat
\* A discharge curve: no voltage twice, more charge at a higher voltage.
ASSUME CurveAssumption ==
    /\ Curve \in Seq(Int \X Int) /\ Len(Curve) >= 2
    /\ \A i, j \in DOMAIN Curve :
         i # j => \/ Curve[i][1] < Curve[j][1] /\ Curve[i][2] <= Curve[j][2]
                  \/ Curve[i][1] > Curve[j][1] /\ Curve[i][2] >= Curve[j][2]

VARIABLES
    track,     \* _track_width
    filtered,  \* _batt_filtered_v, None before the first reading
    flags,     \* _last_status_flags
    topics,    \* what the last frame made the node publish, None before it
    cached,    \* _cmd_linear
    warned,    \* _version_warned
    pc,        \* where _drain_rx is: idle, warn (line 364), log (line 365)
    \* history
    readings,  \* the lowest and the highest battery reading so far
    heard,     \* what the lines of the log said is set and did not say is cleared
    wrong,     \* a frame of another length was handled since the open
    toldWrong  \* and since the open an error was logged

numbers == <<track, filtered, flags, topics, readings, heard>>
version == <<warned, pc, wrong, toldWrong>>
vars == <<numbers, cached, version>>

Abs(x) == IF x < 0 THEN -x ELSE x
Larger(a, b) == IF a > b THEN a ELSE b
Smaller(a, b) == IF a < b THEN a ELSE b
Between(a, b) == Smaller(a, b) .. Larger(a, b)

(***************************************************************************)
(* _publish_odom's yaw rate, and _compute_slip.                            *)
(***************************************************************************)
\* Mutant: the geometric track width.
OdomRateNoSkid(f) ==
    IF track > 0 THEN [n |-> f.right - f.left, d |-> track] ELSE [n |-> 0, d |-> 1]

OdomRate(f) ==
    IF track * SkidNum > 0
    THEN [n |-> (f.right - f.left) * SkidDen, d |-> track * SkidNum]
    ELSE [n |-> 0, d |-> 1]

\* The two rates over one denominator, and the larger of them and the floor.
\* Mutants: only the IMU's rate is the measure; no floor.
ScaleImuOnly(enc, imu, floor) == Larger(Abs(imu), floor)
ScaleNoFloor(enc, imu, floor) == Larger(Abs(enc), Abs(imu))
Scale(enc, imu, floor) == Larger(Larger(Abs(enc), Abs(imu)), floor)

NoSlip == [rate |-> [n |-> 0, d |-> 1], imu |-> [n |-> 0, d |-> 1], ratio |-> [n |-> 0, d |-> 1],
           opposed |-> FALSE, valid |-> FALSE]

Slip(f) ==
    LET d   == track * SkidNum
        enc == (f.right - f.left) * SkidDen * RateUnit
        imu == (f.gyro - GyroBias) * d
    IN  IF d <= 0 THEN NoSlip
        ELSE [rate    |-> [n |-> (f.right - f.left) * SkidDen, d |-> d],
              imu     |-> [n |-> f.gyro - GyroBias, d |-> RateUnit],
              ratio   |-> [n |-> Abs(enc - imu), d |-> Scale(enc, imu, SlipFloor * d)],
              opposed |-> enc * imu < 0,
              valid   |-> /\ {"imu_ok", "imu_calibrated"} \subseteq f.status
                          /\ "openloop" \notin f.status
                          /\ Larger(Abs(f.left), Abs(f.right)) >= SlipMinSpeed]

(***************************************************************************)
(* _resolve_orientation and _publish_imu.  A quaternion is <<w, x, y, z>>. *)
(***************************************************************************)
\* Mutant: the two quaternions multiplied the other way round.
OffsetFirst(q) == <<Offset[1]*q[1] - Offset[2]*q[4],
                    Offset[1]*q[2] + Offset[2]*q[3],
                    Offset[1]*q[3] - Offset[2]*q[2],
                    Offset[1]*q[4] + Offset[2]*q[1]>>
\* _apply_yaw_offset.
WithOffset(q) == <<Offset[1]*q[1] - Offset[2]*q[4],
                   Offset[1]*q[2] - Offset[2]*q[3],
                   Offset[1]*q[3] + Offset[2]*q[2],
                   Offset[1]*q[4] + Offset[2]*q[1]>>

\* _quat_to_yaw: the direction of the two arguments of atan2; 1 - 2(yy + zz) of
\* the unit quaternion that the four numbers stand for.
Yaw(q) == <<2 * (q[1]*q[4] + q[2]*q[3]),
            q[1]*q[1] + q[2]*q[2] - q[3]*q[3] - q[4]*q[4]>>

\* The direction of the sum of two angles.
Plus(a, b) == <<a[1]*b[2] + a[2]*b[1], a[2]*b[2] - a[1]*b[1]>>

Orientation(f) ==
    IF UseImu /\ "imu_ok" \in f.status
    THEN [source  |-> "imu",
          yaw     |-> IF YawOnly THEN Plus(Yaw(f.quat), Yaw(<<Offset[1], 0, 0, Offset[2]>>))
                                 ELSE Yaw(WithOffset(f.quat)),
          trusted |-> "imu_calibrated" \in f.status]
    ELSE [source |-> "encoder", yaw |-> f.heading, trusted |-> TRUE]

Odom(f) == [pose |-> Orientation(f), rate |-> OdomRate(f),
            inflated |-> "openloop" \in f.status]

Imu(f) ==
    IF "imu_ok" \in f.status
    THEN [present |-> TRUE, quat |-> WithOffset(f.quat),
          trusted |-> "imu_calibrated" \in f.status]
    ELSE [present |-> FALSE, quat |-> None, trusted |-> FALSE]

(***************************************************************************)
(* _publish_battery and _estimate_soc.  The exponential average is some    *)
(* voltage between the old one and the reading, by the time that passed.   *)
(***************************************************************************)
Filtered(mv) == IF filtered = None THEN {mv} ELSE Between(filtered, mv)

\* Mutant: the curve as the parameter file lists it.
FileCurve == Curve
\* By falling voltage: place i is that of the point i - 1 others lie above.
Above(k) == {j \in DOMAIN Curve : Curve[j][1] > Curve[k][1]}
SortedCurve ==
    [i \in DOMAIN Curve |-> Curve[CHOOSE k \in DOMAIN Curve : Cardinality(Above(k)) = i - 1]]

\* The first piece of the curve that the voltage lies on.
Within(v, k) == SortedCurve[k + 1][1] * Cells <= v /\ v <= SortedCurve[k][1] * Cells
Piece(v) ==
    CHOOSE k \in 1 .. Len(Curve) - 1 :
        Within(v, k) /\ \A j \in 1 .. k - 1 : ~Within(v, j)

\* The straight line from the point lo to the point hi.
Interpolate(v, hi, lo) ==
    [n |-> lo[2] * (hi[1] - lo[1]) * Cells + (v - lo[1] * Cells) * (hi[2] - lo[2]),
     d |-> (hi[1] - lo[1]) * Cells]

Charge(v) ==
    LET first == SortedCurve[1]
        last  == SortedCurve[Len(Curve)]
    IN  CASE v >= first[1] * Cells -> [n |-> first[2], d |-> 1]
          [] v <= last[1] * Cells  -> [n |-> last[2], d |-> 1]
          [] OTHER -> Interpolate(v, SortedCurve[Piece(v)], SortedCurve[Piece(v) + 1])

\* A frame of 0 mV is no reading, and leaves the filter alone.
Battery(f, v) == IF f.battery = 0 THEN None ELSE Charge(v)

(***************************************************************************)
(* _warn_on_status_change: the lines it logs.                              *)
(***************************************************************************)
Announced == {"estop", "openloop"}   \* set and cleared are both logged

\* Mutant: the lowest level first.
BatteryLineWarnFirst(rose) ==
    IF "warn" \in rose THEN {"warn"}
    ELSE IF "critical" \in rose THEN {"critical"} ELSE rose \cap {"dead"}

BatteryLine(rose) ==
    IF "dead" \in rose THEN {"dead"}
    ELSE IF "critical" \in rose THEN {"critical"} ELSE rose \cap {"warn"}

RisesLogged(status) ==
    LET rose == status \ flags
    IN  (rose \cap (Announced \union {"stall"})) \union BatteryLine(rose)
FallsLogged(status) == (flags \ status) \cap Announced

\* The highest battery level in a set of flags or lines.
Level(s) == IF "dead" \in s THEN 3 ELSE IF "critical" \in s THEN 2
            ELSE IF "warn" \in s THEN 1 ELSE 0

(***************************************************************************)
(* _on_cmd_vel and encode_velocity.  A float is [nan, v], v in half units  *)
(* of the wire; min and max return their first argument unless the second  *)
(* compares as smaller, larger: nothing compares so with NaN.              *)
(***************************************************************************)
Float(v) == [nan |-> FALSE, v |-> v]
Less(a, b) == ~a.nan /\ ~b.nan /\ a.v < b.v
PyMin(a, b) == IF Less(b, a) THEN b ELSE a
PyMax(a, b) == IF Less(a, b) THEN b ELSE a

\* Mutant: the arguments the other way round.
ClampValueFirst(x) == PyMax(PyMin(x, Float(MaxSpeed)), Float(-MaxSpeed))
Clamp(x) == PyMax(Float(-MaxSpeed), PyMin(Float(MaxSpeed), x))

\* round(): to the nearest, a half to the even one.
Round(h) == LET q == h \div 2 IN IF h % 2 = 0 \/ q % 2 = 0 THEN q ELSE q + 1

\* The velocity on the wire; round() raises on a NaN.
OnWire(x) == IF x.nan THEN None ELSE Larger(-Int16Max - 1, Smaller(Int16Max, Round(x.v)))
-----------------------------------------------------------------------------
Init ==
    /\ track = DefaultTrack /\ filtered = None /\ flags = {} /\ topics = None
    /\ cached = Float(0)
    /\ warned = FALSE /\ pc = "idle"
    /\ readings = None /\ heard = {}
    /\ wrong = FALSE /\ toldWrong = FALSE

OnTelemetry(f) ==
    /\ pc = "idle"
    /\ \E v \in IF f.battery = 0 THEN {filtered} ELSE Filtered(f.battery) :
         /\ filtered' = v
         /\ topics' = [odom |-> Odom(f), imu |-> Imu(f), charge |-> Battery(f, v),
                      slip |-> Slip(f), calib |-> f.calib]
    /\ flags' = f.status
    /\ heard' = (heard \ FallsLogged(f.status)) \union (RisesLogged(f.status) \cap Announced)
    /\ readings' = IF f.battery = 0 THEN readings
                   ELSE IF readings = None THEN <<f.battery, f.battery>>
                   ELSE <<Smaller(readings[1], f.battery), Larger(readings[2], f.battery)>>
    /\ UNCHANGED <<track, cached, version>>

OnBootInfo(mm) ==
    /\ pc = "idle"
    /\ track' = IF mm > 0 THEN mm ELSE track
    /\ UNCHANGED <<filtered, flags, topics, readings, heard, cached, version>>

\* A frame of any kind whose length differs: unpack() raises before anything
\* is changed, and _drain_rx catches it.
WrongLength ==
    /\ pc = "idle"
    /\ wrong' = TRUE
    /\ pc' = IF warned THEN "idle" ELSE "warn"
    /\ UNCHANGED <<numbers, cached, warned, toldWrong>>

SetWarned ==
    /\ pc = "warn"
    /\ warned' = TRUE /\ pc' = "log"
    /\ UNCHANGED <<numbers, cached, wrong, toldWrong>>

LogError ==
    /\ pc = "log"
    /\ toldWrong' = TRUE /\ pc' = "idle"
    /\ UNCHANGED <<numbers, cached, warned, wrong>>

\* Mutant: the warning is not armed again.
PortOpensQuietly ==
    /\ wrong' = FALSE /\ toldWrong' = FALSE
    /\ UNCHANGED <<numbers, cached, warned, pc>>

\* On the reader thread, between any two steps of the executor.
PortOpens ==
    /\ warned' = FALSE
    /\ wrong' = FALSE /\ toldWrong' = FALSE
    /\ UNCHANGED <<numbers, cached, pc>>

OnCmdVel(x) ==
    /\ pc = "idle"
    /\ cached' = Clamp(x)
    /\ UNCHANGED <<numbers, version>>

Next ==
    \/ \E f \in Frames : OnTelemetry(f)
    \/ \E mm \in Tracks : OnBootInfo(mm)
    \/ \E x \in Twists : OnCmdVel(x)
    \/ WrongLength \/ SetWarned \/ LogError \/ PortOpens

Spec == Init /\ [][Next]_vars
-----------------------------------------------------------------------------
(***************************************************************************)
(* Properties.                                                             *)
(***************************************************************************)
Published == topics # None
SameRate(a, b) == a.n * b.d = b.n * a.d
SameDirection(a, b) == a[1]*b[2] = a[2]*b[1] /\ a[1]*b[1] + a[2]*b[2] > 0

\* Every variable has its type, and nothing was divided by zero: standing still,
\* the slip ratio's scale is the floor, without a track its rate is none.
TypeOK ==
    /\ track \in Tracks \union {DefaultTrack}
    /\ filtered = None <=> readings = None
    /\ pc \in {"idle", "warn", "log"}
    /\ warned \in BOOLEAN /\ wrong \in BOOLEAN /\ toldWrong \in BOOLEAN
    /\ Published => /\ topics.slip.ratio.d > 0 /\ topics.slip.rate.d > 0 /\ topics.odom.rate.d > 0
                    /\ topics.charge # None => topics.charge.d > 0

\* drive/odom and drive/status tell one yaw rate, whatever BOOT_INFO said of the
\* track before the frame: _publish_odom and _compute_slip compute it apart.
OneTurnRate == Published => SameRate(topics.odom.rate, topics.slip.rate)

\* An orientation that odom and TF take from the IMU points where drive/imu's
\* quaternion points, roll and pitch or not, and both are trusted alike: adding
\* the offset to the yaw is "exactly equivalent to rotating the quaternion first".
HeadingsAgree ==
    Published /\ topics.odom.pose.source = "imu" /\ Yaw(topics.imu.quat) # <<0, 0>> =>
        /\ SameDirection(topics.odom.pose.yaw, Yaw(topics.imu.quat))
        /\ topics.odom.pose.trusted = topics.imu.trusted

\* The slip ratio is at most 1 while both rates turn the same way, at most 2
\* otherwise, and called valid only when the other topics vouch for its inputs.
SlipIsNormalised ==
    Published /\ topics.slip.valid =>
        LET r == topics.slip.ratio
        IN  /\ r.n <= (IF topics.slip.opposed THEN 2 ELSE 1) * r.d
            /\ topics.imu.present /\ topics.imu.trusted /\ ~topics.odom.inflated

\* The charge never leaves the band of the curve that the readings so far span,
\* in whatever order the parameters list the curve and the readings come.
ChargeWithinReadings ==
    Published /\ topics.charge # None =>
        \A k \in DOMAIN Curve :
            LET v == Curve[k][1] * Cells
                s == Curve[k][2] * topics.charge.d
            IN  /\ readings[2] <= v => topics.charge.n <= s
                /\ readings[1] >= v => topics.charge.n >= s

\* Who only reads the log knows whether the e-stop is latched and the encoders are
\* lost, and hears of every stall and of every worsening of the battery as it begins:
\* lines are logged on transitions, and several of one frame compete.  (That a stall is
\* over, or the battery better, no line tells: _warn_on_status_change.)
LogTellsTheState ==
    [][ /\ heard' = flags' \cap Announced
        /\ "stall" \in flags' \ flags => "stall" \in RisesLogged(flags')
        /\ Level(flags') > Level(flags) => Level(RisesLogged(flags')) = Level(flags') ]_vars

\* A firmware with other frames is reported in every session of the port, also
\* when the port reopens between the test, the set and the log of the warning.
MismatchIsReported == pc = "idle" /\ wrong => toldWrong

\* Every cmd_vel, also a NaN or an infinity, leaves a velocity that can be
\* encoded: round() raises on a NaN, in the timer that feeds the MCU.
EveryTwistIsSendable ==
    /\ OnWire(cached) # None
    /\ Abs(OnWire(cached)) <= Round(MaxSpeed)
-----------------------------------------------------------------------------
(***************************************************************************)
(* What an induction over the steps needs.                                 *)
(***************************************************************************)
\* The filter never leaves the readings it averages.
FilterInv ==
    /\ filtered \in Nat \union {None} /\ readings \in (Nat \X Nat) \union {None}
    /\ filtered = None <=> readings = None
    /\ filtered # None => readings[1] <= filtered /\ filtered <= readings[2]

\* Between frames a warning that is disarmed was logged in this session.
WarningInv == pc = "idle" /\ (wrong \/ warned) => toldWrong

\* Of the flags that are announced both ways, the log's last lines tell the state.
HeardInv == heard = flags \cap Announced

\* What waits to be sent is a number within the limits.
SpeedInv == ~cached.nan /\ cached.v \in -MaxSpeed .. MaxSpeed
=============================================================================
