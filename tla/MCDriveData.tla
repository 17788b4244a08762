----------------------------- MODULE MCDriveData ------------------------------
(***************************************************************************)
(* DriveData and SkidCalib on small instances: each slice of frames varies *)
(* one group of fields, the others as in Plain.                            *)
(***************************************************************************)
EXTENDS SkidCalib

Plain == [left |-> 0, right |-> 0, gyro |-> 0, heading |-> <<0, 1>>,
          quat |-> <<1, 0, 0, 0>>, battery |-> 0, status |-> {"imu_ok"},
          calib |-> 3]

\* Attitudes with roll and pitch, whether the IMU is up and calibrated.
ImuFrames ==
    { [Plain EXCEPT !.quat = <<w, x, y, z>>, !.status = s] :
        w \in {1, 2}, x \in {-1, 0}, y \in {0, 1}, z \in {-1, 1},
        s \in {{}, {"imu_ok"}, {"imu_ok", "imu_calibrated"}} }

\* Wheel speeds and rates of turn that agree, disagree and oppose each other.
SlipFrames ==
    { [Plain EXCEPT !.left = l, !.right = r, !.gyro = g, !.status = s] :
        l \in {-3, 0}, r \in {0, 3}, g \in {-4, 1, 5},
        s \in {{"imu_ok", "imu_calibrated"}, {"imu_ok", "imu_calibrated", "openloop"}} }

BatteryFrames == { [Plain EXCEPT !.battery = mv] : mv \in {5, 9, 14} }

\* What the firmware may report: each battery level with the lower ones or alone.
FlagFrames ==
    { [Plain EXCEPT !.status = a \union b] :
        a \in SUBSET {"estop", "stall"},
        b \in SUBSET {"warn", "critical", "dead"} }

\* In the order of no voltage; 3 and 6 volts a cell are its ends.
MCCurve == << <<4, 20>>, <<6, 100>>, <<3, 0>>, <<5, 70>> >>
MCOffset == <<1, 2>>

\* A robot turned for calibration: left and right, with more scrub one way than
\* the other, driven straight, without encoders, and with a gyro at rest.
MCTurns ==
    { [Plain EXCEPT !.left = -t[1], !.right = t[1], !.gyro = t[2], !.status = s, !.calib = c] :
        t \in {<<2, 4>>, <<3, 4>>, <<2, 1>>, <<-3, -2>>},
        s \in {{"imu_ok"}, {"imu_ok", "openloop"}}, c \in {1, 3} }

MCFrames ==
    ImuFrames \union SlipFrames \union BatteryFrames \union FlagFrames \union MCTurns

\* An infinity is a value beyond every limit.
MCTwists == {[nan |-> TRUE, v |-> 0]} \union { Float(v) : v \in {-1000, 3, 1000} }
=============================================================================
