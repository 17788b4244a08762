------------------------------ MODULE SafeMotion ------------------------------
(***************************************************************************)
(* What the drive node promises about the robot's motion, without the      *)
(* node, the serial link or the MCU: only the commands and e-stops it      *)
(* handled, how long ago, and whether the robot moves.                     *)
(***************************************************************************)
EXTENDS Naturals

CONSTANTS
    StartLimit,   \* how old a command may be when it sets the robot in motion
    MotionLimit,  \* how long after its command a motion may last
    StopLimit     \* how long a motion may outlast an e-stop

VARIABLES
    moving,
    held,        \* an e-stop was handled, and no command since
    sinceGo,     \* age of the last command that asked for motion
    sinceEstop   \* age of the e-stop, while held

vars == <<moving, held, sinceGo, sinceEstop>>

\* Ages count up to one more than their limit.
NoCommand == MotionLimit + 1
NoEstop   == StopLimit + 1

Init ==
    /\ moving = FALSE /\ held = FALSE
    /\ sinceGo = NoCommand /\ sinceEstop = NoEstop

\* A command lifts the e-stop, but starts nothing by itself.
Command(go) ==
    /\ sinceGo' = IF go THEN 0 ELSE sinceGo
    /\ held' = FALSE /\ sinceEstop' = NoEstop
    /\ UNCHANGED moving

Estop ==
    /\ held' = TRUE /\ sinceEstop' = 0
    /\ UNCHANGED <<moving, sinceGo>>

Start ==
    /\ ~held /\ sinceGo <= StartLimit
    /\ moving' = TRUE
    /\ UNCHANGED <<held, sinceGo, sinceEstop>>

Halt ==
    /\ moving' = FALSE
    /\ UNCHANGED <<held, sinceGo, sinceEstop>>

\* Time passes; a motion goes on only within its limits.
Tick ==
    /\ sinceGo' = IF sinceGo < NoCommand THEN sinceGo + 1 ELSE NoCommand
    /\ sinceEstop' = IF sinceEstop < NoEstop THEN sinceEstop + 1 ELSE NoEstop
    /\ \/ moving' = FALSE
       \/ /\ sinceGo' <= MotionLimit
          /\ held => sinceEstop' <= StopLimit
          /\ UNCHANGED moving
    /\ UNCHANGED held

Next == (\E go \in BOOLEAN : Command(go)) \/ Estop \/ Start \/ Halt \/ Tick

Spec == Init /\ [][Next]_vars
=============================================================================
