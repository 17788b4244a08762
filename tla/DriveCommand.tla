---------------------------- MODULE DriveCommand ----------------------------
(***************************************************************************)
(* The command path of drive_bridge: from cmd_vel, the services and the    *)
(* task launchers to the velocity frames the MCU obeys.                    *)
(*                                                                         *)
(* Time is discrete.  The node has one executor thread, so a callback that *)
(* blocks (a serial write, the wait of a task's stop) delays every other   *)
(* one; all other callbacks take no time, and an idle executor runs what   *)
(* is ready before time passes.  A velocity is abstracted to whether it    *)
(* moves the robot, which the clamp of _on_cmd_vel preserves.  The MCU is  *)
(* external: what it does is PROTOCOL.md's watchdog and e-stop latch, on   *)
(* which the node's constants and comments depend.                         *)
(***************************************************************************)
EXTENDS Naturals, Sequences

CONSTANTS
    Tasks,       \* the launchable tasks: explore and return_home
    CmdPeriod,   \* period of the command timer, 1 / command_rate_hz
    CmdTimeout,  \* command_timeout_s
    WriteTime,   \* write_timeout of the serial port, for one write
    StopTime,    \* how long stopping a task waits before it kills it
    McuTimeout,  \* the MCU's command watchdog
    QueueDepth   \* depth of the cmd_vel subscription

ASSUME TimesAssumption ==
    /\ CmdPeriod \in Nat \ {0} /\ CmdTimeout \in Nat /\ WriteTime \in Nat
    /\ StopTime \in Nat /\ McuTimeout \in Nat \ {0}
ASSUME PeriodAssumption == CmdPeriod <= McuTimeout
ASSUME QueueAssumption == QueueDepth \in Nat \ {0}

VARIABLES
    \* the node
    exec,       \* what the executor does
    frame,      \* the frame being written
    left,       \* how much longer the blocking call may take
    stopping,   \* the task being stopped
    due,        \* the command timer is ready
    phase,      \* time since the timer last became ready
    cmdGo,      \* _cmd_linear, _cmd_angular: is the cached command a motion?
    age,        \* now - _cmd_stamp
    proc,       \* proc[t]: _proc_explore, _proc_return
    \* its surroundings
    queue,      \* cmd_vel messages not yet taken: TRUE moves the robot
    pend,       \* service requests not yet taken
    up,         \* the serial link accepts writes
    \* the MCU
    moving, latched,
    mcuAge,     \* time since the last velocity frame arrived
    \* history
    missed,     \* the last velocity frame of the node did not arrive
    sinceGo,    \* time since a cmd_vel that moves the robot was handled
    held,       \* an e-stop was handled, and no cmd_vel since
    sinceEstop  \* time since then, while held

execVars == <<exec, frame, left, stopping>>
timerVars == <<due, phase>>
cmdVars  == <<cmdGo, age>>
inVars   == <<queue, pend>>
mcuVars  == <<moving, latched, mcuAge>>
history  == <<sinceGo, held, sinceEstop>>
vars == <<execVars, timerVars, cmdVars, proc, inVars, up, mcuVars, missed, history>>

Velocity == {"go", "zero"}
Frames   == Velocity \union {"estop", "clear", "query"}
Busy     == {"writing", "closing", "stopping"}

\* write() waits for _write_lock, which the PING of the reader thread
\* (_on_port_open) may hold for a write of its own, then it writes.
LockTime     == WriteTime
SendTime     == LockTime + WriteTime

\* An age beyond its bound is kept as the bound plus one.
Stale        == CmdTimeout + 1
Expired      == McuTimeout + 1
MotionLimit  == CmdTimeout + SendTime + McuTimeout
Older(a, cap) == IF a < cap THEN a + 1 ELSE cap

FlagsOK ==
    /\ due \in BOOLEAN /\ cmdGo \in BOOLEAN /\ up \in BOOLEAN
    /\ moving \in BOOLEAN /\ latched \in BOOLEAN
    /\ missed \in BOOLEAN /\ held \in BOOLEAN

ValuesOK ==
    /\ exec \in {"idle", "down"} \union Busy
    /\ frame \in Frames
    /\ stopping \in Tasks
    /\ proc \in [Tasks -> {"none", "running", "exited"}]
    /\ pend \subseteq {"estop", "clear"}
    /\ queue \in Seq(BOOLEAN) /\ Len(queue) <= QueueDepth

TimesOK ==
    /\ left \in 0 .. (SendTime + StopTime)
    /\ phase \in 0 .. (CmdPeriod - 1)
    /\ age \in 0 .. Stale
    /\ mcuAge \in 0 .. Expired
    /\ sinceGo \in 0 .. (MotionLimit + 1)
    /\ sinceEstop \in 0 .. Expired

TypeOK == FlagsOK /\ ValuesOK /\ TimesOK

(***************************************************************************)
(* __init__: nothing commanded, a stamp of 0.0, timers just created.       *)
(***************************************************************************)
Init ==
    /\ exec = "idle" /\ frame = "zero" /\ left = 0 /\ stopping \in Tasks
    /\ due = FALSE /\ phase = 0
    /\ cmdGo = FALSE /\ age = Stale
    /\ proc = [t \in Tasks |-> "none"]
    /\ queue = <<>> /\ pend = {} /\ up = FALSE
    /\ moving = FALSE /\ latched \in BOOLEAN /\ mcuAge = Expired
    /\ missed = TRUE /\ sinceGo = MotionLimit + 1
    /\ held = FALSE /\ sinceEstop = Expired

(***************************************************************************)
(* SerialLink.write() as the node sees it: refused at once when the link   *)
(* is down, otherwise it blocks for at most SendTime.                      *)
(***************************************************************************)
Send(f) ==
    IF up
    THEN /\ exec' = "writing" /\ frame' = f /\ left' = SendTime
         /\ UNCHANGED <<stopping, missed>>
    ELSE /\ missed' = (missed \/ f \in Velocity)
         /\ UNCHANGED execVars

\* The process ends, and with it all it kept.
NodeGone ==
    /\ exec' = "down" /\ frame' = "zero" /\ left' = 0
    /\ due' = FALSE /\ phase' = 0
    /\ cmdGo' = FALSE /\ age' = Stale
    /\ proc' = [t \in Tasks |-> "none"]
    /\ queue' = <<>> /\ pend' = {} /\ up' = FALSE
    /\ UNCHANGED stopping

\* The write is over, well or badly, and the link as it leaves it.
WriteEnds(linkUp) ==
    \/ /\ exec = "writing"
       /\ exec' = "idle" /\ frame' = "zero" /\ left' = 0
       /\ up' = linkUp
       /\ UNCHANGED <<stopping, timerVars, cmdVars, proc, inVars>>
    \/ exec = "closing" /\ NodeGone

\* The MCU acts on the frame.  An e-stop latches; only CLEAR_FAULT releases.
Delivered ==
    /\ up /\ WriteEnds(up)
    /\ moving' = CASE frame = "go" -> ~latched
                   [] frame \in {"zero", "estop"} -> FALSE
                   [] OTHER -> moving
    /\ latched' = ((latched \/ frame = "estop") /\ frame # "clear")
    /\ mcuAge' = IF frame \in Velocity THEN 0 ELSE mcuAge
    /\ missed' = (missed /\ frame \notin Velocity)
    /\ UNCHANGED history

\* write() returned True, but the frame is never decoded.  Nothing is acked.
Lost ==
    /\ WriteEnds(up)
    /\ missed' = (missed \/ frame \in Velocity)
    /\ UNCHANGED <<mcuVars, history>>

\* The write times out or fails; write() closes the link.
WriteFails ==
    /\ WriteEnds(FALSE)
    /\ missed' = (missed \/ frame \in Velocity)
    /\ UNCHANGED <<mcuVars, history>>

(***************************************************************************)
(* The callbacks of the executor.                                          *)
(***************************************************************************)
Idle  == exec = "idle"
Ready == due \/ queue # <<>> \/ pend # {}

OnCmdVel ==
    /\ Idle /\ queue # <<>>
    /\ queue' = Tail(queue)
    /\ cmdGo' = Head(queue) /\ age' = 0
    /\ sinceGo' = IF Head(queue) THEN 0 ELSE sinceGo
    /\ held' = FALSE /\ sinceEstop' = Expired
    /\ UNCHANGED <<execVars, timerVars, proc, pend, up, mcuVars, missed>>

\* Mutants: no timeout on the cached command; a zero is only sent once.
TickNeverStale ==
    /\ Idle /\ due
    /\ due' = FALSE
    /\ Send(IF cmdGo THEN "go" ELSE "zero")
    /\ UNCHANGED <<phase, cmdVars, proc, inVars, up, mcuVars, history>>
TickQuietWhenStale ==
    /\ Idle /\ due
    /\ due' = FALSE
    /\ IF age <= CmdTimeout
         THEN Send(IF cmdGo THEN "go" ELSE "zero")
         ELSE UNCHANGED <<execVars, missed>>
    /\ UNCHANGED <<phase, cmdVars, proc, inVars, up, mcuVars, history>>

TickCommand ==
    /\ Idle /\ due
    /\ due' = FALSE
    /\ Send(IF cmdGo /\ age <= CmdTimeout THEN "go" ELSE "zero")
    /\ UNCHANGED <<phase, cmdVars, proc, inVars, up, mcuVars, history>>

\* Mutant: the cached command survives the e-stop.
SrvEstopKeepsCommand ==
    /\ Idle /\ "estop" \in pend
    /\ pend' = pend \ {"estop"}
    /\ held' = TRUE /\ sinceEstop' = 0
    /\ Send("estop")
    /\ UNCHANGED <<timerVars, cmdVars, proc, queue, up, mcuVars, sinceGo>>

SrvEstop ==
    /\ Idle /\ "estop" \in pend
    /\ pend' = pend \ {"estop"}
    /\ cmdGo' = FALSE /\ age' = Stale
    /\ held' = TRUE /\ sinceEstop' = 0
    /\ Send("estop")
    /\ UNCHANGED <<timerVars, proc, queue, up, mcuVars, sinceGo>>

SrvClearFault ==
    /\ Idle /\ "clear" \in pend
    /\ pend' = pend \ {"clear"}
    /\ Send("clear")
    /\ UNCHANGED <<timerVars, cmdVars, proc, queue, up, mcuVars, history>>

\* reset_odom and request_diagnostics write a frame that changes no motion.
SrvQuery ==
    /\ Idle
    /\ Send("query")
    /\ UNCHANGED <<timerVars, cmdVars, proc, inVars, up, mcuVars, history>>

\* A running task is not started again; a task that exited is.
SrvStartTask(t) ==
    /\ Idle /\ proc[t] # "running"
    /\ proc' = [proc EXCEPT ![t] = "running"]
    /\ UNCHANGED <<execVars, timerVars, cmdVars, inVars, up, mcuVars, missed, history>>

\* terminate(), then wait(timeout) on the executor thread...
SrvStopTask(t) ==
    /\ Idle /\ proc[t] = "running"
    /\ exec' = "stopping" /\ stopping' = t /\ left' = StopTime
    /\ UNCHANGED <<frame, timerVars, cmdVars, proc, inVars, up, mcuVars, missed, history>>

\* Mutants: the handle of a killed process is kept in a state start does not
\* know; wait() without a timeout.
TaskStoppedAsKilled ==
    /\ exec = "stopping"
    /\ proc[stopping] = "exited" \/ left = 0
    /\ exec' = "idle" /\ left' = 0
    /\ proc' = [proc EXCEPT ![stopping] = "killed"]
    /\ UNCHANGED <<frame, stopping, timerVars, cmdVars, inVars, up, mcuVars, missed, history>>
TaskStopsOnlyByItself ==
    /\ exec = "stopping"
    /\ proc[stopping] = "exited"
    /\ exec' = "idle" /\ left' = 0
    /\ proc' = [proc EXCEPT ![stopping] = "none"]
    /\ UNCHANGED <<frame, stopping, timerVars, cmdVars, inVars, up, mcuVars, missed, history>>

\* ...until the process is gone, or kill() when the wait expires.
TaskStopped ==
    /\ exec = "stopping"
    /\ proc[stopping] = "exited" \/ left = 0
    /\ exec' = "idle" /\ left' = 0
    /\ proc' = [proc EXCEPT ![stopping] = "none"]
    /\ UNCHANGED <<frame, stopping, timerVars, cmdVars, inVars, up, mcuVars, missed, history>>

(***************************************************************************)
(* destroy_node(): terminate the tasks, one last zero, stop the link.      *)
(***************************************************************************)
DestroyNode ==
    /\ Idle
    /\ \/ /\ up
          /\ exec' = "closing" /\ frame' = "zero" /\ left' = SendTime
          /\ proc' = [t \in Tasks |-> "none"]
          /\ UNCHANGED <<stopping, timerVars, cmdVars, inVars, up>>
       \/ ~up /\ NodeGone
    /\ UNCHANGED <<mcuVars, missed, history>>

\* The process is killed or dies, at any point.
Crash ==
    /\ exec # "down"
    /\ NodeGone
    /\ UNCHANGED <<mcuVars, missed, history>>

\* Launched again: a new node, which holds no handle on tasks of the old one.
Restart ==
    /\ exec = "down"
    /\ exec' = "idle"
    /\ missed' = TRUE
    /\ UNCHANGED <<frame, left, stopping, timerVars, cmdVars, proc, inVars, up, mcuVars, history>>

(***************************************************************************)
(* Surroundings (external).                                                *)
(***************************************************************************)
\* The subscription keeps the newest QueueDepth messages.
Publish(go) ==
    /\ exec # "down"
    /\ queue' = IF Len(queue) < QueueDepth
                THEN Append(queue, go) ELSE Append(Tail(queue), go)
    /\ UNCHANGED <<execVars, timerVars, cmdVars, proc, pend, up, mcuVars, missed, history>>

Request(s) ==
    /\ exec # "down" /\ s \notin pend
    /\ pend' = pend \union {s}
    /\ UNCHANGED <<execVars, timerVars, cmdVars, proc, queue, up, mcuVars, missed, history>>

TaskExits(t) ==
    /\ proc[t] = "running"
    /\ proc' = [proc EXCEPT ![t] = "exited"]
    /\ UNCHANGED <<execVars, timerVars, cmdVars, inVars, up, mcuVars, missed, history>>

LinkChanges ==
    /\ exec # "down"
    /\ up' = ~up
    /\ UNCHANGED <<execVars, timerVars, cmdVars, proc, inVars, mcuVars, missed, history>>

\* The MCU restarts: the latch is lost, the motors stop.
McuReboots ==
    /\ moving' = FALSE /\ latched' = FALSE /\ mcuAge' = Expired
    /\ missed' = TRUE
    /\ UNCHANGED <<execVars, timerVars, cmdVars, proc, inVars, up, history>>

Elapse ==
    /\ Idle => ~Ready
    /\ exec \in Busy => left > 0
    /\ left' = IF exec \in Busy THEN left - 1 ELSE left
    /\ IF exec = "down"
         THEN UNCHANGED timerVars
         ELSE /\ phase' = IF phase + 1 < CmdPeriod THEN phase + 1 ELSE 0
              /\ due' = (due \/ phase + 1 >= CmdPeriod)
    /\ age' = Older(age, Stale)
    /\ mcuAge' = Older(mcuAge, Expired)
    /\ moving' = (moving /\ mcuAge < McuTimeout)
    /\ sinceGo' = Older(sinceGo, MotionLimit + 1)
    /\ sinceEstop' = Older(sinceEstop, Expired)
    /\ UNCHANGED <<exec, frame, stopping, cmdGo, proc, inVars, up, latched, missed, held>>

Callback ==
    \/ OnCmdVel \/ TickCommand \/ SrvEstop \/ SrvClearFault \/ SrvQuery
    \/ \E t \in Tasks : SrvStartTask(t) \/ SrvStopTask(t)
Unblock == Delivered \/ Lost \/ WriteFails \/ TaskStopped
World ==
    \/ \E go \in BOOLEAN : Publish(go)
    \/ \E s \in {"estop", "clear"} : Request(s)
    \/ \E t \in Tasks : TaskExits(t)
    \/ LinkChanges \/ McuReboots

Next == Callback \/ Unblock \/ DestroyNode \/ Crash \/ Restart \/ World \/ Elapse

(***************************************************************************)
(* A blocking call ends by its timeout, time passes while it lasts, and    *)
(* the executor serves an e-stop request that keeps being ready (it takes  *)
(* every ready entity of a wait set before it waits again).                *)
(***************************************************************************)
Fairness == WF_vars(Unblock) /\ WF_vars(Elapse) /\ SF_vars(SrvEstop)
Spec == Init /\ [][Next]_vars /\ Fairness
-----------------------------------------------------------------------------
(***************************************************************************)
(* Properties.                                                             *)
(***************************************************************************)

\* Two watchdogs in a row: whatever is lost, blocked, killed or restarted, the
\* robot moves no longer than CmdTimeout + 2 * WriteTime + McuTimeout after the last
\* cmd_vel that asked for motion was handled: _tick_command's timeout, a frame that
\* waits behind the reader's PING and is then written, and the MCU's timeout.
MotionIsBounded == moving => sinceGo <= MotionLimit

\* After an e-stop request, even one whose frame was lost or refused, the robot
\* stands still within McuTimeout unless a new cmd_vel is handled: _srv_estop
\* zeroes the cache, so nothing repeats the old command.
EstopStops == held /\ moving => sinceEstop <= McuTimeout

\* An executor that is not kept waiting feeds the MCU's watchdog: without a lost
\* frame no more than a period passes between velocity frames, moving or not.
FedWhileIdle == Idle /\ ~due /\ ~missed => mcuAge < CmdPeriod

\* An e-stop request is served in the end, whatever blocks the executor before it.
EstopIsServed == "estop" \in pend ~> ("estop" \notin pend \/ exec = "down")

\* What the robot may do, without the node, the link or the MCU: an e-stop keeps
\* it from starting, a motion starts from a recent command and ends in time.
Safe == INSTANCE SafeMotion WITH
    StartLimit <- CmdTimeout + SendTime, StopLimit <- McuTimeout

\* Through every write, loss, crash and restart the robot moves as SafeMotion
\* allows: _tick_command, _srv_estop and the MCU's two rules implement it.
ImplementsSafeMotion == Safe!Spec

(***************************************************************************)
(* The inductive invariants behind the first three: where a motion may     *)
(* come from (the cache, the frame being written, the MCU) and how old it  *)
(* is at most there.                                                       *)
(***************************************************************************)
MotionInv ==
    /\ cmdGo /\ age <= CmdTimeout => sinceGo <= age
    /\ frame = "go" => exec = "writing" /\ sinceGo + left <= CmdTimeout + SendTime
    /\ moving => mcuAge <= McuTimeout /\ sinceGo <= CmdTimeout + SendTime + mcuAge

EstopInv ==
    held => /\ ~cmdGo /\ frame # "go"
            /\ moving => sinceEstop <= mcuAge /\ mcuAge <= McuTimeout

VelocityInFlight == exec \in {"writing", "closing"} /\ frame \in Velocity
FedInv ==
    exec # "down" /\ ~due /\ ~missed /\ ~VelocityInFlight => mcuAge <= phase
=============================================================================
