------------------------ MODULE DriveCommand_proofs ------------------------
(***************************************************************************)
(* Safety of the command path, for every value of the constants.           *)
(***************************************************************************)
EXTENDS DriveCommand, TLAPS

USE DEF Velocity, Frames, Busy

\* The ages, bounds and times are natural numbers.
LEMMA Bounds ==
    /\ Stale \in Nat /\ Expired \in Nat /\ MotionLimit \in Nat
    /\ SendTime \in Nat /\ StopTime \in Nat
    /\ CmdPeriod \in Nat /\ CmdPeriod > 0
    /\ CmdTimeout \in Nat /\ McuTimeout \in Nat
  BY TimesAssumption DEF TimesAssumption, Stale, Expired, MotionLimit, SendTime, LockTime

\* A saturating age stays in its range, and never decreases.
LEMMA OlderInRange ==
    ASSUME NEW cap \in Nat, NEW a \in 0 .. cap
    PROVE  Older(a, cap) \in 0 .. cap
  BY DEF Older

\* A motion that is within its bound at the MCU is within the whole bound.
LEMMA LimitSum ==
    ASSUME NEW a \in Nat, NEW b \in Nat,
           b <= McuTimeout, a <= CmdTimeout + SendTime + b
    PROVE  a <= MotionLimit
  BY TimesAssumption DEF TimesAssumption, MotionLimit, SendTime, LockTime

\* Taking the oldest message of the cmd_vel subscription.
LEMMA QueueTail ==
    ASSUME NEW q \in Seq(BOOLEAN), q # <<>>
    PROVE  /\ Head(q) \in BOOLEAN
           /\ Tail(q) \in Seq(BOOLEAN)
           /\ Len(Tail(q)) = Len(q) - 1
  OBVIOUS

\* Appending to it keeps the newest QueueDepth messages.
LEMMA QueueAppend ==
    ASSUME NEW q \in Seq(BOOLEAN), Len(q) <= QueueDepth, NEW b \in BOOLEAN,
           NEW r, r = IF Len(q) < QueueDepth THEN Append(q, b) ELSE Append(Tail(q), b)
    PROVE  r \in Seq(BOOLEAN) /\ Len(r) <= QueueDepth
  <1>1. Len(q) \in Nat
    OBVIOUS
  <1>2. CASE Len(q) < QueueDepth
    BY <1>1, <1>2, QueueAssumption DEF QueueAssumption
  <1>3. CASE ~(Len(q) < QueueDepth)
    <2>1. q # <<>>
      BY <1>3, <1>1, QueueAssumption DEF QueueAssumption
    <2>2. Tail(q) \in Seq(BOOLEAN) /\ Len(Tail(q)) = Len(q) - 1
      BY <2>1, QueueTail
    <2>. QED
      BY <1>1, <1>3, <2>2, QueueAssumption DEF QueueAssumption
  <1>. QED
    BY <1>2, <1>3

\* What a process that ends leaves behind.
LEMMA NodeGoneValues ==
    ASSUME ValuesOK, NodeGone
    PROVE  ValuesOK'
  <1>1. Len(queue') <= QueueDepth /\ queue' \in Seq(BOOLEAN)
    BY QueueAssumption DEF NodeGone, QueueAssumption
  <1>. QED
    BY <1>1 DEF NodeGone, ValuesOK

\* What a write that ends leaves behind, also when the process ends with it.
LEMMA WriteEndsValues ==
    ASSUME ValuesOK, NEW b \in BOOLEAN, WriteEnds(b)
    PROVE  ValuesOK'
  <1>1. CASE exec = "closing" /\ NodeGone
    BY <1>1, NodeGoneValues
  <1>2. CASE exec = "writing" /\ exec' = "idle" /\ frame' = "zero"
             /\ UNCHANGED <<stopping, proc, inVars>>
    BY <1>2 DEF ValuesOK, inVars
  <1>. QED
    BY <1>1, <1>2 DEF WriteEnds, timerVars, cmdVars

\* Every step keeps every variable in its range.
THEOREM TypeCorrect == Spec => []TypeOK
  <1>. USE Bounds
  <1>1. Init => TypeOK
    <2>1. Init => FlagsOK
      BY DEF Init, FlagsOK
    <2>2. Init => ValuesOK
      BY QueueAssumption DEF Init, ValuesOK, QueueAssumption
    <2>3. Init => TimesOK
      BY DEF Init, TimesOK
    <2>. QED
      BY <2>1, <2>2, <2>3 DEF TypeOK
  <1>2. TypeOK /\ [Next]_vars => TypeOK'
    <2>. SUFFICES ASSUME FlagsOK, ValuesOK, TimesOK, [Next]_vars PROVE FlagsOK' /\ ValuesOK' /\ TimesOK'
      BY DEF TypeOK
    <2>. USE DEF FlagsOK, ValuesOK, TimesOK, execVars, timerVars, cmdVars, inVars, mcuVars, history, Idle
    <2>1. CASE OnCmdVel
      <3>1. FlagsOK'
        BY <2>1, QueueTail DEF OnCmdVel
      <3>2. ValuesOK'
        <4>1. queue' \in Seq(BOOLEAN) /\ Len(queue') = Len(queue) - 1
          BY <2>1, QueueTail DEF OnCmdVel
        <4>2. Len(queue') <= QueueDepth
          BY <4>1, QueueAssumption DEF QueueAssumption
        <4>. QED
          BY <2>1, <4>1, <4>2 DEF OnCmdVel
      <3>3. TimesOK'
        <4>1. UNCHANGED <<left, phase, mcuAge>> /\ age' = 0 /\ sinceEstop' = Expired
          BY <2>1 DEF OnCmdVel
        <4>2. sinceGo' = 0 \/ sinceGo' = sinceGo
          BY <2>1 DEF OnCmdVel
        <4>. QED
          BY <4>1, <4>2
      <3>. QED
        BY <3>1, <3>2, <3>3
    <2>2. CASE TickCommand
      <3>1. FlagsOK'
        BY <2>2 DEF TickCommand, Send
      <3>2. ValuesOK'
        BY <2>2 DEF TickCommand, Send
      <3>3. TimesOK'
        BY <2>2 DEF TickCommand, Send
      <3>. QED
        BY <3>1, <3>2, <3>3
    <2>3. CASE SrvEstop
      <3>1. FlagsOK'
        BY <2>3 DEF SrvEstop, Send
      <3>2. ValuesOK'
        BY <2>3 DEF SrvEstop, Send
      <3>3. TimesOK'
        BY <2>3 DEF SrvEstop, Send
      <3>. QED
        BY <3>1, <3>2, <3>3
    <2>4. CASE SrvClearFault
      <3>1. FlagsOK'
        BY <2>4 DEF SrvClearFault, Send
      <3>2. ValuesOK'
        BY <2>4 DEF SrvClearFault, Send
      <3>3. TimesOK'
        BY <2>4 DEF SrvClearFault, Send
      <3>. QED
        BY <3>1, <3>2, <3>3
    <2>5. CASE SrvQuery
      <3>1. FlagsOK'
        BY <2>5 DEF SrvQuery, Send
      <3>2. ValuesOK'
        BY <2>5 DEF SrvQuery, Send
      <3>3. TimesOK'
        BY <2>5 DEF SrvQuery, Send
      <3>. QED
        BY <3>1, <3>2, <3>3
    <2>6. CASE Delivered
      <3>1. FlagsOK'
        BY <2>6 DEF Delivered, WriteEnds, NodeGone
      <3>2. ValuesOK'
        BY <2>6, WriteEndsValues DEF Delivered
      <3>3. TimesOK'
        <4>1. left' = 0 /\ (phase' = phase \/ phase' = 0) /\ (age' = age \/ age' = Stale)
          BY <2>6 DEF Delivered, WriteEnds, NodeGone
        <4>2. (mcuAge' = 0 \/ mcuAge' = mcuAge) /\ UNCHANGED <<sinceGo, sinceEstop>>
          BY <2>6 DEF Delivered
        <4>. QED
          BY <4>1, <4>2
      <3>. QED
        BY <3>1, <3>2, <3>3
    <2>7. CASE Lost
      <3>1. FlagsOK'
        BY <2>7 DEF Lost, WriteEnds, NodeGone
      <3>2. ValuesOK'
        BY <2>7, WriteEndsValues DEF Lost
      <3>3. TimesOK'
        BY <2>7 DEF Lost, WriteEnds, NodeGone
      <3>. QED
        BY <3>1, <3>2, <3>3
    <2>8. CASE WriteFails
      <3>1. FlagsOK'
        BY <2>8 DEF WriteFails, WriteEnds, NodeGone
      <3>2. ValuesOK'
        BY <2>8, WriteEndsValues DEF WriteFails
      <3>3. TimesOK'
        BY <2>8 DEF WriteFails, WriteEnds, NodeGone
      <3>. QED
        BY <3>1, <3>2, <3>3
    <2>9. CASE TaskStopped
      <3>1. FlagsOK'
        BY <2>9 DEF TaskStopped
      <3>2. ValuesOK'
        BY <2>9 DEF TaskStopped
      <3>3. TimesOK'
        BY <2>9 DEF TaskStopped
      <3>. QED
        BY <3>1, <3>2, <3>3
    <2>10. CASE DestroyNode
      <3>1. FlagsOK'
        BY <2>10 DEF DestroyNode, NodeGone
      <3>2. ValuesOK'
        BY <2>10, NodeGoneValues DEF DestroyNode
      <3>3. TimesOK'
        BY <2>10 DEF DestroyNode, NodeGone
      <3>. QED
        BY <3>1, <3>2, <3>3
    <2>11. CASE Crash
      <3>1. FlagsOK'
        BY <2>11 DEF Crash, NodeGone
      <3>2. ValuesOK'
        BY <2>11, NodeGoneValues DEF Crash
      <3>3. TimesOK'
        BY <2>11 DEF Crash, NodeGone
      <3>. QED
        BY <3>1, <3>2, <3>3
    <2>12. CASE Restart
      <3>1. FlagsOK'
        BY <2>12 DEF Restart
      <3>2. ValuesOK'
        BY <2>12 DEF Restart
      <3>3. TimesOK'
        BY <2>12 DEF Restart
      <3>. QED
        BY <3>1, <3>2, <3>3
    <2>13. CASE LinkChanges
      <3>1. FlagsOK'
        BY <2>13 DEF LinkChanges
      <3>2. ValuesOK'
        BY <2>13 DEF LinkChanges
      <3>3. TimesOK'
        BY <2>13 DEF LinkChanges
      <3>. QED
        BY <3>1, <3>2, <3>3
    <2>14. CASE McuReboots
      <3>1. FlagsOK'
        BY <2>14 DEF McuReboots
      <3>2. ValuesOK'
        BY <2>14 DEF McuReboots
      <3>3. TimesOK'
        BY <2>14 DEF McuReboots
      <3>. QED
        BY <3>1, <3>2, <3>3
    <2>15. CASE Elapse
      <3>1. FlagsOK'
        BY <2>15, OlderInRange DEF Elapse
      <3>2. ValuesOK'
        BY <2>15, OlderInRange DEF Elapse
      <3>3. TimesOK'
        <4>1. left' \in 0 .. (SendTime + StopTime)
          BY <2>15 DEF Elapse, Busy
        <4>2. phase' \in 0 .. (CmdPeriod - 1)
          BY <2>15 DEF Elapse
        <4>3. age' \in 0 .. Stale /\ mcuAge' \in 0 .. Expired /\ sinceEstop' \in 0 .. Expired
          BY <2>15, OlderInRange DEF Elapse
        <4>4. sinceGo' \in 0 .. (MotionLimit + 1)
          BY <2>15, OlderInRange, MotionLimit + 1 \in Nat DEF Elapse
        <4>. QED
          BY <4>1, <4>2, <4>3, <4>4
      <3>. QED
        BY <3>1, <3>2, <3>3
    <2>16. ASSUME NEW t \in Tasks, SrvStartTask(t) \/ SrvStopTask(t)
          PROVE  FlagsOK' /\ ValuesOK' /\ TimesOK'
      <3>1. CASE SrvStartTask(t)
        BY <3>1 DEF SrvStartTask
      <3>2. CASE SrvStopTask(t)
        BY <3>2 DEF SrvStopTask
      <3>. QED
        BY <2>16, <3>1, <3>2
    <2>17. ASSUME NEW go \in BOOLEAN, Publish(go)
          PROVE  FlagsOK' /\ ValuesOK' /\ TimesOK'
      BY <2>17, QueueAppend, ZenonT(30) DEF Publish
    <2>18. ASSUME NEW s \in {"estop", "clear"}, Request(s)
          PROVE  FlagsOK' /\ ValuesOK' /\ TimesOK'
      BY <2>18 DEF Request
    <2>19. ASSUME NEW t \in Tasks, TaskExits(t)
          PROVE  FlagsOK' /\ ValuesOK' /\ TimesOK'
      BY <2>19 DEF TaskExits
    <2>20. CASE UNCHANGED vars
      BY <2>20 DEF vars
    <2>. QED
      BY <2>1, <2>2, <2>3, <2>4, <2>5, <2>6, <2>7, <2>8, <2>9, <2>10, <2>11, <2>12, <2>13, <2>14, <2>15, <2>16, <2>17, <2>18, <2>19, <2>20
         DEF Next, Callback, Unblock, World
  <1>. QED
    BY <1>1, <1>2, PTL DEF Spec

\* Where a motion may come from, and how old it is at most there.
THEOREM MotionInvariant == Spec => []MotionInv
  <1>. USE Bounds
  <1>1. Init => MotionInv
    BY DEF Init, MotionInv
  <1>2. TypeOK /\ MotionInv /\ [Next]_vars => MotionInv'
    <2>. SUFFICES ASSUME FlagsOK, ValuesOK, TimesOK, MotionInv, [Next]_vars PROVE MotionInv'
      BY DEF TypeOK
    <2>. USE DEF MotionInv, Idle, execVars, timerVars, cmdVars, inVars, mcuVars, history, Stale, Expired, MotionLimit
    <2>1. CASE OnCmdVel
      <3>1. /\ UNCHANGED <<frame, exec, left, moving, mcuAge>> /\ age' = 0
            /\ frame # "go"
        BY <2>1 DEF OnCmdVel
      <3>2. /\ cmdGo' => sinceGo' = 0
            /\ sinceGo' = 0 \/ sinceGo' = sinceGo
        BY <2>1 DEF OnCmdVel
      <3>3. cmdGo' /\ age' <= CmdTimeout => sinceGo' <= age'
        BY <3>1, <3>2
      <3>4. moving' => mcuAge' <= McuTimeout /\ sinceGo' <= CmdTimeout + SendTime + mcuAge'
        BY <3>1, <3>2 DEF TimesOK
      <3>. QED
        BY <3>1, <3>3, <3>4
    <2>2. CASE TickCommand
      BY <2>2 DEF TickCommand, Send, TimesOK
    <2>3. CASE SrvEstop
      BY <2>3 DEF SrvEstop, Send, TimesOK
    <2>4. CASE SrvClearFault
      BY <2>4 DEF SrvClearFault, Send, TimesOK
    <2>5. CASE SrvQuery
      BY <2>5 DEF SrvQuery, Send, TimesOK
    <2>6. CASE Delivered
      <3>1. frame' # "go"
        BY <2>6 DEF Delivered, WriteEnds, NodeGone
      <3>2. cmdGo' /\ age' <= CmdTimeout => sinceGo' <= age'
        BY <2>6 DEF Delivered, WriteEnds, NodeGone
      <3>3. CASE frame = "go"
        <4>1. mcuAge' = 0 /\ sinceGo' = sinceGo /\ sinceGo <= CmdTimeout + SendTime
          BY <2>6, <3>3 DEF Delivered, TimesOK
        <4>. QED
          BY <3>1, <3>2, <4>1
      <3>4. CASE frame # "go"
        <4>1. moving' => moving /\ mcuAge' = mcuAge /\ sinceGo' = sinceGo
          BY <2>6, <3>4 DEF Delivered
        <4>. QED
          BY <3>1, <3>2, <4>1
      <3>. QED
        BY <3>3, <3>4
    <2>7. CASE Lost
      BY <2>7 DEF Lost, WriteEnds, NodeGone, TimesOK
    <2>8. CASE WriteFails
      BY <2>8 DEF WriteFails, WriteEnds, NodeGone, TimesOK
    <2>9. CASE TaskStopped
      BY <2>9 DEF TaskStopped, TimesOK
    <2>10. CASE DestroyNode
      BY <2>10 DEF DestroyNode, NodeGone, TimesOK
    <2>11. CASE Crash
      BY <2>11 DEF Crash, NodeGone, TimesOK
    <2>12. CASE Restart
      BY <2>12 DEF Restart, TimesOK
    <2>13. CASE McuReboots
      BY <2>13 DEF McuReboots, TimesOK
    <2>14. CASE Elapse
      <3>1. /\ UNCHANGED <<exec, frame, cmdGo>>
            /\ age' = Older(age, Stale) /\ mcuAge' = Older(mcuAge, Expired)
            /\ sinceGo' = Older(sinceGo, MotionLimit + 1)
            /\ moving' => moving /\ mcuAge < McuTimeout
        BY <2>14 DEF Elapse
      <3>2. sinceGo' <= sinceGo + 1 /\ sinceGo' \in Nat
        BY <3>1 DEF Older, TimesOK
      <3>3. age' <= CmdTimeout => age' = age + 1
        BY <3>1 DEF Older, TimesOK
      <3>4. mcuAge <= McuTimeout => mcuAge' = mcuAge + 1
        BY <3>1 DEF Older, TimesOK
      <3>5. frame = "go" => left' = left - 1
        BY <2>14 DEF Elapse
      <3>6. cmdGo' /\ age' <= CmdTimeout => sinceGo' <= age'
        BY <3>1, <3>2, <3>3 DEF TimesOK
      <3>7. frame' = "go" => exec' = "writing" /\ sinceGo' + left' <= CmdTimeout + SendTime
        BY <3>1, <3>2, <3>5 DEF TimesOK
      <3>8. moving' => mcuAge' <= McuTimeout /\ sinceGo' <= CmdTimeout + SendTime + mcuAge'
        BY <3>1, <3>2, <3>4 DEF TimesOK
      <3>. QED
        BY <3>6, <3>7, <3>8
    <2>15. ASSUME NEW t \in Tasks, SrvStartTask(t) \/ SrvStopTask(t) PROVE MotionInv'
      BY <2>15 DEF SrvStartTask, SrvStopTask
    <2>16. ASSUME NEW t \in Tasks, TaskExits(t) PROVE MotionInv'
      BY <2>16 DEF TaskExits
    <2>17. ASSUME NEW go \in BOOLEAN, Publish(go) PROVE MotionInv'
      BY <2>17 DEF Publish
    <2>18. ASSUME NEW s \in {"estop", "clear"}, Request(s) PROVE MotionInv'
      BY <2>18 DEF Request
    <2>19. CASE LinkChanges \/ UNCHANGED vars
      BY <2>19 DEF LinkChanges, vars
    <2>. QED
      BY <2>1, <2>2, <2>3, <2>4, <2>5, <2>6, <2>7, <2>8, <2>9, <2>10,
         <2>11, <2>12, <2>13, <2>14, <2>15, <2>16, <2>17, <2>18, <2>19
         DEF Next, Callback, Unblock, World
  <1>. QED
    BY <1>1, <1>2, TypeCorrect, PTL DEF Spec

\* The robot never moves longer than the two timeouts and one write allow.
THEOREM MotionIsAlwaysBounded == Spec => []MotionIsBounded
  <1>1. TypeOK /\ MotionInv => MotionIsBounded
    BY Bounds DEF MotionInv, MotionIsBounded, TypeOK, TimesOK, MotionLimit
  <1>. QED
    BY <1>1, TypeCorrect, MotionInvariant, PTL

\* While an e-stop is held, neither the cache nor a frame asks for motion.
THEOREM EstopInvariant == Spec => []EstopInv
  <1>. USE Bounds
  <1>1. Init => EstopInv
    BY DEF Init, EstopInv
  <1>2. TypeOK /\ MotionInv /\ EstopInv /\ [Next]_vars => EstopInv'
    <2>. SUFFICES ASSUME FlagsOK, ValuesOK, TimesOK, MotionInv, EstopInv, [Next]_vars PROVE EstopInv'
      BY DEF TypeOK
    <2>. USE DEF EstopInv, Idle, execVars, timerVars, cmdVars, inVars, mcuVars, history, Stale, Expired
    <2>1. CASE OnCmdVel
      BY <2>1 DEF OnCmdVel, TimesOK
    <2>2. CASE TickCommand
      BY <2>2 DEF TickCommand, Send, TimesOK
    <2>3. CASE SrvEstop
      <3>1. ~cmdGo' /\ sinceEstop' = 0 /\ UNCHANGED <<moving, mcuAge>>
        BY <2>3 DEF SrvEstop
      <3>2. frame' # "go"
        BY <2>3 DEF SrvEstop, Send, MotionInv
      <3>3. moving' => mcuAge' <= McuTimeout
        BY <3>1 DEF MotionInv
      <3>. QED
        BY <3>1, <3>2, <3>3 DEF TimesOK
    <2>4. CASE SrvClearFault
      BY <2>4 DEF SrvClearFault, Send, TimesOK
    <2>5. CASE SrvQuery
      BY <2>5 DEF SrvQuery, Send, TimesOK
    <2>6. CASE Delivered
      BY <2>6 DEF Delivered, WriteEnds, NodeGone, TimesOK
    <2>7. CASE Lost
      BY <2>7 DEF Lost, WriteEnds, NodeGone, TimesOK
    <2>8. CASE WriteFails
      BY <2>8 DEF WriteFails, WriteEnds, NodeGone, TimesOK
    <2>9. CASE TaskStopped
      BY <2>9 DEF TaskStopped, TimesOK
    <2>10. CASE DestroyNode
      BY <2>10 DEF DestroyNode, NodeGone, TimesOK
    <2>11. CASE Crash
      BY <2>11 DEF Crash, NodeGone, TimesOK
    <2>12. CASE Restart
      BY <2>12 DEF Restart, TimesOK
    <2>13. CASE McuReboots
      BY <2>13 DEF McuReboots, TimesOK
    <2>14. CASE Elapse
      <3>1. /\ UNCHANGED <<frame, cmdGo, held>>
            /\ mcuAge' = Older(mcuAge, Expired) /\ sinceEstop' = Older(sinceEstop, Expired)
            /\ moving' => moving /\ mcuAge < McuTimeout
        BY <2>14 DEF Elapse
      <3>2. mcuAge < McuTimeout => mcuAge' = mcuAge + 1
        BY <3>1 DEF Older, TimesOK
      <3>3. sinceEstop' <= sinceEstop + 1 /\ sinceEstop' \in Nat
        BY <3>1 DEF Older, TimesOK
      <3>. QED
        BY <3>1, <3>2, <3>3 DEF TimesOK
    <2>15. ASSUME NEW t \in Tasks, SrvStartTask(t) \/ SrvStopTask(t) PROVE EstopInv'
      BY <2>15 DEF SrvStartTask, SrvStopTask
    <2>16. ASSUME NEW t \in Tasks, TaskExits(t) PROVE EstopInv'
      BY <2>16 DEF TaskExits
    <2>17. ASSUME NEW go \in BOOLEAN, Publish(go) PROVE EstopInv'
      BY <2>17 DEF Publish
    <2>18. ASSUME NEW s \in {"estop", "clear"}, Request(s) PROVE EstopInv'
      BY <2>18 DEF Request
    <2>19. CASE LinkChanges \/ UNCHANGED vars
      BY <2>19 DEF LinkChanges, vars
    <2>. QED
      BY <2>1, <2>2, <2>3, <2>4, <2>5, <2>6, <2>7, <2>8, <2>9, <2>10,
         <2>11, <2>12, <2>13, <2>14, <2>15, <2>16, <2>17, <2>18, <2>19
         DEF Next, Callback, Unblock, World
  <1>. QED
    BY <1>1, <1>2, TypeCorrect, MotionInvariant, PTL DEF Spec

\* An e-stop request stops the robot in time even when its frame is lost.
THEOREM EstopAlwaysStops == Spec => []EstopStops
  <1>1. TypeOK /\ EstopInv => EstopStops
    BY Bounds DEF EstopInv, EstopStops, TypeOK, TimesOK
  <1>. QED
    BY <1>1, TypeCorrect, EstopInvariant, PTL

\* An executor that is not kept waiting feeds the MCU's watchdog in every period.
THEOREM AlwaysFedWhileIdle == Spec => []FedWhileIdle
  <1>. USE Bounds
  <1>1. Init => FedInv
    BY DEF Init, FedInv, VelocityInFlight
  <1>2. TypeOK /\ FedInv /\ [Next]_vars => FedInv'
    <2>. SUFFICES ASSUME FlagsOK, ValuesOK, TimesOK, FedInv, [Next]_vars PROVE FedInv'
      BY DEF TypeOK
    <2>. USE DEF FedInv, Idle, execVars, timerVars, cmdVars, inVars, mcuVars, history, VelocityInFlight, Expired
    <2>1. CASE OnCmdVel
      BY <2>1 DEF OnCmdVel, TimesOK
    <2>2. CASE TickCommand
      BY <2>2 DEF TickCommand, Send, TimesOK
    <2>3. CASE SrvEstop
      BY <2>3 DEF SrvEstop, Send, TimesOK
    <2>4. CASE SrvClearFault
      BY <2>4 DEF SrvClearFault, Send, TimesOK
    <2>5. CASE SrvQuery
      BY <2>5 DEF SrvQuery, Send, TimesOK
    <2>6. CASE Delivered
      <3>1. CASE exec = "closing"
        BY <2>6, <3>1 DEF Delivered, WriteEnds, NodeGone
      <3>2. CASE exec = "writing" /\ frame \in Velocity
        <4>1. mcuAge' = 0 /\ phase' = phase
          BY <2>6, <3>2 DEF Delivered, WriteEnds
        <4>. QED
          BY <4>1 DEF TimesOK
      <3>3. CASE exec = "writing" /\ frame \notin Velocity
        <4>1. mcuAge' = mcuAge /\ UNCHANGED <<due, phase>>
          BY <2>6, <3>3 DEF Delivered, WriteEnds
        <4>2. ~missed' => ~missed
          BY <2>6, <3>3 DEF Delivered
        <4>. QED
          BY <3>3, <4>1, <4>2
      <3>. QED
        BY <2>6, <3>1, <3>2, <3>3 DEF Delivered, WriteEnds
    <2>7. CASE Lost
      BY <2>7 DEF Lost, WriteEnds, NodeGone, TimesOK
    <2>8. CASE WriteFails
      BY <2>8 DEF WriteFails, WriteEnds, NodeGone, TimesOK
    <2>9. CASE TaskStopped
      BY <2>9 DEF TaskStopped, TimesOK
    <2>10. CASE DestroyNode
      BY <2>10 DEF DestroyNode, NodeGone, TimesOK
    <2>11. CASE Crash
      BY <2>11 DEF Crash, NodeGone, TimesOK
    <2>12. CASE Restart
      BY <2>12 DEF Restart, TimesOK
    <2>13. CASE McuReboots
      BY <2>13 DEF McuReboots, TimesOK
    <2>14. CASE Elapse
      <3>1. /\ UNCHANGED <<exec, frame, missed>> /\ mcuAge' = Older(mcuAge, Expired)
        BY <2>14 DEF Elapse
      <3>2. mcuAge' <= mcuAge + 1 /\ mcuAge' \in Nat
        BY <3>1 DEF Older, TimesOK
      <3>3. CASE exec # "down" /\ phase + 1 < CmdPeriod
        <4>1. phase' = phase + 1 /\ (~due' => ~due)
          BY <2>14, <3>3 DEF Elapse, TimesOK
        <4>. QED
          BY <3>1, <3>2, <4>1 DEF TimesOK
      <3>4. CASE exec # "down" /\ ~(phase + 1 < CmdPeriod)
        <4>1. due' = (due \/ phase + 1 >= CmdPeriod)
          BY <2>14, <3>4 DEF Elapse
        <4>2. phase + 1 >= CmdPeriod
          BY <3>4 DEF TimesOK
        <4>. QED
          BY <4>1, <4>2
      <3>. QED
        BY <3>1, <3>3, <3>4
    <2>15. ASSUME NEW t \in Tasks, SrvStartTask(t) \/ SrvStopTask(t) PROVE FedInv'
      BY <2>15 DEF SrvStartTask, SrvStopTask
    <2>16. ASSUME NEW t \in Tasks, TaskExits(t) PROVE FedInv'
      BY <2>16 DEF TaskExits
    <2>17. ASSUME NEW go \in BOOLEAN, Publish(go) PROVE FedInv'
      BY <2>17 DEF Publish
    <2>18. ASSUME NEW s \in {"estop", "clear"}, Request(s) PROVE FedInv'
      BY <2>18 DEF Request
    <2>19. CASE LinkChanges \/ UNCHANGED vars
      BY <2>19 DEF LinkChanges, vars
    <2>. QED
      BY <2>1, <2>2, <2>3, <2>4, <2>5, <2>6, <2>7, <2>8, <2>9, <2>10,
         <2>11, <2>12, <2>13, <2>14, <2>15, <2>16, <2>17, <2>18, <2>19
         DEF Next, Callback, Unblock, World
  <1>3. TypeOK /\ FedInv => FedWhileIdle
    BY DEF FedInv, FedWhileIdle, VelocityInFlight, Idle, TypeOK, TimesOK
  <1>. QED
    BY <1>1, <1>2, <1>3, TypeCorrect, PTL DEF Spec

\* The command path implements SafeMotion: every step is one of its steps or
\* changes nothing of the motion.
THEOREM MotionIsSafe == Spec => ImplementsSafeMotion
  <1>. USE Bounds
  <1>1. Init => Safe!Init
    BY DEF Init, Safe!Init, Safe!NoCommand, Safe!NoEstop, Expired
  <1>2. /\ TypeOK /\ MotionInv /\ MotionInv' /\ EstopInv /\ EstopInv'
        /\ TypeOK' /\ [Next]_vars
        => [Safe!Next]_(Safe!vars)
    <2>. SUFFICES ASSUME FlagsOK, ValuesOK, TimesOK, TimesOK', FlagsOK', MotionInv, MotionInv', EstopInv, EstopInv',
                         [Next]_vars
                  PROVE  Safe!Next \/ UNCHANGED <<moving, held, sinceGo, sinceEstop>>
      BY DEF TypeOK, Safe!vars
    <2>. USE DEF Idle, execVars, timerVars, cmdVars, inVars, mcuVars, history
    <2>1. CASE OnCmdVel
      <3>1. Head(queue) \in BOOLEAN
        BY <2>1, QueueTail DEF OnCmdVel, ValuesOK
      <3>2. Safe!Command(Head(queue))
        BY <2>1 DEF OnCmdVel, Safe!Command, Safe!NoEstop, Expired
      <3>. QED
        BY <3>1, <3>2 DEF Safe!Next
    <2>2. CASE SrvEstop
      BY <2>2 DEF SrvEstop, Safe!Estop, Safe!Next
    <2>3. CASE Delivered
      <3>1. UNCHANGED <<sinceGo, held, sinceEstop>>
        BY <2>3 DEF Delivered
      <3>2. CASE moving' = FALSE
        BY <3>1, <3>2 DEF Safe!Halt, Safe!Next
      <3>3. CASE moving' = moving
        BY <3>1, <3>3
      <3>4. CASE moving' = TRUE /\ frame = "go"
        <4>1. ~held /\ sinceGo <= CmdTimeout + SendTime
          BY <3>4 DEF EstopInv, MotionInv, TimesOK
        <4>. QED
          BY <3>1, <3>4, <4>1 DEF Safe!Start, Safe!Next
      <3>5. frame = "go" => moving' \in BOOLEAN
        BY DEF FlagsOK
      <3>6. frame # "go" => moving' = FALSE \/ moving' = moving
        BY <2>3 DEF Delivered, ValuesOK
      <3>. QED
        BY <3>2, <3>3, <3>4, <3>5, <3>6
    <2>4. CASE McuReboots
      BY <2>4 DEF McuReboots, Safe!Halt, Safe!Next
    <2>5. CASE Elapse
      <3>1. /\ UNCHANGED held
            /\ sinceGo' = Older(sinceGo, MotionLimit + 1)
            /\ sinceEstop' = Older(sinceEstop, Expired)
            /\ moving' = FALSE \/ moving' = moving
        BY <2>5 DEF Elapse, FlagsOK
      <3>2. moving' => sinceGo' <= MotionLimit
        <4>1. mcuAge' \in Nat /\ sinceGo' \in Nat
          BY DEF TimesOK
        <4>2. moving' => /\ mcuAge' <= McuTimeout
                         /\ sinceGo' <= CmdTimeout + SendTime + mcuAge'
          BY DEF MotionInv
        <4>. QED
          BY <4>1, <4>2, LimitSum
      <3>3. moving' => (held => sinceEstop' <= McuTimeout)
        BY <3>1 DEF EstopInv, TimesOK
      <3>4. Safe!Tick
        BY <3>1, <3>2, <3>3 DEF Safe!Tick, Safe!NoCommand, Safe!NoEstop, Older, Expired, FlagsOK
      <3>. QED
        BY <3>4 DEF Safe!Next
    <2>6. CASE TickCommand \/ SrvClearFault \/ SrvQuery
      BY <2>6 DEF TickCommand, SrvClearFault, SrvQuery
    <2>7. CASE Lost \/ WriteFails \/ TaskStopped
      BY <2>7 DEF Lost, WriteFails, TaskStopped
    <2>8. CASE DestroyNode \/ Crash \/ Restart \/ LinkChanges
      BY <2>8 DEF DestroyNode, Crash, Restart, LinkChanges
    <2>9. ASSUME NEW t \in Tasks, SrvStartTask(t) \/ SrvStopTask(t) \/ TaskExits(t)
          PROVE  UNCHANGED <<moving, held, sinceGo, sinceEstop>>
      BY <2>9 DEF SrvStartTask, SrvStopTask, TaskExits
    <2>10. ASSUME NEW go \in BOOLEAN, Publish(go)
           PROVE  UNCHANGED <<moving, held, sinceGo, sinceEstop>>
      BY <2>10 DEF Publish
    <2>11. ASSUME NEW s \in {"estop", "clear"}, Request(s)
           PROVE  UNCHANGED <<moving, held, sinceGo, sinceEstop>>
      BY <2>11 DEF Request
    <2>12. CASE UNCHANGED vars
      BY <2>12 DEF vars
    <2>. QED
      BY <2>1, <2>2, <2>3, <2>4, <2>5, <2>6, <2>7, <2>8, <2>9, <2>10, <2>11, <2>12
         DEF Next, Callback, Unblock, World
  <1>. QED
    BY <1>1, <1>2, TypeCorrect, MotionInvariant, EstopInvariant, PTL
       DEF Spec, ImplementsSafeMotion, Safe!Spec
=============================================================================
