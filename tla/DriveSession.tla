---------------------------- MODULE DriveSession ----------------------------
(***************************************************************************)
(* What drive_bridge knows of the MCU it talks to: frames from the reader  *)
(* thread, the BOOT_INFO of the session, reboots seen in the telemetry     *)
(* timestamps, and the status message that reports them.                   *)
(*                                                                         *)
(* The reader thread decodes frames into _rx and, at each open, forgets    *)
(* the BOOT_INFO.  The executor thread drains _rx and publishes.  A step   *)
(* is one access to what the two share.  Of a frame the model keeps its    *)
(* kind, the MCU run it comes from, its timestamp and its age since        *)
(* decoding; of the status message, what it says of link and boot.         *)
(***************************************************************************)
EXTENDS Naturals, Sequences

CONSTANTS
    RxMax,       \* RX_QUEUE_MAX
    LinkTimeout, \* link_timeout_s
    MaxRun,      \* bound: the MCU starts runs 1 .. MaxRun
    ClockMod,    \* the timestamp is a counter modulo this (2^32 in milliseconds)
    Wraps        \* TRUE: the timestamp may wrap around within a run

ASSUME SizesAssumption ==
    /\ RxMax \in Nat \ {0} /\ LinkTimeout \in Nat
    /\ MaxRun \in Nat \ {0} /\ ClockMod \in Nat \ {0}
    /\ Wraps \in BOOLEAN

VARIABLES
    open,      \* the serial port is open
    rx,        \* _rx
    batch,     \* the local batch of _drain_rx, what is left of it
    pc,        \* what the executor thread is doing
    boot,      \* _boot_info: the run it describes, or 0 for None
    uptime,    \* _mcu_uptime_ms
    reboots,   \* _mcu_reboots
    mono,      \* age of _last_frame_mono, or Never
    pending,   \* _pending_status: the run its boot fields describe (0: zeros), or None
    msg,       \* the same of the message being published
    status,    \* the last message published
    run, clock, \* the MCU: which run, its timestamp (external)
    owes,      \* the MCU has yet to send the BOOT_INFO of this open (external)
    arrived,   \* history: age of the last telemetry and of the last other frame decoded
    told       \* history: the run whose BOOT_INFO was handled since the last open, or 0

nodeVars  == <<boot, uptime, reboots, mono, pending>>
rosVars   == <<batch, pc, msg, status>>
mcuVars   == <<run, clock, owes>>
vars      == <<open, rx, rosVars, nodeVars, mcuVars, arrived, told>>

Old    == LinkTimeout + 1    \* an age beyond the timeout
Never  == LinkTimeout + 2
None   == MaxRun + 1
Runs   == 1 .. MaxRun
Clocks == 0 .. (ClockMod - 1)
Ages   == 0 .. Old
Frames == [kind : {"tele", "boot", "other"}, run : Runs, time : Clocks, age : Ages]
\* tele and other are history: telemetry, and another frame, was decoded within
\* LinkTimeout of linkOk being read as TRUE.
Statuses == [linkOk : BOOLEAN, boot : 0 .. MaxRun, tele : BOOLEAN, other : BOOLEAN]
\* The two sorts of frames that the history tells apart.
Sorts == {"tele", "other"}
Sort(kind) == IF kind = "tele" THEN "tele" ELSE "other"
Ager(a) == IF a < Old THEN a + 1 ELSE a
Aged(q) == [i \in DOMAIN q |-> [q[i] EXCEPT !.age = Ager(@)]]

TypeOK ==
    /\ open \in BOOLEAN /\ owes \in BOOLEAN
    /\ rx \in Seq(Frames) /\ Len(rx) <= RxMax
    /\ batch \in Seq(Frames) /\ Len(batch) <= RxMax
    /\ pc \in {"idle", "drain", "fill", "dead"}
    /\ boot \in 0 .. MaxRun /\ told \in 0 .. MaxRun
    /\ uptime \in Clocks /\ clock \in Clocks /\ run \in Runs
    /\ reboots \in 0 .. (MaxRun + 1)
    /\ mono \in 0 .. Never /\ arrived \in [Sorts -> 0 .. Never]
    /\ pending \in 0 .. None
    /\ msg \in Statuses /\ status \in Statuses

NoStatus == [linkOk |-> FALSE, boot |-> 0, tele |-> FALSE, other |-> FALSE]

Init ==
    /\ open = FALSE /\ rx = <<>> /\ batch = <<>> /\ pc = "idle"
    /\ boot = 0 /\ uptime = 0 /\ reboots = 0 /\ mono = Never /\ pending = None
    /\ msg = NoStatus /\ status = NoStatus
    /\ run = 1 /\ clock \in Clocks /\ owes = FALSE
    /\ arrived = [s \in Sorts |-> Never] /\ told = 0

(***************************************************************************)
(* The reader thread.                                                      *)
(***************************************************************************)
\* SerialLink opens the port and calls _on_port_open.
PortOpens ==
    /\ ~open /\ pc # "dead"
    /\ open' = TRUE /\ boot' = 0
    /\ owes' = TRUE /\ told' = 0
    /\ UNCHANGED <<rx, rosVars, uptime, reboots, mono, pending, run, clock, arrived>>

PortCloses ==
    /\ open
    /\ open' = FALSE /\ owes' = FALSE
    /\ UNCHANGED <<rx, rosVars, nodeVars, run, clock, arrived, told>>

\* Mutant: nothing makes room.
EnqueueUnbounded(q, f) == Append(q, f)

\* _on_serial_bytes, for one more decoded frame: the oldest make room.
Enqueue(q, f) == LET longer == Append(q, f)
                 IN  SubSeq(longer, IF Len(longer) > RxMax THEN 2 ELSE 1, Len(longer))

OnSerialBytes(kind) ==
    /\ open /\ pc # "dead"
    /\ rx' = Enqueue(rx, [kind |-> kind, run |-> run, time |-> clock, age |-> 0])
    /\ arrived' = [arrived EXCEPT ![Sort(kind)] = 0]
    /\ UNCHANGED <<open, rosVars, nodeVars, told>>

(***************************************************************************)
(* The MCU (external): BOOT_INFO once after an open, then telemetry and    *)
(* answers.  Any frame can be lost.                                        *)
(***************************************************************************)
SendBootInfo == owes /\ owes' = FALSE /\ OnSerialBytes("boot") /\ UNCHANGED <<run, clock>>
SendFrame    == ~owes /\ \E k \in {"tele", "other"} : OnSerialBytes(k) /\ UNCHANGED mcuVars
BootInfoLost ==
    /\ owes /\ owes' = FALSE
    /\ UNCHANGED <<open, rx, rosVars, nodeVars, run, clock, arrived, told>>

McuReboots ==
    /\ run < MaxRun
    /\ run' = run + 1 /\ clock' = 0
    /\ UNCHANGED <<open, rx, rosVars, nodeVars, owes, arrived, told>>

\* Time passes for the frames that wait, for the node and for the MCU.
Elapse ==
    /\ clock + 1 < ClockMod \/ Wraps
    /\ clock' = (clock + 1) % ClockMod
    /\ rx' = Aged(rx) /\ batch' = Aged(batch)
    /\ mono' = Ager(mono) /\ arrived' = [s \in Sorts |-> Ager(arrived[s])]
    /\ UNCHANGED <<open, pc, msg, status, boot, uptime, reboots, pending, run, owes, told>>

(***************************************************************************)
(* The executor thread: _drain_rx and the frame handlers.                  *)
(***************************************************************************)
DrainRx ==
    /\ pc = "idle" /\ rx # <<>>
    /\ batch' = rx /\ rx' = <<>>
    /\ pc' = "drain"
    /\ UNCHANGED <<open, msg, status, nodeVars, mcuVars, arrived, told>>

\* Mutant: a repeated timestamp counts as a jump backwards.
OnTelemetryNotAfter(f) ==
    /\ reboots' = IF f.time <= uptime THEN reboots + 1 ELSE reboots
    /\ boot' = IF f.time <= uptime THEN 0 ELSE boot
    /\ uptime' = f.time
    /\ pending' = 0
    /\ UNCHANGED told

\* The status message is cached anew, its boot fields still zero.
OnTelemetry(f) ==
    /\ reboots' = IF f.time < uptime /\ reboots <= MaxRun THEN reboots + 1 ELSE reboots
    /\ boot' = IF f.time < uptime THEN 0 ELSE boot
    /\ uptime' = f.time
    /\ pending' = 0
    /\ UNCHANGED told

OnBootInfo(f) ==
    /\ boot' = f.run /\ told' = f.run
    /\ UNCHANGED <<uptime, reboots, pending>>

\* Mutant: the time of the drain, not of the decoding.
FrameAgeAtDrain(f) == 0

FrameAge(f) == f.age

\* Answers, diagnostics, and frames whose length betrays another firmware
\* change nothing but the time of the last frame.
HandleFrame ==
    /\ pc = "drain" /\ batch # <<>>
    /\ batch' = Tail(batch)
    /\ pc' = IF Len(batch) = 1 THEN "idle" ELSE "drain"
    /\ LET f == Head(batch) IN
         /\ mono' = FrameAge(f)
         /\ \/ f.kind = "tele" /\ OnTelemetry(f)
            \/ f.kind = "boot" /\ OnBootInfo(f)
            \/ f.kind = "other" /\ UNCHANGED <<boot, uptime, reboots, pending, told>>
    /\ UNCHANGED <<open, rx, msg, status, mcuVars, arrived>>

(***************************************************************************)
(* _publish_status.  The cached message is reused and keeps its boot       *)
(* fields; line 843 tests _boot_info and line 844 reads it again.          *)
(***************************************************************************)
LinkOk == open /\ mono <= LinkTimeout

\* History, kept of a status that reports link_ok.
Recent(sort) == LinkOk /\ arrived[sort] <= LinkTimeout

Cached == IF pending = None THEN 0 ELSE pending

PublishTest ==
    /\ pc = "idle"
    /\ LET m == [linkOk |-> LinkOk, boot |-> Cached,
                 tele |-> Recent("tele"), other |-> Recent("other")] IN
         IF boot # 0
         THEN pc' = "fill" /\ msg' = m /\ UNCHANGED status
         ELSE pc' = "idle" /\ status' = m /\ UNCHANGED msg
    /\ UNCHANGED <<open, rx, batch, nodeVars, mcuVars, arrived, told>>

\* None["proto"] is a TypeError: it leaves spin() and ends the node.
PublishFill ==
    /\ pc = "fill"
    /\ IF boot = 0
         THEN pc' = "dead" /\ open' = FALSE /\ owes' = FALSE /\ UNCHANGED <<status, pending>>
         ELSE /\ pc' = "idle"
              /\ status' = [msg EXCEPT !.boot = boot]
              /\ pending' = IF pending = None THEN None ELSE boot
              /\ UNCHANGED <<open, owes>>
    /\ msg' = NoStatus
    /\ UNCHANGED <<rx, batch, boot, uptime, reboots, mono, run, clock, arrived, told>>

Reader == PortOpens \/ PortCloses \/ SendBootInfo \/ SendFrame \/ BootInfoLost
Ros    == DrainRx \/ HandleFrame \/ PublishTest \/ PublishFill
Next   == Reader \/ Ros \/ McuReboots \/ Elapse

Spec == Init /\ [][Next]_vars
-----------------------------------------------------------------------------
(***************************************************************************)
(* Properties.                                                             *)
(***************************************************************************)

\* A status that reports link_ok was made within LinkTimeout of the decoding of a
\* telemetry frame, however late the executor drained it, unless a frame of another
\* kind was decoded in that time.  DriveStatus.msg:50 promises it without exception:
\* "port open and a telemetry frame arrived recently".  But line 359 counts every
\* frame, so a BOOT_INFO, a PONG or a frame of the wrong length makes or keeps the
\* link ok while no telemetry comes; TLC finds this when the exception is dropped.
LinkOkIsFresh == status.linkOk /\ ~status.other => status.tele

\* Every reboot counted is a restart of the MCU, whatever was queued, dropped
\* or repeated, as long as the timestamp does not wrap around.
NoPhantomReboot == reboots <= run - 1

\* A port that reopens while the status is published does not end the node.
NodeSurvives == pc # "dead"


(***************************************************************************)
(* The inductive invariants behind the first two: no queued frame, and so  *)
(* no age the node keeps, is younger than the last of its sort; and the    *)
(* frames wait in the order in which the MCU sent them, none older than    *)
(* the last telemetry handled, which came from run last or later.          *)
(***************************************************************************)
FreshInv ==
    /\ \A i \in DOMAIN rx : rx[i].age >= arrived[Sort(rx[i].kind)]
    /\ \A i \in DOMAIN batch : batch[i].age >= arrived[Sort(batch[i].kind)]
    /\ \E s \in Sorts : mono >= arrived[s]
    /\ msg.linkOk => msg.tele \/ msg.other
    /\ status.linkOk => status.tele \/ status.other

NotAfter(r, t, f) == r < f.run \/ (r = f.run /\ t <= f.time)
InOrder(q) == \A i, j \in DOMAIN q : i <= j => NotAfter(q[i].run, q[i].time, q[j])
Now == [run |-> run, time |-> clock]

OrderInv ==
    /\ InOrder(rx) /\ InOrder(batch)
    /\ \A i \in DOMAIN batch, j \in DOMAIN rx : NotAfter(batch[i].run, batch[i].time, rx[j])
    /\ \A j \in DOMAIN rx : NotAfter(rx[j].run, rx[j].time, Now)
    /\ \A i \in DOMAIN batch : NotAfter(batch[i].run, batch[i].time, Now)

RebootInv ==
    \E last \in 1 .. run :
        /\ reboots < last
        /\ NotAfter(last, uptime, Now)
        /\ \A i \in DOMAIN batch : NotAfter(last, uptime, batch[i])
        /\ \A j \in DOMAIN rx : NotAfter(last, uptime, rx[j])
=============================================================================
