----------------------------- MODULE SensorNode -----------------------------
(***************************************************************************)
(* sensor_bridge: lines from the reader thread, the latest reading of each *)
(* sensor, which sensors are there, and the snapshot that says which       *)
(* readings are good.                                                      *)
(*                                                                         *)
(* The reader thread frames lines into _rx; the executor thread drains it  *)
(* and publishes.  Of a line the model keeps its kind, its source, what it *)
(* says, and its age since it was framed.  Counters that only go into the  *)
(* status message and the per-sensor topics are left out.                  *)
(***************************************************************************)
EXTENDS Naturals, Sequences

CONSTANTS
    Banner,     \* the sensors the boot line reports: aht21, ens160, bh1750
    Pms,        \* the one it does not: pms7003
    RxMax,      \* RX_QUEUE_MAX
    StaleTime,  \* the stale limits, taken equal
    MaxRun,     \* bound: the MCU starts runs 1 .. MaxRun
    MaxTime     \* bound: uptime within a run

ASSUME SensorsAssumption == Pms \notin Banner
ASSUME SizesAssumption ==
    /\ RxMax \in Nat \ {0} /\ StaleTime \in Nat
    /\ MaxRun \in Nat \ {0} /\ MaxTime \in Nat

VARIABLES
    open,      \* the serial port is open
    partial,   \* the framer holds the beginning of a line
    rx,        \* _rx
    draining,  \* pops _drain_rx has left, or 0 when it does not run
    cache,     \* _cache: the age of the reading and whether it is usable, or none
    present,   \* _present, and _pms_seen
    uptime,    \* _mcu_uptime_ms
    run, clock, \* the MCU: which run, its uptime (external)
    works,     \* the sensors that answer it in this run (external)
    booting,   \* it has yet to send its boot line (external)
    latest,    \* history: the age of the last usable reading of a sensor framed
    told       \* history: the boot line of this run was handled

nodeVars == <<draining, cache, present, uptime>>
mcuVars  == <<run, clock, works, booting>>
vars     == <<open, partial, rx, nodeVars, mcuVars, latest, told>>

Sensors == Banner \union {Pms}
Old     == StaleTime + 1
Ages    == 0 .. Old
Ager(a) == IF a < Old THEN a + 1 ELSE a
Aged(q) == [i \in DOMAIN q |-> [q[i] EXCEPT !.age = Ager(@)]]

\* Usable: numbers where numbers are due, and for the ENS160 out of warm-up.
Grades == {"usable", "warming", "malformed"}
Entry  == [age : Ages, grade : {"none", "usable", "warming"}]
NoEntry == [age |-> Old, grade |-> "none"]

Line == [kind : {"reading"}, src : Sensors, grade : Grades, age : Ages]
        \union [kind : {"boot"}, ok : SUBSET Banner, run : 1 .. MaxRun, age : Ages]
        \union [kind : {"uptime"}, time : 0 .. MaxTime, age : Ages]
        \union [kind : {"garbage"}, age : Ages]

TypeOK ==
    /\ open \in BOOLEAN /\ partial \in BOOLEAN /\ booting \in BOOLEAN /\ told \in BOOLEAN
    /\ rx \in Seq(Line) /\ Len(rx) <= RxMax
    /\ draining \in 0 .. RxMax
    /\ cache \in [Sensors -> Entry] /\ latest \in [Sensors -> Ages]
    /\ present \subseteq Sensors /\ works \subseteq Sensors
    /\ uptime \in 0 .. MaxTime /\ clock \in 0 .. MaxTime /\ run \in 1 .. MaxRun

\* The node may start when the MCU already runs: its boot line is past.
Init ==
    /\ open = FALSE /\ partial = FALSE /\ rx = <<>> /\ draining = 0
    /\ cache = [s \in Sensors |-> NoEntry] /\ present = {} /\ uptime = 0
    /\ latest = [s \in Sensors |-> Old]
    /\ run = 1 /\ clock \in 0 .. MaxTime /\ works \in SUBSET Sensors /\ booting = FALSE
    /\ told = FALSE

(***************************************************************************)
(* The reader thread.  The framer keeps a partial line across a reopen, so *)
(* the next line is appended to it and is no JSON any more.                *)
(***************************************************************************)
PortOpens ==
    /\ ~open
    /\ open' = TRUE
    /\ UNCHANGED <<partial, rx, nodeVars, mcuVars, latest, told>>

PortCloses ==
    /\ open
    /\ open' = FALSE /\ partial' \in {partial, TRUE}
    /\ UNCHANGED <<rx, nodeVars, mcuVars, latest, told>>

\* Mutant: a deque without maxlen.
EnqueueUnbounded(q, line) == Append(q, line)

\* deque(maxlen): the oldest makes room.
Enqueue(q, line) == LET longer == Append(q, line)
                    IN  IF Len(longer) > RxMax THEN Tail(longer) ELSE longer

Receive(line) ==
    /\ open
    /\ partial' = FALSE
    /\ rx' = Enqueue(rx, IF partial THEN [kind |-> "garbage", age |-> 0] ELSE line)
    /\ UNCHANGED <<open, nodeVars, told>>

(***************************************************************************)
(* The MCU (external): a boot line first, then readings of the sensors     *)
(* that work and its uptime.                                               *)
(***************************************************************************)
SendBoot ==
    /\ booting /\ booting' = FALSE
    /\ \/ Receive([kind |-> "boot", ok |-> works \intersect Banner, run |-> run, age |-> 0])
       \/ ~open /\ UNCHANGED <<open, partial, rx, nodeVars, told>>
    /\ UNCHANGED <<run, clock, works, latest>>

SendReading ==
    /\ ~booting
    /\ \E s \in works, g \in Grades :
         /\ Receive([kind |-> "reading", src |-> s, grade |-> g, age |-> 0])
         /\ latest' = IF g = "usable" /\ ~partial THEN [latest EXCEPT ![s] = 0] ELSE latest
    /\ UNCHANGED mcuVars

SendUptime ==
    /\ ~booting
    /\ Receive([kind |-> "uptime", time |-> clock, age |-> 0])
    /\ UNCHANGED <<mcuVars, latest>>

\* Whatever was in transit is cut short.
McuReboots ==
    /\ run < MaxRun
    /\ run' = run + 1 /\ clock' = 0 /\ booting' = TRUE /\ told' = FALSE
    /\ works' \in SUBSET Sensors
    /\ partial' \in {partial, partial \/ open}
    /\ UNCHANGED <<open, rx, nodeVars, latest>>

Elapse ==
    /\ clock < MaxTime
    /\ clock' = clock + 1
    /\ rx' = Aged(rx) /\ cache' = Aged(cache)
    /\ latest' = [s \in Sensors |-> Ager(latest[s])]
    /\ UNCHANGED <<open, partial, draining, present, uptime, run, works, booting, told>>

(***************************************************************************)
(* _drain_rx and _handle_line.  One drain handles RX_QUEUE_MAX lines at    *)
(* most; lines that come meanwhile are handled too.                        *)
(***************************************************************************)
DrainBegins ==
    /\ draining = 0 /\ rx # <<>>
    /\ draining' = RxMax
    /\ UNCHANGED <<open, partial, rx, cache, present, uptime, mcuVars, latest, told>>

\* Mutant: stamped when it is handled.
StampAtHandling(line) == [age |-> 0, grade |-> line.grade]

Stamp(line) == [age |-> line.age, grade |-> line.grade]

\* A sensor is marked present before its fields are looked at; the PMS after.
OnReading(line) ==
    /\ cache' = IF line.grade = "malformed" THEN cache
                ELSE [cache EXCEPT ![line.src] = Stamp(line)]
    /\ present' = IF line.src = Pms /\ line.grade = "malformed" THEN present
                  ELSE present \union {line.src}
    /\ UNCHANGED <<uptime, told>>

\* Mutant: the boot line adds to what was known.
OnBootAdds(line) ==
    /\ present' = present \union line.ok
    /\ told' = (line.run = run)
    /\ UNCHANGED <<cache, uptime>>

\* A fresh boot invalidates what was known of the sensors, not their readings.
OnBoot(line) ==
    /\ present' = line.ok
    /\ told' = (line.run = run)
    /\ UNCHANGED <<cache, uptime>>

OnUptime(line) ==
    /\ present' = IF line.time < uptime THEN present \ {Pms} ELSE present
    /\ uptime' = line.time
    /\ UNCHANGED <<cache, told>>

HandleLine ==
    /\ draining > 0 /\ rx # <<>>
    /\ draining' = draining - 1
    /\ rx' = Tail(rx)
    /\ LET line == Head(rx) IN
         \/ line.kind = "reading" /\ OnReading(line)
         \/ line.kind = "boot" /\ OnBoot(line)
         \/ line.kind = "uptime" /\ OnUptime(line)
         \/ line.kind = "garbage" /\ UNCHANGED <<cache, present, uptime, told>>
    /\ UNCHANGED <<open, partial, mcuVars, latest>>

DrainEnds ==
    /\ draining > 0 /\ rx = <<>>
    /\ draining' = 0
    /\ UNCHANGED <<open, partial, rx, cache, present, uptime, mcuVars, latest, told>>

\* _publish_snapshot changes nothing.  It runs when the drain does not, and calls
\* these readings valid: fresh is not enough, they must be usable.
Valid == {s \in Sensors : cache[s].grade = "usable" /\ cache[s].age <= StaleTime}

Reader == PortOpens \/ PortCloses \/ SendBoot \/ SendReading \/ SendUptime
Ros    == DrainBegins \/ HandleLine \/ DrainEnds
Next   == Reader \/ Ros \/ McuReboots \/ Elapse

Spec == Init /\ [][Next]_vars
-----------------------------------------------------------------------------
(***************************************************************************)
(* Properties.                                                             *)
(***************************************************************************)

\* A reading the snapshot calls valid was framed within the stale limit, however
\* late the executor handled it and whatever was dropped or malformed since.
SnapshotIsFresh == draining = 0 => \A s \in Valid : latest[s] <= StaleTime

\* Once the boot line of the MCU's present run was handled, only sensors that
\* work in it are reported present: what the queue still held of the run before,
\* or a line cut short by the reset, does not bring a dead sensor back.
PresenceIsTrue == told => present \subseteq works

(***************************************************************************)
(* The inductive invariants behind them: no usable reading, queued or      *)
(* cached, is younger than the last one framed; and behind the boot line   *)
(* of the present run only lines of that run wait.                         *)
(***************************************************************************)
FreshInv ==
    /\ \A i \in DOMAIN rx :
         rx[i].kind = "reading" /\ rx[i].grade = "usable" => latest[rx[i].src] <= rx[i].age
    /\ \A s \in Sensors : cache[s].grade = "usable" => latest[s] <= cache[s].age

IsBoot(line)      == line.kind = "boot" /\ line.run = run
FromWorking(line) == line.kind = "reading" => line.src \in works

PresenceInv ==
    /\ \A i \in DOMAIN rx : rx[i].kind = "boot" => rx[i].run <= run
    /\ \A i \in DOMAIN rx : IsBoot(rx[i]) => rx[i].ok \subseteq works
    /\ \A i, j \in DOMAIN rx : i < j /\ IsBoot(rx[i]) => FromWorking(rx[j])
    /\ told => \A i \in DOMAIN rx : FromWorking(rx[i])
    /\ told => present \subseteq works
=============================================================================
