-------------------------- MODULE SensorNode_proofs --------------------------
(***************************************************************************)
(* What sensor_bridge may say of its sensors, for every queue size, stale  *)
(* limit and set of sensors.                                               *)
(***************************************************************************)
EXTENDS SensorNode, SequenceTheorems, TLAPS

\* The bounds are naturals.
LEMMA Bounds ==
    /\ RxMax \in Nat /\ RxMax > 0 /\ StaleTime \in Nat /\ Old \in Nat
    /\ MaxRun \in Nat /\ MaxRun > 0 /\ MaxTime \in Nat
  BY SizesAssumption DEF SizesAssumption, Old

\* Ages saturate, and keep their order.
LEMMA AgerKeepsOrder ==
    /\ \A a \in Ages : Ager(a) \in Ages
    /\ \A a, b \in Ages : a <= b => Ager(a) <= Ager(b)
  BY Bounds DEF Ages, Ager, Old

\* What a line is, by its kind.
LEMMA LineKinds ==
    ASSUME NEW line \in Line
    PROVE  /\ line.age \in Ages /\ line.kind \in {"reading", "boot", "uptime", "garbage"}
           /\ line.kind = "reading" => line.src \in Sensors /\ line.grade \in Grades
           /\ line.kind = "boot" => line.ok \in SUBSET Banner /\ line.run \in 1 .. MaxRun
           /\ line.kind = "uptime" => line.time \in 0 .. MaxTime
  BY DEF Line

\* What a queue holds.
LEMMA QueuedLines ==
    ASSUME NEW q \in Seq(Line)
    PROVE  /\ Len(q) \in Nat /\ DOMAIN q = 1 .. Len(q)
           /\ \A i \in DOMAIN q : q[i] \in Line
  BY LenProperties

\* A line that waits changes nothing but its age.
LEMMA AgedLine ==
    ASSUME NEW line \in Line, NEW older, older = [line EXCEPT !.age = Ager(@)]
    PROVE  /\ older \in Line
           /\ older.kind = line.kind /\ older.age = Ager(line.age)
           /\ line.kind = "reading" => older.src = line.src /\ older.grade = line.grade
           /\ line.kind = "boot" => older.ok = line.ok /\ older.run = line.run
  <1>1. Ager(line.age) \in Ages
    BY LineKinds, AgerKeepsOrder
  <1>2. CASE line \in [kind : {"reading"}, src : Sensors, grade : Grades, age : Ages]
    BY <1>1, <1>2 DEF Line
  <1>3. CASE line \in [kind : {"boot"}, ok : SUBSET Banner, run : 1 .. MaxRun, age : Ages]
    BY <1>1, <1>3 DEF Line
  <1>4. CASE line \in [kind : {"uptime"}, time : 0 .. MaxTime, age : Ages]
    BY <1>1, <1>4 DEF Line
  <1>5. CASE line \in [kind : {"garbage"}, age : Ages]
    BY <1>1, <1>5 DEF Line
  <1>. QED
    BY <1>2, <1>3, <1>4, <1>5 DEF Line

LEMMA AgedQueue ==
    ASSUME NEW q \in Seq(Line)
    PROVE  /\ Aged(q) \in Seq(Line) /\ Len(Aged(q)) = Len(q) /\ DOMAIN Aged(q) = DOMAIN q
           /\ \A i \in DOMAIN q : Aged(q)[i] = [q[i] EXCEPT !.age = Ager(@)]
  <1>1. Len(q) \in Nat /\ DOMAIN q = 1 .. Len(q) /\ \A i \in DOMAIN q : q[i] \in Line
    BY QueuedLines
  <1>2. \A i \in DOMAIN q : [q[i] EXCEPT !.age = Ager(@)] \in Line
    BY <1>1, AgedLine
  <1>3. Aged(q) \in [1 .. Len(q) -> Line]
    BY <1>1, <1>2 DEF Aged
  <1>4. Aged(q) \in Seq(Line)
    BY <1>1, <1>3, SeqDef
  <1>. QED
    BY <1>1, <1>3, <1>4, LenProperties DEF Aged

\* Enqueue appends, and drops the oldest line when the queue is full.
LEMMA EnqueueShifts ==
    ASSUME NEW q \in Seq(Line), Len(q) <= RxMax, NEW line \in Line
    PROVE  /\ Enqueue(q, line) \in Seq(Line)
           /\ Len(Enqueue(q, line)) <= RxMax
           /\ \A i \in DOMAIN Enqueue(q, line) :
                \/ Enqueue(q, line)[i] = line /\ i = Len(Enqueue(q, line))
                \/ \E d \in {0, 1} : /\ i + d \in DOMAIN q
                                     /\ Enqueue(q, line)[i] = q[i + d]
                                     /\ Len(Enqueue(q, line)) = Len(q) + 1 - d
  <1>. DEFINE longer == Append(q, line)
  <1>1. /\ longer \in Seq(Line) /\ longer # <<>> /\ Len(longer) = Len(q) + 1 /\ Len(q) \in Nat
        /\ \A i \in 1 .. Len(q) : longer[i] = q[i]
        /\ longer[Len(q) + 1] = line
        /\ DOMAIN q = 1 .. Len(q) /\ DOMAIN longer = 1 .. Len(longer)
    BY AppendProperties, QueuedLines
  <1>. HIDE DEF longer
  <1>2. CASE Len(longer) > RxMax
    <2>1. Enqueue(q, line) = Tail(longer)
      BY <1>2 DEF Enqueue, longer
    <2>. DEFINE r == Tail(longer)
    <2>2. /\ r \in Seq(Line) /\ Len(r) = Len(q)
          /\ \A i \in 1 .. Len(r) : r[i] = longer[i + 1]
          /\ DOMAIN r = 1 .. Len(r)
      BY <1>1, HeadTailProperties, LenProperties
    <2>. HIDE DEF r
    <2>3. \A i \in DOMAIN r : \/ r[i] = line /\ i = Len(r)
                              \/ i + 1 \in DOMAIN q /\ r[i] = q[i + 1]
      BY <1>1, <2>2
    <2>. QED
      BY <1>1, <2>1, <2>2, <2>3 DEF r
  <1>3. CASE ~(Len(longer) > RxMax)
    <2>1. Enqueue(q, line) = longer
      BY <1>3 DEF Enqueue, longer
    <2>2. \A i \in DOMAIN longer : \/ longer[i] = line /\ i = Len(longer)
                                   \/ i + 0 \in DOMAIN q /\ longer[i] = q[i + 0]
      BY <1>1
    <2>. QED
      BY <1>1, <1>3, <2>1, <2>2, Bounds
  <1>. QED
    BY <1>2, <1>3

\* The lines that the MCU sends, and what a cut one becomes.
LEMMA SentLines ==
    ASSUME TypeOK
    PROVE  /\ [kind |-> "boot", ok |-> works \intersect Banner, run |-> run, age |-> 0] \in Line
           /\ [kind |-> "uptime", time |-> clock, age |-> 0] \in Line
           /\ [kind |-> "garbage", age |-> 0] \in Line
           /\ \A s \in Sensors, g \in Grades :
                [kind |-> "reading", src |-> s, grade |-> g, age |-> 0] \in Line
  <1>1. 0 \in Ages /\ works \intersect Banner \in SUBSET Banner
    BY Bounds DEF Ages
  <1>. QED
    BY <1>1 DEF TypeOK, Line

\* What a received line leaves in the queue.
LEMMA ReceiveEffect ==
    ASSUME TypeOK, NEW line \in Line, Receive(line)
    PROVE  /\ rx' \in Seq(Line) /\ Len(rx') <= RxMax
           /\ DOMAIN rx' = 1 .. Len(rx') /\ Len(rx') \in Nat
           /\ DOMAIN rx = 1 .. Len(rx) /\ Len(rx) \in Nat
           /\ \A i \in DOMAIN rx' :
                \/ /\ rx'[i] = line \/ rx'[i].kind = "garbage"
                   /\ partial => rx'[i].kind = "garbage"
                   /\ i = Len(rx')
                \/ \E d \in {0, 1} : /\ i + d \in DOMAIN rx /\ rx'[i] = rx[i + d]
                                     /\ Len(rx') = Len(rx) + 1 - d
  <1>. DEFINE got == IF partial THEN [kind |-> "garbage", age |-> 0] ELSE line
  <1>1. got \in Line /\ (got = line \/ got.kind = "garbage") /\ (partial => got.kind = "garbage")
    BY SentLines
  <1>2. rx' = Enqueue(rx, got)
    BY DEF Receive
  <1>3. rx \in Seq(Line) /\ Len(rx) <= RxMax
    BY DEF TypeOK
  <1>. HIDE DEF got
  <1>4. rx' \in Seq(Line) /\ Len(rx') <= RxMax
    BY <1>1, <1>2, <1>3, EnqueueShifts
  <1>5. \A i \in DOMAIN rx' :
          \/ rx'[i] = got /\ i = Len(rx')
          \/ \E d \in {0, 1} : /\ i + d \in DOMAIN rx /\ rx'[i] = rx[i + d]
                               /\ Len(rx') = Len(rx) + 1 - d
    BY <1>1, <1>2, <1>3, EnqueueShifts
  <1>. QED
    BY <1>1, <1>3, <1>4, <1>5, QueuedLines

\* The line that HandleLine takes, and what stays behind it.
LEMMA TakenLine ==
    ASSUME TypeOK, HandleLine
    PROVE  /\ Head(rx) = rx[1] /\ 1 \in DOMAIN rx /\ Head(rx) \in Line
           /\ rx' \in Seq(Line) /\ Len(rx') <= RxMax
           /\ \A i \in DOMAIN rx' : i + 1 \in DOMAIN rx /\ rx'[i] = rx[i + 1] /\ 1 < i + 1
  <1>1. rx \in Seq(Line) /\ rx # <<>> /\ rx' = Tail(rx)
    BY DEF TypeOK, HandleLine
  <1>2. Len(rx) \in Nat /\ DOMAIN rx = 1 .. Len(rx) /\ Head(rx) = rx[1]
    BY <1>1, QueuedLines
  <1>3. /\ Head(rx) \in Line /\ rx' \in Seq(Line) /\ Len(rx') = Len(rx) - 1
        /\ \A i \in 1 .. Len(rx') : rx'[i] = rx[i + 1]
    BY <1>1, HeadTailProperties
  <1>4. Len(rx') \in Nat /\ DOMAIN rx' = 1 .. Len(rx')
    BY <1>3, QueuedLines
  <1>. QED
    BY <1>2, <1>3, <1>4, Bounds DEF TypeOK

\* Every step keeps every variable in its range: _rx never holds more than
\* RX_QUEUE_MAX lines.
THEOREM TypeCorrect == Spec => []TypeOK
  <1>. USE Bounds
  <1>1. Init => TypeOK
    <2>1. <<>> \in Seq(Line) /\ Len(<<>>) = 0
      OBVIOUS
    <2>2. NoEntry \in Entry /\ Old \in Ages
      BY DEF NoEntry, Entry, Ages
    <2>3. /\ 0 <= RxMax /\ 0 \in 0 .. RxMax /\ 0 \in 0 .. MaxTime
          /\ 1 \in 1 .. MaxRun
      OBVIOUS
    <2>. QED
      BY <2>1, <2>2, <2>3 DEF Init, TypeOK
  <1>2. TypeOK /\ [Next]_vars => TypeOK'
    <2>. SUFFICES ASSUME TypeOK, [Next]_vars PROVE TypeOK'
      OBVIOUS
    <2>. USE DEF nodeVars, mcuVars
    <2>1. ASSUME NEW line \in Line, Receive(line)
          PROVE  rx' \in Seq(Line) /\ Len(rx') <= RxMax /\ partial' \in BOOLEAN
      BY <2>1, ReceiveEffect DEF Receive
    <2>2. CASE PortOpens \/ PortCloses
      BY <2>2 DEF PortOpens, PortCloses, TypeOK
    <2>3. CASE SendBoot
      BY <2>1, <2>3, SentLines DEF SendBoot, Receive, TypeOK
    <2>4. CASE SendReading
      <3>1. PICK s \in works, g \in Grades :
              /\ Receive([kind |-> "reading", src |-> s, grade |-> g, age |-> 0])
              /\ latest' = IF g = "usable" /\ ~partial THEN [latest EXCEPT ![s] = 0] ELSE latest
        BY <2>4 DEF SendReading
      <3>2. s \in Sensors
        BY DEF TypeOK
      <3>3. latest' \in [Sensors -> Ages]
        BY <3>1 DEF TypeOK, Ages
      <3>. QED
        BY <2>1, <2>4, <3>1, <3>2, <3>3, SentLines DEF SendReading, Receive, TypeOK
    <2>5. CASE SendUptime
      BY <2>1, <2>5, SentLines DEF SendUptime, Receive, TypeOK
    <2>6. CASE McuReboots
      <3>1. partial' \in {partial, partial \/ open}
        BY <2>6 DEF McuReboots
      <3>2. partial' \in BOOLEAN
        BY <3>1, Zenon DEF TypeOK
      <3>3. run' \in 1 .. MaxRun /\ clock' \in 0 .. MaxTime
        BY <2>6 DEF McuReboots, TypeOK
      <3>. QED
        BY <2>6, <3>2, <3>3 DEF McuReboots, TypeOK
    <2>7. CASE Elapse
      <3>1. rx' \in Seq(Line) /\ Len(rx') <= RxMax
        BY <2>7, AgedQueue DEF Elapse, TypeOK
      <3>2. cache' \in [Sensors -> Entry]
        BY <2>7, AgerKeepsOrder DEF Elapse, Aged, TypeOK, Entry
      <3>3. latest' \in [Sensors -> Ages]
        BY <2>7, AgerKeepsOrder DEF Elapse, TypeOK
      <3>. QED
        BY <2>7, <3>1, <3>2, <3>3 DEF Elapse, TypeOK
    <2>8. CASE DrainBegins \/ DrainEnds
      BY <2>8 DEF DrainBegins, DrainEnds, TypeOK
    <2>9. CASE HandleLine
      <3>. DEFINE line == Head(rx)
      <3>1. line \in Line /\ rx' \in Seq(Line) /\ Len(rx') <= RxMax
        BY <2>9, TakenLine
      <3>2. /\ \/ line.kind = "reading" /\ OnReading(line)
               \/ line.kind = "boot" /\ OnBoot(line)
               \/ line.kind = "uptime" /\ OnUptime(line)
               \/ line.kind = "garbage" /\ UNCHANGED <<cache, present, uptime, told>>
            /\ draining' \in 0 .. RxMax
            /\ UNCHANGED <<open, partial, mcuVars, latest>>
        BY <2>9 DEF HandleLine, TypeOK
      <3>. HIDE DEF line
      <3>3. CASE line.kind = "reading" /\ OnReading(line)
        <4>1. line.src \in Sensors /\ line.grade \in Grades /\ line.age \in Ages
          BY <3>1, <3>3, LineKinds
        <4>2. line.grade # "malformed" => Stamp(line) \in Entry
          BY <4>1 DEF Stamp, Entry, Grades
        <4>3. cache' \in [Sensors -> Entry]
          BY <3>3, <4>1, <4>2 DEF OnReading, TypeOK
        <4>. QED
          BY <3>1, <3>2, <3>3, <4>1, <4>3 DEF OnReading, TypeOK
      <3>4. CASE line.kind = "boot" /\ OnBoot(line)
        <4>1. line.ok \subseteq Sensors
          BY <3>1, <3>4, LineKinds DEF Sensors
        <4>. QED
          BY <3>1, <3>2, <3>4, <4>1 DEF OnBoot, TypeOK
      <3>5. CASE line.kind = "uptime" /\ OnUptime(line)
        BY <3>1, <3>2, <3>5, LineKinds DEF OnUptime, TypeOK
      <3>6. CASE UNCHANGED <<cache, present, uptime, told>>
        BY <3>1, <3>2, <3>6 DEF TypeOK
      <3>. QED
        BY <3>2, <3>3, <3>4, <3>5, <3>6
    <2>10. CASE UNCHANGED vars
      BY <2>10 DEF vars, TypeOK
    <2>. QED
      BY <2>2, <2>3, <2>4, <2>5, <2>6, <2>7, <2>8, <2>9, <2>10 DEF Next, Reader, Ros
  <1>. QED
    BY <1>1, <1>2, PTL DEF Spec

\* No usable reading, queued or cached, is younger than the last usable one
\* framed of its sensor.
THEOREM FreshInvariant == Spec => []FreshInv
  <1>. USE Bounds
  <1>1. Init => FreshInv
    BY DEF Init, FreshInv, NoEntry
  <1>2. TypeOK /\ FreshInv /\ [Next]_vars => FreshInv'
    <2>. SUFFICES ASSUME TypeOK, FreshInv, [Next]_vars PROVE FreshInv'
      OBVIOUS
    <2>. USE DEF nodeVars, mcuVars
    <2>1. /\ DOMAIN rx = 1 .. Len(rx) /\ Len(rx) \in Nat
          /\ \A i \in DOMAIN rx : rx[i] \in Line /\ rx[i].age \in Ages
          /\ \A i \in DOMAIN rx : rx[i].kind = "reading" => rx[i].src \in Sensors
      BY QueuedLines, LineKinds DEF TypeOK
    <2>2. ASSUME NEW line \in Line, Receive(line), latest' = latest, line.kind # "reading"
          PROVE  FreshInv'
      <3>1. \A i \in DOMAIN rx' :
              rx'[i].kind # "reading" \/ \E j \in DOMAIN rx : rx'[i] = rx[j]
        BY <2>2, ReceiveEffect
      <3>. QED
        BY <2>2, <3>1 DEF FreshInv, Receive
    <2>3. CASE SendBoot \/ SendUptime
      BY <2>2, <2>3, SentLines DEF SendBoot, SendUptime, FreshInv
    <2>4. CASE SendReading
      <3>1. PICK s \in works, g \in Grades :
              /\ Receive([kind |-> "reading", src |-> s, grade |-> g, age |-> 0])
              /\ latest' = IF g = "usable" /\ ~partial THEN [latest EXCEPT ![s] = 0] ELSE latest
        BY <2>4 DEF SendReading
      <3>. DEFINE line == [kind |-> "reading", src |-> s, grade |-> g, age |-> 0]
      <3>2. s \in Sensors /\ line \in Line
        BY SentLines DEF TypeOK
      <3>3. \A q \in Sensors : latest'[q] \in Nat /\ latest'[q] <= latest[q]
        BY <3>1, <3>2 DEF TypeOK, Ages
      <3>4. ~partial /\ g = "usable" => latest'[s] = 0
        BY <3>1, <3>2 DEF TypeOK
      <3>5. \A i \in DOMAIN rx' :
              \/ rx'[i] = line /\ ~partial
              \/ rx'[i].kind = "garbage"
              \/ \E d \in {0, 1} : i + d \in DOMAIN rx /\ rx'[i] = rx[i + d]
        BY <3>1, <3>2, ReceiveEffect
      <3>6. ASSUME NEW i \in DOMAIN rx', rx'[i].kind = "reading", rx'[i].grade = "usable"
            PROVE  latest'[rx'[i].src] <= rx'[i].age
        <4>1. CASE rx'[i] = line /\ ~partial
          BY <3>4, <3>6, <4>1
        <4>2. CASE \E j \in DOMAIN rx : rx'[i] = rx[j]
          <5>1. PICK j \in DOMAIN rx : rx'[i] = rx[j]
            BY <4>2
          <5>2. /\ latest[rx[j].src] <= rx[j].age /\ rx[j].src \in Sensors
                /\ rx[j].age \in Nat /\ latest[rx[j].src] \in Nat
            BY <3>6, <5>1, <2>1 DEF FreshInv, TypeOK, Ages
          <5>. QED
            BY <3>3, <5>1, <5>2
        <4>. QED
          BY <3>5, <3>6, <4>1, <4>2
      <3>7. \A q \in Sensors : cache'[q].grade = "usable" => latest'[q] <= cache'[q].age
        <4>1. cache' = cache /\ \A q \in Sensors : cache[q].age \in Nat /\ latest[q] \in Nat
          BY <3>1 DEF Receive, TypeOK, Entry, Ages
        <4>. QED
          BY <3>3, <4>1 DEF FreshInv
      <3>. QED
        BY <3>6, <3>7 DEF FreshInv
    <2>5. CASE Elapse
      <3>1. DOMAIN rx' = DOMAIN rx /\ \A i \in DOMAIN rx : rx'[i] = [rx[i] EXCEPT !.age = Ager(@)]
        BY <2>5, AgedQueue DEF Elapse, TypeOK
      <3>2. \A q \in Sensors : latest[q] \in Ages /\ latest'[q] = Ager(latest[q])
        BY <2>5 DEF Elapse, TypeOK
      <3>3. ASSUME NEW i \in DOMAIN rx', rx'[i].kind = "reading", rx'[i].grade = "usable"
            PROVE  latest'[rx'[i].src] <= rx'[i].age
        <4>1. rx[i] \in Line /\ rx'[i] = [rx[i] EXCEPT !.age = Ager(@)]
          BY <3>1, <2>1
        <4>2. /\ rx'[i].kind = rx[i].kind /\ rx'[i].age = Ager(rx[i].age)
              /\ rx[i].kind = "reading" => rx'[i].src = rx[i].src /\ rx'[i].grade = rx[i].grade
          BY <4>1, AgedLine
        <4>3. /\ latest[rx[i].src] <= rx[i].age /\ rx[i].age \in Ages /\ rx[i].src \in Sensors
              /\ rx'[i].src = rx[i].src
          BY <3>1, <3>3, <4>2, <2>1 DEF FreshInv
        <4>. QED
          BY <3>2, <4>2, <4>3, AgerKeepsOrder
      <3>4. \A q \in Sensors : /\ cache[q].age \in Ages /\ cache'[q].age = Ager(cache[q].age)
                               /\ cache'[q].grade = cache[q].grade
        BY <2>5 DEF Elapse, Aged, TypeOK, Entry
      <3>5. \A q \in Sensors : cache'[q].grade = "usable" => latest'[q] <= cache'[q].age
        BY <3>2, <3>4, AgerKeepsOrder DEF FreshInv
      <3>. QED
        BY <3>3, <3>5 DEF FreshInv
    <2>6. CASE HandleLine
      <3>. DEFINE line == Head(rx)
      <3>1. /\ line = rx[1] /\ 1 \in DOMAIN rx /\ line \in Line
            /\ \A i \in DOMAIN rx' : i + 1 \in DOMAIN rx /\ rx'[i] = rx[i + 1]
        BY <2>6, TakenLine
      <3>2. latest' = latest /\ (cache' = cache \/ (line.kind = "reading" /\ OnReading(line)))
        <4>1. /\ latest' = latest
              /\ \/ line.kind = "reading" /\ OnReading(line)
                 \/ OnBoot(line) \/ OnUptime(line) \/ cache' = cache
          BY <2>6 DEF HandleLine
        <4>. HIDE DEF line
        <4>. QED
          BY <4>1 DEF OnBoot, OnUptime
      <3>. HIDE DEF line
      <3>3. \A i \in DOMAIN rx' :
              rx'[i].kind = "reading" /\ rx'[i].grade = "usable" => latest'[rx'[i].src] <= rx'[i].age
        BY <3>1, <3>2 DEF FreshInv
      <3>4. \A q \in Sensors : cache'[q].grade = "usable" => latest'[q] <= cache'[q].age
        <4>1. CASE cache' = cache
          BY <3>2, <4>1 DEF FreshInv
        <4>2. CASE line.kind = "reading" /\ OnReading(line) /\ line.grade # "malformed"
          <5>1. line.src \in Sensors /\ cache' = [cache EXCEPT ![line.src] = Stamp(line)]
            BY <3>1, <4>2, LineKinds DEF OnReading
          <5>2. line.grade = "usable" => latest[line.src] <= line.age
            BY <3>1, <4>2 DEF FreshInv
          <5>. QED
            BY <3>2, <5>1, <5>2 DEF FreshInv, Stamp, TypeOK
        <4>. QED
          BY <3>2, <4>1, <4>2 DEF OnReading
      <3>. QED
        BY <3>3, <3>4 DEF FreshInv
    <2>7. CASE PortOpens \/ PortCloses \/ McuReboots \/ DrainBegins \/ DrainEnds \/ UNCHANGED vars
      BY <2>7 DEF PortOpens, PortCloses, McuReboots, DrainBegins, DrainEnds, vars, FreshInv
    <2>. QED
      BY <2>3, <2>4, <2>5, <2>6, <2>7 DEF Next, Reader, Ros
  <1>. QED
    BY <1>1, <1>2, TypeCorrect, PTL DEF Spec

\* A reading the snapshot calls valid was framed within the stale limit.
THEOREM SnapshotsAreFresh == Spec => []SnapshotIsFresh
  <1>1. TypeOK /\ FreshInv => SnapshotIsFresh
    BY Bounds DEF TypeOK, FreshInv, SnapshotIsFresh, Valid, Entry, Ages
  <1>. QED
    BY <1>1, TypeCorrect, FreshInvariant, PTL

\* Behind the boot line of the present run only lines of that run wait, so once
\* it is handled only working sensors are marked present.
THEOREM PresenceInvariant == Spec => []PresenceInv
  <1>. USE Bounds
  <1>1. Init => PresenceInv
    BY DEF Init, PresenceInv
  <1>2. TypeOK /\ PresenceInv /\ [Next]_vars => PresenceInv'
    <2>. SUFFICES ASSUME TypeOK, PresenceInv, [Next]_vars PROVE PresenceInv'
      OBVIOUS
    <2>. USE DEF nodeVars, mcuVars, IsBoot, FromWorking
    <2>1. /\ DOMAIN rx = 1 .. Len(rx) /\ Len(rx) \in Nat
          /\ \A i \in DOMAIN rx : rx[i] \in Line
      BY QueuedLines DEF TypeOK
    <2>2. ASSUME NEW line \in Line, Receive(line), UNCHANGED <<run, works>>,
                 FromWorking(line),
                 line.kind = "boot" => line.run = run /\ line.ok \subseteq works
          PROVE  PresenceInv'
      <3>1. /\ DOMAIN rx' = 1 .. Len(rx') /\ Len(rx') \in Nat
            /\ \A i \in DOMAIN rx' :
                 \/ (rx'[i] = line \/ rx'[i].kind = "garbage") /\ i = Len(rx')
                 \/ \E d \in {0, 1} : /\ i + d \in DOMAIN rx /\ rx'[i] = rx[i + d]
                                      /\ Len(rx') = Len(rx) + 1 - d
        BY <2>2, ReceiveEffect
      <3>2. run \in Nat /\ UNCHANGED <<told, present>>
        BY <2>2 DEF TypeOK, Receive
      <3>3. \A i \in DOMAIN rx' : rx'[i].kind = "boot" => rx'[i].run <= run
        <4>1. \A i \in DOMAIN rx' : \/ rx'[i] = line \/ rx'[i].kind = "garbage"
                                    \/ \E j \in DOMAIN rx : rx'[i] = rx[j]
          BY <3>1
        <4>2. line.kind = "boot" => line.run <= run
          BY <2>2, <3>2
        <4>. QED
          BY <4>1, <4>2 DEF PresenceInv
      <3>4. \A i \in DOMAIN rx' : IsBoot(rx'[i]) => rx'[i].ok \subseteq works
        BY <2>2, <3>1, <3>2 DEF PresenceInv
      <3>5. ASSUME NEW i \in DOMAIN rx', NEW j \in DOMAIN rx', i < j, IsBoot(rx'[i])
            PROVE  FromWorking(rx'[j])
        <4>1. PICK d \in {0, 1} : /\ i + d \in DOMAIN rx /\ rx'[i] = rx[i + d]
                                  /\ Len(rx') = Len(rx) + 1 - d
          <5>1. i # Len(rx')
            <6>1. i \in 1 .. Len(rx') /\ j \in 1 .. Len(rx') /\ Len(rx') \in Nat
              BY <3>1
            <6>. QED
              BY <3>5, <6>1
          <5>. QED
            BY <3>1, <5>1
        <4>2. CASE (rx'[j] = line \/ rx'[j].kind = "garbage") /\ j = Len(rx')
          BY <2>2, <4>2
        <4>3. CASE j + d \in DOMAIN rx /\ rx'[j] = rx[j + d]
          BY <3>5, <4>1, <4>3, <2>1, <3>1 DEF PresenceInv
        <4>4. \A e \in {0, 1} : Len(rx') = Len(rx) + 1 - e => e = d
          BY <4>1, <2>1, <3>1
        <4>. QED
          BY <3>1, <4>2, <4>3, <4>4
      <3>6. told => \A i \in DOMAIN rx' : FromWorking(rx'[i])
        BY <2>2, <3>1 DEF PresenceInv
      <3>. QED
        BY <2>2, <3>2, <3>3, <3>4, <3>5, <3>6 DEF PresenceInv
    <2>3. CASE SendBoot
      <3>1. CASE ~open /\ UNCHANGED <<open, partial, rx, nodeVars, told>>
        BY <2>3, <3>1 DEF SendBoot, PresenceInv
      <3>2. CASE Receive([kind |-> "boot", ok |-> works \intersect Banner, run |-> run, age |-> 0])
        BY <2>2, <2>3, <3>2, SentLines DEF SendBoot
      <3>. QED
        BY <2>3, <3>1, <3>2 DEF SendBoot
    <2>4. CASE SendReading
      <3>1. PICK s \in works, g \in Grades :
              Receive([kind |-> "reading", src |-> s, grade |-> g, age |-> 0])
        BY <2>4 DEF SendReading
      <3>2. s \in Sensors
        BY DEF TypeOK
      <3>. QED
        BY <2>2, <2>4, <3>1, <3>2, SentLines DEF SendReading
    <2>5. CASE SendUptime
      BY <2>2, <2>5, SentLines DEF SendUptime
    <2>6. CASE McuReboots
      <3>1. /\ run' = run + 1 /\ ~told' /\ rx' = rx
            /\ run \in Nat /\ \A i \in DOMAIN rx : rx[i].kind = "boot" => rx[i].run \in Nat
        BY <2>6, <2>1, LineKinds DEF McuReboots, TypeOK
      <3>2. \A i \in DOMAIN rx : rx[i].kind = "boot" => rx[i].run < run'
        BY <3>1 DEF PresenceInv
      <3>. QED
        BY <3>1, <3>2 DEF PresenceInv
    <2>7. CASE Elapse
      <3>1. DOMAIN rx' = DOMAIN rx /\ \A i \in DOMAIN rx : rx'[i] = [rx[i] EXCEPT !.age = Ager(@)]
        BY <2>7, AgedQueue DEF Elapse, TypeOK
      <3>2. \A i \in DOMAIN rx :
              /\ rx'[i].kind = rx[i].kind
              /\ rx[i].kind = "reading" => rx'[i].src = rx[i].src
              /\ rx[i].kind = "boot" => rx'[i].ok = rx[i].ok /\ rx'[i].run = rx[i].run
        BY <3>1, <2>1, AgedLine
      <3>3. UNCHANGED <<run, works, told, present>>
        BY <2>7 DEF Elapse
      <3>. QED
        BY <3>1, <3>2, <3>3 DEF PresenceInv
    <2>8. CASE HandleLine
      <3>. DEFINE line == Head(rx)
      <3>1. /\ line = rx[1] /\ 1 \in DOMAIN rx /\ line \in Line
            /\ \A i \in DOMAIN rx' : i + 1 \in DOMAIN rx /\ rx'[i] = rx[i + 1] /\ 1 < i + 1
        BY <2>8, TakenLine
      <3>2. DOMAIN rx' \subseteq Nat
        BY <2>8, TakenLine, QueuedLines
      <3>3. /\ UNCHANGED <<run, works>>
            /\ \/ line.kind = "reading" /\ OnReading(line)
               \/ line.kind = "boot" /\ OnBoot(line)
               \/ line.kind = "uptime" /\ OnUptime(line)
               \/ UNCHANGED <<cache, present, uptime, told>>
        BY <2>8 DEF HandleLine
      <3>. HIDE DEF line
      <3>4. /\ \A i \in DOMAIN rx' : rx'[i].kind = "boot" => rx'[i].run <= run
            /\ \A i \in DOMAIN rx' : IsBoot(rx'[i]) => rx'[i].ok \subseteq works
            /\ \A i, j \in DOMAIN rx' : i < j /\ IsBoot(rx'[i]) => FromWorking(rx'[j])
        BY <3>1, <3>2 DEF PresenceInv
      <3>5. told' => \A i \in DOMAIN rx' : FromWorking(rx'[i])
        <4>1. told' => told \/ IsBoot(line)
          BY <3>3 DEF OnReading, OnBoot, OnUptime
        <4>. QED
          BY <3>1, <4>1 DEF PresenceInv
      <3>6. told' => present' \subseteq works
        BY <3>1, <3>3 DEF OnReading, OnBoot, OnUptime, PresenceInv
      <3>. QED
        BY <3>3, <3>4, <3>5, <3>6 DEF PresenceInv
    <2>9. CASE PortOpens \/ PortCloses \/ DrainBegins \/ DrainEnds \/ UNCHANGED vars
      <3>1. UNCHANGED <<rx, run, works, told, present>>
        BY <2>9 DEF PortOpens, PortCloses, DrainBegins, DrainEnds, vars
      <3>. QED
        BY <3>1 DEF PresenceInv
    <2>. QED
      BY <2>3, <2>4, <2>5, <2>6, <2>7, <2>8, <2>9 DEF Next, Reader, Ros
  <1>. QED
    BY <1>1, <1>2, TypeCorrect, PTL DEF Spec

\* Once the boot line of the MCU's present run was handled, only sensors that
\* work in it are reported present.
THEOREM PresenceIsAlwaysTrue == Spec => []PresenceIsTrue
  <1>1. PresenceInv => PresenceIsTrue
    BY DEF PresenceInv, PresenceIsTrue
  <1>. QED
    BY <1>1, PresenceInvariant, PTL
=============================================================================
