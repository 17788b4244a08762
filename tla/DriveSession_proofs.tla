------------------------- MODULE DriveSession_proofs -------------------------
(***************************************************************************)
(* What drive_bridge may say of its link and of the MCU's reboots, for     *)
(* every queue size, timeout and clock.                                    *)
(***************************************************************************)
EXTENDS DriveSession, SequenceTheorems, TLAPS

\* The bounds are naturals.
LEMMA Bounds ==
    /\ RxMax \in Nat /\ RxMax > 0 /\ LinkTimeout \in Nat /\ MaxRun \in Nat /\ MaxRun > 0
    /\ ClockMod \in Nat /\ ClockMod > 0
    /\ Old \in Nat /\ Never \in Nat /\ None \in Nat
  BY SizesAssumption DEF SizesAssumption, Old, Never, None

\* Ages saturate, and keep their order.
LEMMA AgerKeepsOrder ==
    /\ \A a \in Ages : Ager(a) \in Ages
    /\ \A a \in 0 .. Never : Ager(a) \in 0 .. Never
    /\ \A a, b \in 0 .. Never : a >= b => Ager(a) >= Ager(b)
  BY Bounds DEF Ages, Ager, Old, Never

\* What a queue holds.
LEMMA QueuedFrames ==
    ASSUME NEW q \in Seq(Frames)
    PROVE  /\ Len(q) \in Nat /\ DOMAIN q = 1 .. Len(q)
           /\ \A i \in DOMAIN q : /\ q[i] \in Frames /\ q[i].age \in Ages
                                  /\ q[i].run \in Nat /\ q[i].time \in Nat
  <1>1. Len(q) \in Nat /\ DOMAIN q = 1 .. Len(q) /\ q \in [1 .. Len(q) -> Frames]
    BY LenProperties
  <1>2. \A f \in Frames : f.age \in Ages /\ f.run \in Nat /\ f.time \in Nat
    BY Bounds DEF Frames, Runs, Clocks
  <1>. QED
    BY <1>1, <1>2

\* Enqueue appends, and drops the oldest frame when the queue is full.
LEMMA EnqueueShifts ==
    ASSUME NEW q \in Seq(Frames), Len(q) <= RxMax, NEW f \in Frames
    PROVE  /\ Enqueue(q, f) \in Seq(Frames)
           /\ Len(Enqueue(q, f)) <= RxMax
           /\ \A i \in 1 .. Len(Enqueue(q, f)) :
                \/ Enqueue(q, f)[i] = f /\ i = Len(Enqueue(q, f))
                \/ \E d \in {0, 1} : /\ i + d \in 1 .. Len(q)
                                     /\ Enqueue(q, f)[i] = q[i + d]
                                     /\ Len(Enqueue(q, f)) = Len(q) + 1 - d
  <1>. DEFINE longer == Append(q, f)
              d      == IF Len(longer) > RxMax THEN 1 ELSE 0
              r      == SubSeq(longer, d + 1, Len(longer))
  <1>1. /\ longer \in Seq(Frames) /\ Len(longer) = Len(q) + 1 /\ Len(q) \in Nat
        /\ \A i \in 1 .. Len(q) : longer[i] = q[i]
        /\ longer[Len(q) + 1] = f
    BY AppendProperties
  <1>2. Enqueue(q, f) = r /\ d \in {0, 1}
    BY DEF Enqueue
  <1>3. \A i \in (d + 1) .. Len(longer) : longer[i] \in Frames
    BY <1>1, ElementOfSeq
  <1>. HIDE DEF longer, d
  <1>4. /\ r \in Seq(Frames)
        /\ Len(r) = IF d + 1 <= Len(longer) THEN Len(longer) - (d + 1) + 1 ELSE 0
        /\ \A i \in 1 .. Len(longer) - (d + 1) + 1 : r[i] = longer[(d + 1) + i - 1]
    BY <1>1, <1>2, <1>3, SubSeqProperties
  <1>. HIDE DEF r
  <1>5. Len(r) = Len(q) + 1 - d
    BY <1>1, <1>2, <1>4
  <1>6. Len(r) <= RxMax
    BY <1>1, <1>5, Bounds DEF d
  <1>7. ASSUME NEW i \in 1 .. Len(r)
        PROVE  (r[i] = f /\ i = Len(r)) \/ (i + d \in 1 .. Len(q) /\ r[i] = q[i + d])
    <2>1. r[i] = longer[i + d]
      BY <1>1, <1>2, <1>4, <1>5
    <2>2. i + d \in 1 .. Len(q) \/ (i + d = Len(q) + 1 /\ i = Len(r))
      BY <1>1, <1>2, <1>5
    <2>. QED
      BY <1>1, <2>1, <2>2
  <1>. QED
    BY <1>2, <1>4, <1>5, <1>6, <1>7

\* Waiting ages the frames of a queue and changes nothing else of them.
LEMMA AgedSequence ==
    ASSUME NEW q \in Seq(Frames)
    PROVE  /\ Aged(q) \in Seq(Frames) /\ Len(Aged(q)) = Len(q) /\ DOMAIN Aged(q) = DOMAIN q
           /\ \A i \in DOMAIN q : /\ Aged(q)[i].age = Ager(q[i].age)
                                  /\ Aged(q)[i].kind = q[i].kind
                                  /\ Aged(q)[i].run = q[i].run
                                  /\ Aged(q)[i].time = q[i].time
  <1>. DEFINE r == Aged(q)
  <1>1. q \in [1 .. Len(q) -> Frames] /\ DOMAIN q = 1 .. Len(q) /\ Len(q) \in Nat
    BY LenProperties
  <1>2. ASSUME NEW i \in DOMAIN q
        PROVE  /\ r[i] \in Frames /\ r[i].age = Ager(q[i].age) /\ r[i].kind = q[i].kind
               /\ r[i].run = q[i].run /\ r[i].time = q[i].time
    <2>1. q[i] \in Frames
      BY <1>1, <1>2
    <2>2. Ager(q[i].age) \in Ages
      BY <2>1, AgerKeepsOrder DEF Frames
    <2>. QED
      BY <1>1, <2>1, <2>2 DEF Frames, Aged
  <1>3. r \in [1 .. Len(q) -> Frames]
    BY <1>1, <1>2 DEF Aged
  <1>4. r \in Seq(Frames)
    BY <1>1, <1>3, SeqDef
  <1>. QED
    BY <1>1, <1>2, <1>3, <1>4, LenProperties

\* The frame that the reader thread adds.
LEMMA Decoded ==
    ASSUME TypeOK, NEW kind \in {"tele", "boot", "other"}
    PROVE  [kind |-> kind, run |-> run, time |-> clock, age |-> 0] \in Frames
  BY Bounds DEF TypeOK, Frames, Ages, Old

\* The histories of the two sorts of frames.
LEMMA SortsOfFrames ==
    /\ \A k \in {"tele", "boot", "other"} : Sort(k) \in Sorts
    /\ \A f \in Frames : Sort(f.kind) \in Sorts
  BY DEF Sort, Sorts, Frames

\* Every step keeps every variable in its range: _rx never holds more than
\* RX_QUEUE_MAX frames.
THEOREM TypeCorrect == Spec => []TypeOK
  <1>. USE Bounds DEF Runs, Clocks
  <1>1. Init => TypeOK
    <2>1. <<>> \in Seq(Frames) /\ Len(<<>>) = 0
      OBVIOUS
    <2>2. NoStatus \in Statuses
      BY DEF NoStatus, Statuses
    <2>3. /\ 0 \in 0 .. MaxRun /\ 0 \in 0 .. (ClockMod - 1) /\ 1 \in 1 .. MaxRun
          /\ 0 \in 0 .. (MaxRun + 1) /\ Never \in 0 .. Never /\ None \in 0 .. None
      OBVIOUS
    <2>4. 0 <= RxMax
      OBVIOUS
    <2>. QED
      BY <2>1, <2>2, <2>3, <2>4 DEF Init, TypeOK
  <1>2. TypeOK /\ [Next]_vars => TypeOK'
    <2>. SUFFICES ASSUME TypeOK, [Next]_vars PROVE TypeOK'
      OBVIOUS
    <2>. USE DEF rosVars, nodeVars, mcuVars
    <2>1. ASSUME NEW k \in {"tele", "boot", "other"}, OnSerialBytes(k)
          PROVE  rx' \in Seq(Frames) /\ Len(rx') <= RxMax /\ arrived' \in [Sorts -> 0 .. Never]
      <3>. DEFINE f == [kind |-> k, run |-> run, time |-> clock, age |-> 0]
      <3>1. f \in Frames
        BY Decoded
      <3>2. rx' = Enqueue(rx, f) /\ arrived' = [arrived EXCEPT ![Sort(k)] = 0]
        BY <2>1 DEF OnSerialBytes
      <3>. HIDE DEF f
      <3>3. arrived' \in [Sorts -> 0 .. Never]
        <4>1. arrived \in [Sorts -> 0 .. Never] /\ 0 \in 0 .. Never
          BY DEF TypeOK
        <4>. QED
          BY <3>2, <4>1, Zenon
      <3>. QED
        BY <3>1, <3>2, <3>3, EnqueueShifts DEF TypeOK
    <2>2. CASE PortOpens
      BY <2>2 DEF PortOpens, TypeOK
    <2>3. CASE PortCloses
      BY <2>3 DEF PortCloses, TypeOK
    <2>4. CASE SendBootInfo
      <3>1. OnSerialBytes("boot") /\ owes' \in BOOLEAN
        BY <2>4 DEF SendBootInfo
      <3>. QED
        BY <3>1, <2>1, <2>4 DEF SendBootInfo, OnSerialBytes, TypeOK
    <2>5. CASE SendFrame
      <3>1. PICK k \in {"tele", "other"} : OnSerialBytes(k) /\ UNCHANGED mcuVars
        BY <2>5 DEF SendFrame
      <3>. QED
        BY <3>1, <2>1 DEF OnSerialBytes, TypeOK
    <2>6. CASE BootInfoLost
      BY <2>6 DEF BootInfoLost, TypeOK
    <2>7. CASE McuReboots
      BY <2>7 DEF McuReboots, TypeOK
    <2>8. CASE Elapse
      <3>1. clock' \in Clocks
        <4>1. clock \in Nat /\ (clock + 1) % ClockMod \in 0 .. (ClockMod - 1)
          BY DEF TypeOK
        <4>. QED
          BY <2>8, <4>1 DEF Elapse
      <3>2. rx' \in Seq(Frames) /\ Len(rx') <= RxMax
        BY <2>8, AgedSequence DEF Elapse, TypeOK
      <3>3. batch' \in Seq(Frames) /\ Len(batch') <= RxMax
        BY <2>8, AgedSequence DEF Elapse, TypeOK
      <3>4. mono' \in 0 .. Never /\ arrived' \in [Sorts -> 0 .. Never]
        BY <2>8, AgerKeepsOrder DEF Elapse, TypeOK
      <3>. QED
        BY <2>8, <3>1, <3>2, <3>3, <3>4 DEF Elapse, TypeOK
    <2>9. CASE DrainRx
      BY <2>9, EmptySeq DEF DrainRx, TypeOK
    <2>10. CASE HandleFrame
      <3>. DEFINE f == Head(batch)
      <3>1. f \in Frames /\ batch' \in Seq(Frames) /\ Len(batch') <= RxMax
        BY <2>10, HeadTailProperties DEF HandleFrame, TypeOK
      <3>2. mono' \in 0 .. Never
        BY <2>10, <3>1 DEF HandleFrame, FrameAge, Frames, Ages, Old, Never
      <3>3. /\ boot' \in 0 .. MaxRun /\ told' \in 0 .. MaxRun /\ uptime' \in Clocks
            /\ reboots' \in 0 .. (MaxRun + 1) /\ pending' \in 0 .. None
        <4>1. f.run \in Runs /\ f.time \in Clocks
          BY <3>1 DEF Frames
        <4>. HIDE DEF f
        <4>2. CASE OnTelemetry(f)
          BY <4>1, <4>2 DEF OnTelemetry, TypeOK, None
        <4>3. CASE OnBootInfo(f)
          BY <4>1, <4>3 DEF OnBootInfo, TypeOK
        <4>4. CASE UNCHANGED <<boot, uptime, reboots, pending, told>>
          BY <4>4 DEF TypeOK
        <4>. QED
          BY <2>10, <4>2, <4>3, <4>4 DEF HandleFrame, f
      <3>. QED
        BY <2>10, <3>1, <3>2, <3>3 DEF HandleFrame, TypeOK
    <2>11. CASE PublishTest
      <3>1. /\ LinkOk \in BOOLEAN /\ Cached \in 0 .. MaxRun
            /\ Recent("tele") \in BOOLEAN /\ Recent("other") \in BOOLEAN
        BY DEF LinkOk, Cached, Recent, None, TypeOK
      <3>2. [linkOk |-> LinkOk, boot |-> Cached, tele |-> Recent("tele"), other |-> Recent("other")]
              \in Statuses
        BY <3>1 DEF Statuses
      <3>. QED
        BY <2>11, <3>2 DEF PublishTest, TypeOK
    <2>12. CASE PublishFill
      <3>1. NoStatus \in Statuses
        BY DEF NoStatus, Statuses
      <3>2. status' \in Statuses
        BY <2>12 DEF PublishFill, TypeOK, Statuses
      <3>3. pending' \in 0 .. None
        BY <2>12, SMTT(30) DEF PublishFill, TypeOK, None
      <3>. QED
        BY <2>12, <3>1, <3>2, <3>3 DEF PublishFill, TypeOK
    <2>13. CASE UNCHANGED vars
      BY <2>13 DEF vars, TypeOK
    <2>. QED
      BY <2>2, <2>3, <2>4, <2>5, <2>6, <2>7, <2>8, <2>9, <2>10, <2>11, <2>12, <2>13
         DEF Next, Reader, Ros
  <1>. QED
    BY <1>1, <1>2, PTL DEF Spec

\* No queued frame is younger than the last one decoded of its sort, and no age the
\* node keeps younger than both.
THEOREM FreshInvariant == Spec => []FreshInv
  <1>. USE Bounds
  <1>1. Init => FreshInv
    BY DEF Init, FreshInv, NoStatus, Sorts
  <1>2. TypeOK /\ FreshInv /\ [Next]_vars => FreshInv'
    <2>. SUFFICES ASSUME TypeOK, FreshInv, [Next]_vars PROVE FreshInv'
      OBVIOUS
    <2>. USE DEF rosVars, nodeVars, mcuVars
    <2>1. /\ Len(rx) \in Nat /\ DOMAIN rx = 1 .. Len(rx)
          /\ Len(batch) \in Nat /\ DOMAIN batch = 1 .. Len(batch)
          /\ \A i \in DOMAIN rx : rx[i] \in Frames /\ rx[i].age \in Ages
          /\ \A i \in DOMAIN batch : batch[i] \in Frames /\ batch[i].age \in Ages
          /\ \A i \in DOMAIN rx : Sort(rx[i].kind) \in Sorts
          /\ \A i \in DOMAIN batch : Sort(batch[i].kind) \in Sorts
          /\ \A s \in Sorts : arrived[s] \in 0 .. Never
      BY QueuedFrames, SortsOfFrames DEF TypeOK
    <2>2. ASSUME NEW k \in {"tele", "boot", "other"}, OnSerialBytes(k) PROVE FreshInv'
      <3>. DEFINE f == [kind |-> k, run |-> run, time |-> clock, age |-> 0]
      <3>1. /\ rx' = Enqueue(rx, f) /\ UNCHANGED <<batch, mono, msg, status>>
            /\ arrived' = [arrived EXCEPT ![Sort(k)] = 0]
        BY <2>2 DEF OnSerialBytes
      <3>2. f \in Frames
        BY Decoded
      <3>. HIDE DEF f
      <3>3. rx' \in Seq(Frames)
        BY <3>1, <3>2, EnqueueShifts DEF TypeOK
      <3>4. /\ DOMAIN rx' = 1 .. Len(rx')
            /\ \A i \in DOMAIN rx' : rx'[i] \in Frames /\ rx'[i].age \in Ages
        BY <3>3, QueuedFrames
      <3>5. /\ Sort(k) \in Sorts /\ arrived'[Sort(k)] = 0
            /\ \A s \in Sorts : arrived'[s] \in 0 .. Never /\ arrived'[s] <= arrived[s]
        BY <3>1, <2>1, SortsOfFrames, SMTT(30) DEF TypeOK, Never
      <3>6. ASSUME NEW i \in DOMAIN rx' PROVE rx'[i].age >= arrived'[Sort(rx'[i].kind)]
        <4>1. CASE rx'[i] = f
          BY <4>1, <3>2, <3>5 DEF f
        <4>2. ASSUME NEW j \in DOMAIN rx, rx'[i] = rx[j]
              PROVE  rx'[i].age >= arrived'[Sort(rx'[i].kind)]
          <5>1. rx[j].age >= arrived[Sort(rx[j].kind)]
            BY DEF FreshInv
          <5>. QED
            BY <5>1, <4>2, <3>5, <2>1 DEF Ages
        <4>3. rx'[i] = f \/ \E j \in DOMAIN rx : rx'[i] = rx[j]
          <5>1. i \in 1 .. Len(Enqueue(rx, f)) /\ rx' = Enqueue(rx, f)
            BY <3>1, <3>4
          <5>2. \/ Enqueue(rx, f)[i] = f
                \/ \E d \in {0, 1} : i + d \in 1 .. Len(rx) /\ Enqueue(rx, f)[i] = rx[i + d]
            BY <3>2, <5>1, EnqueueShifts DEF TypeOK
          <5>. QED
            BY <5>1, <5>2, <2>1
        <4>. QED
          BY <4>1, <4>2, <4>3
      <3>7. \A i \in DOMAIN batch : batch[i].age >= arrived'[Sort(batch[i].kind)]
        BY <3>5, <2>1 DEF FreshInv, Ages
      <3>8. \E s \in Sorts : mono >= arrived'[s]
        BY <3>5, <2>1 DEF FreshInv, TypeOK
      <3>. QED
        BY <3>1, <3>6, <3>7, <3>8 DEF FreshInv
    <2>3. CASE SendBootInfo \/ SendFrame
      BY <2>2, <2>3 DEF SendBootInfo, SendFrame
    <2>4. CASE Elapse
      <3>1. /\ DOMAIN rx' = DOMAIN rx
            /\ \A i \in DOMAIN rx : /\ rx'[i].age = Ager(rx[i].age)
                                    /\ rx'[i].kind = rx[i].kind
        BY <2>4, AgedSequence DEF Elapse, TypeOK
      <3>2. /\ DOMAIN batch' = DOMAIN batch
            /\ \A i \in DOMAIN batch : /\ batch'[i].age = Ager(batch[i].age)
                                       /\ batch'[i].kind = batch[i].kind
        BY <2>4, AgedSequence DEF Elapse, TypeOK
      <3>3. /\ mono' = Ager(mono) /\ UNCHANGED <<msg, status>>
            /\ \A s \in Sorts : arrived'[s] = Ager(arrived[s])
        BY <2>4 DEF Elapse
      <3>4. \A a \in Ages : a \in 0 .. Never
        BY DEF Ages, Old, Never
      <3>5. ASSUME NEW q \in {rx, batch}, NEW i \in DOMAIN q,
                   NEW r, DOMAIN r = DOMAIN q, r[i].age = Ager(q[i].age), r[i].kind = q[i].kind
            PROVE  r[i].age >= arrived'[Sort(r[i].kind)]
        <4>1. q[i].age >= arrived[Sort(q[i].kind)]
          BY DEF FreshInv
        <4>2. q[i].age \in 0 .. Never /\ arrived[Sort(q[i].kind)] \in 0 .. Never
          BY <2>1, <3>4
        <4>3. arrived'[Sort(r[i].kind)] = Ager(arrived[Sort(q[i].kind)])
          BY <2>1, <3>3, <3>5
        <4>. QED
          BY <3>5, <4>1, <4>2, <4>3, AgerKeepsOrder
      <3>6. \A i \in DOMAIN rx' : rx'[i].age >= arrived'[Sort(rx'[i].kind)]
        BY <3>1, <3>5
      <3>7. \A i \in DOMAIN batch' : batch'[i].age >= arrived'[Sort(batch'[i].kind)]
        BY <3>2, <3>5
      <3>8. \E s \in Sorts : mono' >= arrived'[s]
        BY <3>3, <2>1, AgerKeepsOrder DEF FreshInv, TypeOK
      <3>. QED
        BY <3>3, <3>6, <3>7, <3>8 DEF FreshInv
    <2>5. CASE DrainRx
      BY <2>5 DEF DrainRx, FreshInv
    <2>6. CASE HandleFrame
      <3>. DEFINE f == Head(batch)
      <3>1. /\ batch # <<>> /\ batch' = Tail(batch) /\ mono' = f.age
            /\ UNCHANGED <<rx, arrived, msg, status>>
        BY <2>6 DEF HandleFrame, FrameAge
      <3>2. /\ batch' \in Seq(Frames) /\ Len(batch') = Len(batch) - 1
            /\ \A i \in 1 .. Len(batch') : batch'[i] = batch[i + 1]
        BY <3>1, HeadTailProperties DEF TypeOK
      <3>3. f = batch[1] /\ 1 \in DOMAIN batch
        BY <3>1, <2>1 DEF TypeOK
      <3>4. DOMAIN batch' = 1 .. Len(batch')
        BY <3>2, LenProperties
      <3>. HIDE DEF f
      <3>5. \A i \in DOMAIN batch' : i + 1 \in DOMAIN batch
        BY <3>2, <3>4, <2>1
      <3>. QED
        BY <3>1, <3>2, <3>3, <3>4, <3>5, <2>1 DEF FreshInv
    <2>7. CASE PublishTest
      <3>. DEFINE m == [linkOk |-> LinkOk, boot |-> Cached,
                        tele |-> Recent("tele"), other |-> Recent("other")]
      <3>1. m.linkOk => m.tele \/ m.other
        BY <2>1 DEF LinkOk, Recent, FreshInv, TypeOK, Sorts
      <3>2. (msg' = m /\ status' = status) \/ (status' = m /\ msg' = msg)
        BY <2>7 DEF PublishTest
      <3>. HIDE DEF m
      <3>. QED
        BY <3>1, <3>2, <2>7 DEF PublishTest, FreshInv
    <2>8. CASE PublishFill
      <3>1. msg' = NoStatus /\ (status' = status \/ status' = [msg EXCEPT !.boot = boot])
        BY <2>8 DEF PublishFill
      <3>2. msg \in Statuses
        BY DEF TypeOK
      <3>3. /\ status'.linkOk => status'.tele \/ status'.other
            /\ msg'.linkOk => msg'.tele \/ msg'.other
        BY <3>1, <3>2 DEF FreshInv, Statuses, NoStatus
      <3>. QED
        BY <3>3, <2>8 DEF PublishFill, FreshInv
    <2>9. CASE PortOpens \/ PortCloses \/ BootInfoLost \/ McuReboots \/ UNCHANGED vars
      BY <2>9 DEF PortOpens, PortCloses, BootInfoLost, McuReboots, vars, FreshInv
    <2>. QED
      BY <2>3, <2>4, <2>5, <2>6, <2>7, <2>8, <2>9 DEF Next, Reader, Ros
  <1>. QED
    BY <1>1, <1>2, TypeCorrect, PTL DEF Spec

\* A status that reports link_ok was made within link_timeout_s of telemetry, or of a
\* frame of another kind.
THEOREM LinkOkIsAlwaysFresh == Spec => []LinkOkIsFresh
  <1>1. FreshInv => LinkOkIsFresh
    BY DEF FreshInv, LinkOkIsFresh
  <1>. QED
    BY <1>1, FreshInvariant, PTL

\* The frames wait in the order in which the MCU sent them: what Enqueue drops
\* is the oldest, and what waits in the batch is older than what waits in _rx.
THEOREM OrderInvariant == ASSUME ~Wraps PROVE Spec => []OrderInv
  <1>. USE Bounds
  <1>1. Init => OrderInv
    BY DEF Init, OrderInv, InOrder
  <1>2. TypeOK /\ OrderInv /\ [Next]_vars => OrderInv'
    <2>. SUFFICES ASSUME TypeOK, OrderInv, [Next]_vars PROVE OrderInv'
      OBVIOUS
    <2>. USE DEF rosVars, nodeVars, mcuVars
    <2>1. /\ Len(rx) \in Nat /\ DOMAIN rx = 1 .. Len(rx)
          /\ Len(batch) \in Nat /\ DOMAIN batch = 1 .. Len(batch)
          /\ \A i \in DOMAIN rx : rx[i].run \in Nat /\ rx[i].time \in Nat
          /\ \A i \in DOMAIN batch : batch[i].run \in Nat /\ batch[i].time \in Nat
          /\ run \in Nat /\ clock \in Nat
      BY QueuedFrames DEF TypeOK, Runs, Clocks
    <2>2. ASSUME NEW k \in {"tele", "boot", "other"}, OnSerialBytes(k), run' = run, clock' = clock
          PROVE  OrderInv'
      <3>. DEFINE f == [kind |-> k, run |-> run, time |-> clock, age |-> 0]
      <3>1. rx' = Enqueue(rx, f) /\ batch' = batch
        BY <2>2 DEF OnSerialBytes
      <3>2. f \in Frames /\ f.run = run /\ f.time = clock
        BY Decoded
      <3>. HIDE DEF f
      <3>3. rx' \in Seq(Frames) /\ DOMAIN rx' = 1 .. Len(rx') /\ Len(rx') \in Nat
        BY <3>1, <3>2, EnqueueShifts, LenProperties DEF TypeOK
      <3>4. \A i \in DOMAIN rx' :
              \/ rx'[i] = f /\ i = Len(rx')
              \/ \E d \in {0, 1} : /\ i + d \in DOMAIN rx /\ rx'[i] = rx[i + d]
                                   /\ Len(rx') = Len(rx) + 1 - d
        BY <3>1, <3>2, <3>3, <2>1, EnqueueShifts DEF TypeOK
      <3>5. Now' = Now
        BY <2>2 DEF Now
      <3>6. \A i \in DOMAIN rx : NotAfter(rx[i].run, rx[i].time, f)
        BY <3>2 DEF OrderInv, NotAfter, Now
      <3>7. NotAfter(f.run, f.time, f) /\ NotAfter(f.run, f.time, Now)
        BY <3>2, <2>1 DEF NotAfter, Now
      <3>8. \A i \in DOMAIN batch : NotAfter(batch[i].run, batch[i].time, f)
        BY <3>2 DEF OrderInv, NotAfter, Now
      <3>9. InOrder(rx')
        <4>. SUFFICES ASSUME NEW i \in DOMAIN rx', NEW j \in DOMAIN rx', i <= j
                      PROVE  NotAfter(rx'[i].run, rx'[i].time, rx'[j])
          BY DEF InOrder
        <4>1. CASE rx'[j] = f
          BY <4>1, <3>4, <3>6, <3>7
        <4>2. CASE rx'[j] # f
          <5>1. PICK d \in {0, 1} : /\ j + d \in DOMAIN rx /\ rx'[j] = rx[j + d]
                                    /\ Len(rx') = Len(rx) + 1 - d
            BY <4>2, <3>4
          <5>2. i < Len(rx')
            BY <5>1, <3>3, <2>1
          <5>3. i + d \in DOMAIN rx /\ rx'[i] = rx[i + d]
            BY <5>1, <5>2, <3>3, <3>4, <2>1
          <5>. QED
            BY <5>1, <5>3, <3>3 DEF OrderInv, InOrder
        <4>. QED
          BY <4>1, <4>2
      <3>10. \A i \in DOMAIN rx' : NotAfter(rx'[i].run, rx'[i].time, Now)
        BY <3>4, <3>7 DEF OrderInv
      <3>11. \A i \in DOMAIN batch, j \in DOMAIN rx' : NotAfter(batch[i].run, batch[i].time, rx'[j])
        BY <3>4, <3>8 DEF OrderInv
      <3>. QED
        BY <3>1, <3>5, <3>9, <3>10, <3>11 DEF OrderInv
    <2>3. CASE SendBootInfo \/ SendFrame
      BY <2>2, <2>3 DEF SendBootInfo, SendFrame
    <2>4. CASE McuReboots
      <3>1. UNCHANGED <<rx, batch>> /\ run' = run + 1
        BY <2>4 DEF McuReboots
      <3>2. \A r, t \in Nat : NotAfter(r, t, Now) => NotAfter(r, t, Now')
        BY <3>1, <2>1 DEF NotAfter, Now
      <3>. QED
        BY <3>1, <3>2, <2>1 DEF OrderInv
    <2>5. CASE Elapse
      <3>1. /\ DOMAIN rx' = DOMAIN rx
            /\ \A i \in DOMAIN rx : rx'[i].run = rx[i].run /\ rx'[i].time = rx[i].time
        BY <2>5, AgedSequence DEF Elapse, TypeOK
      <3>2. /\ DOMAIN batch' = DOMAIN batch
            /\ \A i \in DOMAIN batch : batch'[i].run = batch[i].run /\ batch'[i].time = batch[i].time
        BY <2>5, AgedSequence DEF Elapse, TypeOK
      <3>3. run' = run /\ clock' = clock + 1
        <4>1. clock + 1 < ClockMod /\ clock' = (clock + 1) % ClockMod /\ run' = run
          BY <2>5 DEF Elapse
        <4>2. (clock + 1) % ClockMod = clock + 1
          BY <4>1, <2>1
        <4>. QED
          BY <4>1, <4>2
      <3>4. \A r, t \in Nat : NotAfter(r, t, Now) => NotAfter(r, t, Now')
        BY <3>3, <2>1 DEF NotAfter, Now
      <3>. QED
        BY <3>1, <3>2, <3>4, <2>1, SMTT(30) DEF OrderInv, InOrder, NotAfter
    <2>6. CASE DrainRx
      BY <2>6 DEF DrainRx, OrderInv, InOrder, Now
    <2>7. CASE HandleFrame
      <3>1. batch # <<>> /\ batch' = Tail(batch) /\ UNCHANGED <<rx, run, clock>>
        BY <2>7 DEF HandleFrame
      <3>2. /\ batch' \in Seq(Frames) /\ Len(batch') = Len(batch) - 1
            /\ \A i \in 1 .. Len(batch') : batch'[i] = batch[i + 1]
        BY <3>1, HeadTailProperties DEF TypeOK
      <3>3. DOMAIN batch' = 1 .. Len(batch')
        BY <3>2, LenProperties
      <3>4. \A i \in DOMAIN batch' : i + 1 \in DOMAIN batch /\ batch'[i] = batch[i + 1]
        BY <3>2, <3>3, <2>1
      <3>5. InOrder(batch')
        BY <3>3, <3>4, <2>1 DEF OrderInv, InOrder
      <3>. QED
        BY <3>1, <3>4, <3>5 DEF OrderInv, Now
    <2>8. CASE PortOpens \/ PortCloses \/ BootInfoLost \/ UNCHANGED vars
      BY <2>8 DEF PortOpens, PortCloses, BootInfoLost, vars, OrderInv, Now
    <2>9. CASE PublishTest \/ PublishFill
      BY <2>9 DEF PublishTest, PublishFill, OrderInv, Now
    <2>. QED
      BY <2>3, <2>4, <2>5, <2>6, <2>7, <2>8, <2>9 DEF Next, Reader, Ros
  <1>. QED
    BY <1>1, <1>2, TypeCorrect, PTL DEF Spec

\* The reboots counted are fewer than the runs up to the one that the last
\* telemetry handled came from, which precedes every frame still queued.
THEOREM RebootInvariant == ASSUME ~Wraps PROVE Spec => []RebootInv
  <1>. USE Bounds
  <1>1. Init => RebootInv
    BY DEF Init, RebootInv, NotAfter, Now, Clocks
  <1>2. TypeOK /\ OrderInv /\ RebootInv /\ [Next]_vars => RebootInv'
    <2>. SUFFICES ASSUME TypeOK, OrderInv, RebootInv, [Next]_vars PROVE RebootInv'
      OBVIOUS
    <2>. USE DEF rosVars, nodeVars, mcuVars
    <2>1. /\ Len(rx) \in Nat /\ DOMAIN rx = 1 .. Len(rx)
          /\ Len(batch) \in Nat /\ DOMAIN batch = 1 .. Len(batch)
          /\ \A i \in DOMAIN rx : rx[i].run \in Nat /\ rx[i].time \in Nat
          /\ \A i \in DOMAIN batch : batch[i].run \in Nat /\ batch[i].time \in Nat
          /\ run \in Nat /\ clock \in Nat /\ uptime \in Nat /\ reboots \in Nat
      BY QueuedFrames DEF TypeOK, Runs, Clocks
    <2>2. PICK last \in 1 .. run :
             /\ reboots < last
             /\ NotAfter(last, uptime, Now)
             /\ \A i \in DOMAIN batch : NotAfter(last, uptime, batch[i])
             /\ \A j \in DOMAIN rx : NotAfter(last, uptime, rx[j])
      BY DEF RebootInv
    <2>3. last \in Nat /\ last \in 1 .. run
      BY <2>1, <2>2
    <2>4. ASSUME UNCHANGED <<rx, batch, run, clock, uptime, reboots>> PROVE RebootInv'
      BY <2>4 DEF RebootInv, Now
    <2>5. ASSUME NEW k \in {"tele", "boot", "other"}, OnSerialBytes(k), run' = run, clock' = clock
          PROVE  RebootInv'
      <3>. DEFINE f == [kind |-> k, run |-> run, time |-> clock, age |-> 0]
      <3>1. rx' = Enqueue(rx, f) /\ UNCHANGED <<batch, uptime, reboots>>
        BY <2>5 DEF OnSerialBytes
      <3>2. f \in Frames /\ f.run = run /\ f.time = clock
        BY Decoded
      <3>3. NotAfter(last, uptime, f)
        BY <2>2, <3>2 DEF NotAfter, Now
      <3>. HIDE DEF f
      <3>4. rx' \in Seq(Frames) /\ DOMAIN rx' = 1 .. Len(rx')
        BY <3>1, <3>2, EnqueueShifts, LenProperties DEF TypeOK
      <3>5. \A j \in DOMAIN rx' :
              \/ rx'[j] = f /\ j = Len(rx')
              \/ \E d \in {0, 1} : /\ j + d \in DOMAIN rx /\ rx'[j] = rx[j + d]
                                   /\ Len(rx') = Len(rx) + 1 - d
        BY <3>1, <3>2, <3>4, <2>1, EnqueueShifts DEF TypeOK
      <3>6. \A j \in DOMAIN rx' : NotAfter(last, uptime, rx'[j])
        BY <3>3, <3>5, <2>2
      <3>. QED
        BY <3>1, <3>6, <2>2, <2>5 DEF RebootInv, Now
    <2>6. CASE SendBootInfo \/ SendFrame
      BY <2>5, <2>6 DEF SendBootInfo, SendFrame
    <2>7. CASE McuReboots
      <3>1. UNCHANGED <<rx, batch, uptime, reboots>> /\ run' = run + 1
        BY <2>7 DEF McuReboots
      <3>2. last \in 1 .. run' /\ NotAfter(last, uptime, Now')
        BY <3>1, <2>1, <2>3 DEF NotAfter, Now
      <3>. QED
        BY <3>1, <3>2, <2>2 DEF RebootInv
    <2>8. CASE Elapse
      <3>1. /\ DOMAIN rx' = DOMAIN rx
            /\ \A i \in DOMAIN rx : rx'[i].run = rx[i].run /\ rx'[i].time = rx[i].time
        BY <2>8, AgedSequence DEF Elapse, TypeOK
      <3>2. /\ DOMAIN batch' = DOMAIN batch
            /\ \A i \in DOMAIN batch : batch'[i].run = batch[i].run /\ batch'[i].time = batch[i].time
        BY <2>8, AgedSequence DEF Elapse, TypeOK
      <3>3. run' = run /\ uptime' = uptime /\ reboots' = reboots /\ clock' = clock + 1
        <4>1. /\ clock + 1 < ClockMod /\ clock' = (clock + 1) % ClockMod
              /\ run' = run /\ uptime' = uptime /\ reboots' = reboots
          BY <2>8 DEF Elapse
        <4>2. (clock + 1) % ClockMod = clock + 1
          BY <4>1, <2>1
        <4>. QED
          BY <4>1, <4>2
      <3>4. NotAfter(last, uptime, Now')
        BY <3>3, <2>1, <2>2, <2>3 DEF NotAfter, Now
      <3>. QED
        BY <3>1, <3>2, <3>3, <3>4, <2>2 DEF RebootInv, NotAfter
    <2>9. CASE DrainRx
      BY <2>9, <2>2 DEF DrainRx, RebootInv, Now
    <2>10. CASE HandleFrame
      <3>. DEFINE f == Head(batch)
      <3>1. batch # <<>> /\ batch' = Tail(batch) /\ UNCHANGED <<rx, run, clock>>
        BY <2>10 DEF HandleFrame
      <3>2. /\ batch' \in Seq(Frames) /\ Len(batch') = Len(batch) - 1
            /\ \A i \in 1 .. Len(batch') : batch'[i] = batch[i + 1]
        BY <3>1, HeadTailProperties DEF TypeOK
      <3>3. \A i \in DOMAIN batch' : i + 1 \in DOMAIN batch /\ batch'[i] = batch[i + 1]
        BY <3>2, LenProperties, <2>1
      <3>4. 1 \in DOMAIN batch /\ f = batch[1]
        BY <3>1, <2>1 DEF TypeOK
      <3>. HIDE DEF f
      <3>5. CASE UNCHANGED <<uptime, reboots>>
        BY <3>1, <3>3, <3>5, <2>2 DEF RebootInv, Now
      <3>6. CASE OnTelemetry(f)
        <4>1. f.run \in Nat /\ f.time \in Nat /\ NotAfter(last, uptime, f) /\ NotAfter(f.run, f.time, Now)
          BY <3>4, <2>1, <2>2 DEF OrderInv
        <4>2. f.run \in 1 .. run
          BY <4>1, <2>1, <2>3 DEF NotAfter, Now
        <4>3. uptime' = f.time /\ reboots' < f.run
          BY <3>6, <4>1, <2>1, <2>2, <2>3 DEF OnTelemetry, NotAfter
        <4>4. \A i \in DOMAIN batch' : NotAfter(f.run, f.time, batch'[i])
          BY <3>3, <3>4, <2>1 DEF OrderInv, InOrder
        <4>5. \A j \in DOMAIN rx : NotAfter(f.run, f.time, rx[j])
          BY <3>4 DEF OrderInv
        <4>. QED
          BY <3>1, <4>1, <4>2, <4>3, <4>4, <4>5 DEF RebootInv, Now
      <3>. QED
        BY <2>10, <3>5, <3>6 DEF HandleFrame, OnBootInfo, f
    <2>11. CASE PortOpens \/ PortCloses \/ BootInfoLost \/ UNCHANGED vars
      BY <2>4, <2>11 DEF PortOpens, PortCloses, BootInfoLost, vars
    <2>12. CASE PublishTest \/ PublishFill
      BY <2>4, <2>12 DEF PublishTest, PublishFill
    <2>. QED
      BY <2>6, <2>7, <2>8, <2>9, <2>10, <2>11, <2>12 DEF Next, Reader, Ros
  <1>. QED
    BY <1>1, <1>2, TypeCorrect, OrderInvariant, PTL DEF Spec

\* Every reboot counted is a restart of the MCU, as long as the timestamp does
\* not wrap around.
THEOREM NoRebootIsPhantom == ASSUME ~Wraps PROVE Spec => []NoPhantomReboot
  <1>1. TypeOK /\ RebootInv => NoPhantomReboot
    BY Bounds DEF TypeOK, RebootInv, NoPhantomReboot, Runs
  <1>. QED
    BY <1>1, TypeCorrect, RebootInvariant, PTL
=============================================================================
