-------------------------- MODULE SerialLink_proofs --------------------------
(***************************************************************************)
(* Safety of the serial link and its contract with the node's thread, for  *)
(* every interleaving and every number of handles.                         *)
(***************************************************************************)
EXTENDS SerialLink, FiniteSetTheorems, TLAPS

\* Three references leave one of four handles free.
LEMMA FreeHandle ==
    ASSUME TypeOK, ser = None
    PROVE  \E h \in Handles : h \notin Referenced
  <1>. DEFINE refs == {rser, wser[Reader], wser[Ros]}
  <1>1. \A h \in Handles : h # ser
    BY HandlesAssumption DEF HandlesAssumption
  <1>2. IsFiniteSet(refs) /\ Cardinality(refs) <= 3
    <2>1. IsFiniteSet({rser}) /\ Cardinality({rser}) = 1
      BY FS_Singleton
    <2>. DEFINE two == {rser} \union {wser[Reader]}
    <2>2. IsFiniteSet(two) /\ (Cardinality(two) = 1 \/ Cardinality(two) = 1 + 1)
      BY <2>1, FS_AddElement
    <2>3. refs = two \union {wser[Ros]}
      OBVIOUS
    <2>. HIDE DEF two, refs
    <2>4. /\ IsFiniteSet(refs)
          /\ Cardinality(refs) = Cardinality(two) \/ Cardinality(refs) = Cardinality(two) + 1
      BY <2>2, <2>3, FS_AddElement
    <2>. QED
      BY <2>2, <2>4
  <1>3. SUFFICES ASSUME Handles \subseteq refs PROVE FALSE
    BY <1>1 DEF Referenced
  <1>. HIDE DEF refs
  <1>4. Cardinality(Handles) <= Cardinality(refs)
    BY <1>2, <1>3, FS_Subset
  <1>5. Cardinality(Handles) \in Nat /\ Cardinality(refs) \in Nat /\ Cardinality(Handles) >= 4
    BY <1>2, FS_CardinalityType, HandlesAssumption DEF HandlesAssumption
  <1>. QED
    BY <1>2, <1>4, <1>5

\* _try_open() gets a new handle, and only that one is live.
LEMMA OpenPortEffect ==
    ASSUME TypeOK, LocalsInv, OpenPort
    PROVE  /\ Step(Reader, "open", "config")
           /\ ser' \in Handles /\ ser' \notin Referenced
           /\ UNCHANGED <<flag, stopEvt, lock, rser, wser, nodeVars, plugged>>
           /\ Collect([fd EXCEPT ![ser'] = "live"])
  <1>1. pc[Reader] = "open"
    BY DEF OpenPort, Step
  <1>2. ser = None
    BY <1>1 DEF LocalsInv
  <1>3. \E h \in Handles : h \notin Referenced
    BY <1>2, FreeHandle
  <1>4. ser' = CHOOSE h \in Handles : h \notin Referenced
    BY Zenon DEF OpenPort
  <1>5. ser' \in Handles /\ ser' \notin Referenced
    BY <1>3, <1>4, Zenon
  <1>. QED
    BY <1>5, Zenon DEF OpenPort

\* Every variable keeps its range, and every open handle is referred to by an
\* attribute or a local, which only some places of a thread hold.
THEOREM LocalsInvariant == Spec => [](TypeOK /\ LocalsInv)
  <1>. USE DEF Reader, Ros, Threads
  <1>1. Init => TypeOK /\ LocalsInv
    BY DEF Init, TypeOK, LocalsInv, ReaderPcs, RosPcs, Maybe, opened, ClosePcs, ReaderGone
  <1>2. TypeOK /\ LocalsInv /\ [Next]_vars => TypeOK' /\ LocalsInv'
    <2>. SUFFICES ASSUME TypeOK, LocalsInv, [Next]_vars PROVE TypeOK' /\ LocalsInv'
      OBVIOUS
    <2>. USE HandlesAssumption
         DEF linkVars, nodeVars, threadVars, portVars, Goto, Step, Maybe, Collect,
             Referenced, opened, live, ReaderGone, HandlesAssumption,
             ReaderPcs, RosPcs, WritePcs, ClosePcs, TypeOK, LocalsInv
    <2>1. saw' \subseteq BOOLEAN /\ harm' \subseteq {"unplug", "close"}
      BY DEF Next, ReaderStep, RosStep, World, Observe, LinkUp, vars
    <2>2. ASSUME NEW t \in Threads, WriteEnter(t) PROVE TypeOK' /\ LocalsInv'
      BY <2>1, <2>2 DEF WriteEnter
    <2>3. ASSUME NEW t \in Threads, WriteRefused(t) PROVE TypeOK' /\ LocalsInv'
      BY <2>1, <2>3 DEF WriteRefused, WriteDone, Return
    <2>4. ASSUME NEW t \in Threads, WriteAllowed(t) PROVE TypeOK' /\ LocalsInv'
      BY <2>1, <2>4 DEF WriteAllowed
    <2>5. ASSUME NEW t \in Threads, WriteLock(t) PROVE TypeOK' /\ LocalsInv'
      BY <2>1, <2>5 DEF WriteLock
    <2>6. ASSUME NEW t \in Threads, WriteSent(t) PROVE TypeOK' /\ LocalsInv'
      BY <2>1, <2>6 DEF WriteSent, WriteDone, Return
    <2>7. ASSUME NEW t \in Threads, WriteFailed(t) PROVE TypeOK' /\ LocalsInv'
      BY <2>1, <2>7 DEF WriteFailed
    <2>8. ASSUME NEW t \in Threads, WriteRaised(t) PROVE TypeOK' /\ LocalsInv'
      BY <2>1, <2>8 DEF WriteRaised
    <2>9. ASSUME NEW t \in Threads, CloseTest(t) PROVE TypeOK' /\ LocalsInv'
      BY <2>1, <2>9 DEF CloseTest
    <2>10. ASSUME NEW t \in Threads, CloseCall(t) PROVE TypeOK' /\ LocalsInv'
      BY <2>1, <2>10 DEF CloseCall
    <2>11. ASSUME NEW t \in Threads, CloseNull(t) PROVE TypeOK' /\ LocalsInv'
      BY <2>1, <2>11 DEF CloseNull
    <2>12. ASSUME NEW t \in Threads, CloseClear(t) PROVE TypeOK' /\ LocalsInv'
      BY <2>1, <2>12 DEF CloseClear, WriteDone, Return
    <2>13. CASE LoopHead
      BY <2>1, <2>13 DEF LoopHead
    <2>14. CASE TakeLocal
      BY <2>1, <2>14 DEF TakeLocal
    <2>15. CASE ReadEnter
      BY <2>1, <2>15 DEF ReadEnter
    <2>16. CASE ReadReturned
      BY <2>1, <2>16 DEF ReadReturned
    <2>17. CASE ReadFailed
      BY <2>1, <2>17 DEF ReadFailed
    <2>18. CASE ReadRaised
      BY <2>1, <2>18 DEF ReadRaised
    <2>19. CASE OpenPort
      BY <2>1, <2>19, OpenPortEffect
    <2>20. CASE OpenFailed
      BY <2>1, <2>20 DEF OpenFailed
    <2>21. CASE OpenRaised
      BY <2>1, <2>21 DEF OpenRaised
    <2>22. CASE Configure
      BY <2>1, <2>22 DEF Configure, Configured, ConfigFailed, ConfigRaised
    <2>23. CASE SetFlag
      BY <2>1, <2>23 DEF SetFlag
    <2>24. CASE FailedNull
      BY <2>1, <2>24 DEF FailedNull
    <2>25. CASE FailedClear
      BY <2>1, <2>25 DEF FailedClear
    <2>26. CASE StopBegin
      BY <2>1, <2>26 DEF StopBegin
    <2>27. CASE StopJoined
      BY <2>1, <2>27 DEF StopJoined
    <2>28. CASE CallWrite
      BY <2>1, <2>28 DEF CallWrite
    <2>29. CASE DestroyNode
      BY <2>1, <2>29 DEF DestroyNode
    <2>30. CASE Unplug
      BY <2>1, <2>30 DEF Unplug
    <2>31. CASE Plug
      BY <2>1, <2>31 DEF Plug
    <2>32. CASE UNCHANGED vars
      BY <2>32 DEF vars
    <2>. QED
      BY <2>2, <2>3, <2>4, <2>5, <2>6, <2>7, <2>8, <2>9, <2>10, <2>11, <2>12, <2>13, <2>14,
         <2>15, <2>16, <2>17, <2>18, <2>19, <2>20, <2>21, <2>22, <2>23, <2>24, <2>25, <2>26,
         <2>27, <2>28, <2>29, <2>30, <2>31, <2>32
         DEF Next, ReaderStep, RosStep, World, Write, Close, Run, TryOpen, Stop
  <1>. QED
    BY <1>1, <1>2, PTL DEF Spec

\* Every step keeps every variable in its range.
THEOREM TypeCorrect == Spec => []TypeOK
  BY LocalsInvariant, PTL

\* Once stop() has joined the reader, only stop() touches the link.
THEOREM StopInvariant == Spec => []StopInv
  <1>. USE DEF Reader, Ros, Threads
  <1>1. Init => StopInv
    BY DEF Init, StopInv
  <1>2. TypeOK /\ LocalsInv /\ StopInv /\ [Next]_vars => StopInv'
    <2>. SUFFICES ASSUME TypeOK, LocalsInv, StopInv, [Next]_vars PROVE StopInv'
      OBVIOUS
    <2>. USE HandlesAssumption
         DEF linkVars, nodeVars, threadVars, portVars, Goto, Step, Maybe, Collect,
             Referenced, opened, live, ReaderGone, HandlesAssumption,
             ReaderPcs, RosPcs, WritePcs, ClosePcs, TypeOK, LocalsInv, StopInv
    <2>1. ASSUME NEW t \in Threads, WriteEnter(t) PROVE StopInv'
      BY <2>1 DEF WriteEnter
    <2>2. ASSUME NEW t \in Threads, WriteRefused(t) PROVE StopInv'
      BY <2>2 DEF WriteRefused, WriteDone, Return
    <2>3. ASSUME NEW t \in Threads, WriteAllowed(t) PROVE StopInv'
      BY <2>3 DEF WriteAllowed
    <2>4. ASSUME NEW t \in Threads, WriteLock(t) PROVE StopInv'
      BY <2>4 DEF WriteLock
    <2>5. ASSUME NEW t \in Threads, WriteSent(t) PROVE StopInv'
      BY <2>5 DEF WriteSent, WriteDone, Return
    <2>6. ASSUME NEW t \in Threads, WriteFailed(t) PROVE StopInv'
      BY <2>6 DEF WriteFailed
    <2>7. ASSUME NEW t \in Threads, WriteRaised(t) PROVE StopInv'
      BY <2>7 DEF WriteRaised
    <2>8. ASSUME NEW t \in Threads, CloseTest(t) PROVE StopInv'
      BY <2>8 DEF CloseTest
    <2>9. ASSUME NEW t \in Threads, CloseCall(t) PROVE StopInv'
      BY <2>9 DEF CloseCall
    <2>10. ASSUME NEW t \in Threads, CloseNull(t) PROVE StopInv'
      BY <2>10 DEF CloseNull
    <2>11. ASSUME NEW t \in Threads, CloseClear(t) PROVE StopInv'
      BY <2>11 DEF CloseClear, WriteDone, Return
    <2>12. CASE LoopHead
      BY <2>12 DEF LoopHead
    <2>13. CASE TakeLocal
      BY <2>13 DEF TakeLocal
    <2>14. CASE ReadEnter
      BY <2>14 DEF ReadEnter
    <2>15. CASE ReadReturned
      BY <2>15 DEF ReadReturned
    <2>16. CASE ReadFailed
      BY <2>16 DEF ReadFailed
    <2>17. CASE ReadRaised
      BY <2>17 DEF ReadRaised
    <2>18. CASE OpenPort
      <3>1. /\ pc["reader"] = "open" /\ pc' = [pc EXCEPT !["reader"] = "config"]
            /\ UNCHANGED <<stopEvt, outlived>>
        BY <2>18, OpenPortEffect
      <3>. QED
        BY <3>1
    <2>19. CASE OpenFailed
      BY <2>19 DEF OpenFailed
    <2>20. CASE OpenRaised
      BY <2>20 DEF OpenRaised
    <2>21. CASE Configure
      BY <2>21 DEF Configure, Configured, ConfigFailed, ConfigRaised
    <2>22. CASE SetFlag
      BY <2>22 DEF SetFlag
    <2>23. CASE FailedNull
      BY <2>23 DEF FailedNull
    <2>24. CASE FailedClear
      BY <2>24 DEF FailedClear
    <2>25. CASE StopBegin
      BY <2>25 DEF StopBegin
    <2>26. CASE StopJoined
      BY <2>26 DEF StopJoined
    <2>27. CASE CallWrite
      BY <2>27 DEF CallWrite
    <2>28. CASE DestroyNode
      BY <2>28 DEF DestroyNode
    <2>29. CASE Unplug
      BY <2>29 DEF Unplug
    <2>30. CASE Plug
      BY <2>30 DEF Plug
    <2>31. CASE UNCHANGED vars
      BY <2>31 DEF vars
    <2>. QED
      BY <2>1, <2>2, <2>3, <2>4, <2>5, <2>6, <2>7, <2>8, <2>9, <2>10, <2>11, <2>12, <2>13,
         <2>14, <2>15, <2>16, <2>17, <2>18, <2>19, <2>20, <2>21, <2>22, <2>23, <2>24, <2>25,
         <2>26, <2>27, <2>28, <2>29, <2>30, <2>31
         DEF Next, ReaderStep, RosStep, World, Write, Close, Run, TryOpen, Stop
  <1>. QED
    BY <1>1, <1>2, LocalsInvariant, PTL DEF Spec

\* When stop() has returned after the reader, the port is released: no local
\* holds a handle any more, and self._ser none.
THEOREM PortIsReleased == Spec => []ReleasedAfterStop
  <1>1. TypeOK /\ LocalsInv /\ StopInv => ReleasedAfterStop
    <2>. SUFFICES ASSUME TypeOK, LocalsInv, StopInv, pc[Ros] = "stopped", ~outlived
                  PROVE  opened = {} /\ ser = None /\ ~flag
      BY DEF ReleasedAfterStop
    <2>1. ReaderGone /\ ser = None /\ ~flag /\ rser = None /\ wser[Ros] = None
      BY DEF LocalsInv, StopInv
    <2>2. wser[Reader] = None
      BY <2>1 DEF LocalsInv, ReaderGone, WritePcs, ClosePcs, Threads
    <2>. QED
      BY <2>1, <2>2, HandlesAssumption DEF HandlesAssumption, LocalsInv, Referenced, opened
  <1>. QED
    BY <1>1, LocalsInvariant, StopInvariant, PTL

\* What was done to the port stays on record until the reader opens it again.
LEMMA HarmIsKept ==
    ASSUME [Next]_vars
    PROVE  /\ harm \subseteq harm' \/ Opens
           /\ plugged /\ ~plugged' /\ ~Opens => "unplug" \in harm'
           /\ Closes /\ ~Opens => "close" \in harm'
  <1>1. CASE Observe
    BY <1>1 DEF Observe
  <1>2. CASE UNCHANGED vars
    BY <1>2 DEF vars, threadVars, portVars, Closes
  <1>. QED
    BY <1>1, <1>2 DEF Next, ReaderStep, RosStep, World

\* What the reader finds gone when it sets the port up or writes, or finds raising,
\* somebody else took from it since it opened the port.
THEOREM HarmInvariant == Spec => []HarmInv
  <1>. USE DEF Reader, Ros, Threads
  <1>1. Init => HarmInv
    BY DEF Init, HarmInv, opened, WritePcs, ClosePcs
  <1>2. TypeOK /\ LocalsInv /\ HarmInv /\ [Next]_vars => HarmInv'
    <2>. SUFFICES ASSUME TypeOK, LocalsInv, HarmInv, [Next]_vars PROVE HarmInv'
      OBVIOUS
    <2>. USE HandlesAssumption
         DEF linkVars, nodeVars, threadVars, portVars, Goto, Step, Maybe, Collect,
             Referenced, opened, live, ReaderGone, HandlesAssumption,
             ReaderPcs, RosPcs, WritePcs, ClosePcs, TypeOK, LocalsInv, HarmInv
    <2>0. /\ harm \subseteq harm' \/ (pc["reader"] = "loop" /\ pc'["reader"] = "open")
          /\ plugged /\ ~plugged' /\ pc["reader"] # "loop" => "unplug" \in harm'
          /\ pc["ros"] \in {"close.call", "close.null"} /\ pc'["ros"] # pc["ros"] /\ pc["reader"] # "loop"
                => "close" \in harm'
      BY HarmIsKept DEF Opens, Closes
    <2>1. ASSUME NEW t \in Threads, WriteEnter(t) PROVE HarmInv'
      BY <2>0, <2>1 DEF WriteEnter
    <2>2. ASSUME NEW t \in Threads, WriteRefused(t) PROVE HarmInv'
      BY <2>0, <2>2 DEF WriteRefused, WriteDone, Return
    <2>3. ASSUME NEW t \in Threads, WriteAllowed(t) PROVE HarmInv'
      BY <2>0, <2>3 DEF WriteAllowed
    <2>4. ASSUME NEW t \in Threads, WriteLock(t) PROVE HarmInv'
      BY <2>0, <2>4 DEF WriteLock
    <2>5. ASSUME NEW t \in Threads, WriteSent(t) PROVE HarmInv'
      BY <2>0, <2>5 DEF WriteSent, WriteDone, Return
    <2>6. ASSUME NEW t \in Threads, WriteFailed(t) PROVE HarmInv'
      BY <2>0, <2>6 DEF WriteFailed
    <2>7. ASSUME NEW t \in Threads, WriteRaised(t) PROVE HarmInv'
      BY <2>0, <2>7 DEF WriteRaised
    <2>8. ASSUME NEW t \in Threads, CloseTest(t) PROVE HarmInv'
      BY <2>0, <2>8 DEF CloseTest
    <2>9. ASSUME NEW t \in Threads, CloseCall(t) PROVE HarmInv'
      BY <2>0, <2>9 DEF CloseCall
    <2>10. ASSUME NEW t \in Threads, CloseNull(t) PROVE HarmInv'
      BY <2>0, <2>10 DEF CloseNull
    <2>11. ASSUME NEW t \in Threads, CloseClear(t) PROVE HarmInv'
      BY <2>0, <2>11 DEF CloseClear, WriteDone, Return
    <2>12. CASE LoopHead
      BY <2>0, <2>12 DEF LoopHead
    <2>13. CASE TakeLocal
      BY <2>0, <2>13 DEF TakeLocal
    <2>14. CASE ReadEnter
      BY <2>0, <2>14 DEF ReadEnter
    <2>15. CASE ReadReturned
      BY <2>0, <2>15 DEF ReadReturned
    <2>16. CASE ReadFailed
      BY <2>0, <2>16 DEF ReadFailed
    <2>17. CASE ReadRaised
      BY <2>0, <2>17 DEF ReadRaised
    <2>18. CASE OpenPort
      BY <2>0, <2>18, OpenPortEffect
    <2>19. CASE OpenFailed
      BY <2>0, <2>19 DEF OpenFailed
    <2>20. CASE OpenRaised
      BY <2>0, <2>20 DEF OpenRaised
    <2>21. CASE Configure
      BY <2>0, <2>21 DEF Configure, Configured, ConfigFailed, ConfigRaised
    <2>22. CASE SetFlag
      BY <2>0, <2>22 DEF SetFlag
    <2>23. CASE FailedNull
      BY <2>0, <2>23 DEF FailedNull
    <2>24. CASE FailedClear
      BY <2>0, <2>24 DEF FailedClear
    <2>25. CASE StopBegin
      BY <2>0, <2>25 DEF StopBegin
    <2>26. CASE StopJoined
      BY <2>0, <2>26 DEF StopJoined
    <2>27. CASE CallWrite
      BY <2>0, <2>27 DEF CallWrite
    <2>28. CASE DestroyNode
      BY <2>0, <2>28 DEF DestroyNode
    <2>29. CASE Unplug
      BY <2>0, <2>29 DEF Unplug
    <2>30. CASE Plug
      BY <2>0, <2>30 DEF Plug
    <2>31. CASE UNCHANGED vars
      BY <2>0, <2>31 DEF vars
    <2>. QED
      BY <2>1, <2>2, <2>3, <2>4, <2>5, <2>6, <2>7, <2>8, <2>9, <2>10, <2>11, <2>12, <2>13,
         <2>14, <2>15, <2>16, <2>17, <2>18, <2>19, <2>20, <2>21, <2>22, <2>23, <2>24, <2>25,
         <2>26, <2>27, <2>28, <2>29, <2>30, <2>31
         DEF Next, ReaderStep, RosStep, World, Write, Close, Run, TryOpen, Stop
  <1>. QED
    BY <1>1, <1>2, LocalsInvariant, PTL DEF Spec

\* Of a node that only reads, the reader thread has the link for itself.
THEOREM ReadOnlyInvariant == Spec => []ReadOnlyInv
  <1>. USE DEF Reader, Ros, Threads
  <1>1. Init => ReadOnlyInv
    BY DEF Init, ReadOnlyInv, opened, WritePcs, ClosePcs
  <1>2. TypeOK /\ LocalsInv /\ StopInv /\ ReadOnlyInv /\ [Next]_vars => ReadOnlyInv'
    <2>. SUFFICES ASSUME TypeOK, LocalsInv, StopInv, ReadOnlyInv, [Next]_vars PROVE ReadOnlyInv'
      OBVIOUS
    <2>. USE HandlesAssumption
         DEF linkVars, nodeVars, threadVars, portVars, Goto, Step, Maybe, Collect,
             Referenced, opened, live, ReaderGone, HandlesAssumption,
             ReaderPcs, RosPcs, WritePcs, ClosePcs, TypeOK, LocalsInv, StopInv, ReadOnlyInv, Closing
    <2>0. /\ harm \subseteq harm' \/ (pc["reader"] = "loop" /\ pc'["reader"] = "open")
          /\ plugged /\ ~plugged' /\ pc["reader"] # "loop" => "unplug" \in harm'
      BY HarmIsKept DEF Opens
    <2>1. ASSUME NEW t \in Threads, WriteEnter(t) PROVE ReadOnlyInv'
      BY <2>0, <2>1 DEF WriteEnter
    <2>2. ASSUME NEW t \in Threads, WriteRefused(t) PROVE ReadOnlyInv'
      BY <2>0, <2>2 DEF WriteRefused, WriteDone, Return
    <2>3. ASSUME NEW t \in Threads, WriteAllowed(t) PROVE ReadOnlyInv'
      BY <2>0, <2>3 DEF WriteAllowed
    <2>4. ASSUME NEW t \in Threads, WriteLock(t) PROVE ReadOnlyInv'
      BY <2>0, <2>4 DEF WriteLock
    <2>5. ASSUME NEW t \in Threads, WriteSent(t) PROVE ReadOnlyInv'
      BY <2>0, <2>5 DEF WriteSent, WriteDone, Return
    <2>6. ASSUME NEW t \in Threads, WriteFailed(t) PROVE ReadOnlyInv'
      BY <2>0, <2>6 DEF WriteFailed
    <2>7. ASSUME NEW t \in Threads, WriteRaised(t) PROVE ReadOnlyInv'
      BY <2>0, <2>7 DEF WriteRaised
    <2>8. ASSUME NEW t \in Threads, CloseTest(t) PROVE ReadOnlyInv'
      BY <2>0, <2>8 DEF CloseTest
    <2>9. ASSUME NEW t \in Threads, CloseCall(t) PROVE ReadOnlyInv'
      BY <2>0, <2>9 DEF CloseCall
    <2>10. ASSUME NEW t \in Threads, CloseNull(t) PROVE ReadOnlyInv'
      BY <2>0, <2>10 DEF CloseNull
    <2>11. ASSUME NEW t \in Threads, CloseClear(t) PROVE ReadOnlyInv'
      BY <2>0, <2>11 DEF CloseClear, WriteDone, Return
    <2>12. CASE LoopHead
      BY <2>0, <2>12 DEF LoopHead
    <2>13. CASE TakeLocal
      BY <2>0, <2>13 DEF TakeLocal
    <2>14. CASE ReadEnter
      BY <2>0, <2>14 DEF ReadEnter
    <2>15. CASE ReadReturned
      BY <2>0, <2>15 DEF ReadReturned
    <2>16. CASE ReadFailed
      BY <2>0, <2>16 DEF ReadFailed
    <2>17. CASE ReadRaised
      BY <2>0, <2>17 DEF ReadRaised
    <2>18. CASE OpenPort
      BY <2>0, <2>18, OpenPortEffect
    <2>19. CASE OpenFailed
      BY <2>0, <2>19 DEF OpenFailed
    <2>20. CASE OpenRaised
      BY <2>0, <2>20 DEF OpenRaised
    <2>21. CASE Configure
      BY <2>0, <2>21 DEF Configure, Configured, ConfigFailed, ConfigRaised
    <2>22. CASE SetFlag
      BY <2>0, <2>22 DEF SetFlag
    <2>23. CASE FailedNull
      BY <2>0, <2>23 DEF FailedNull
    <2>24. CASE FailedClear
      BY <2>0, <2>24 DEF FailedClear
    <2>25. CASE StopBegin
      BY <2>0, <2>25 DEF StopBegin
    <2>26. CASE StopJoined
      BY <2>0, <2>26 DEF StopJoined
    <2>27. CASE CallWrite
      BY <2>0, <2>27 DEF CallWrite
    <2>28. CASE DestroyNode
      BY <2>0, <2>28 DEF DestroyNode
    <2>29. CASE Unplug
      BY <2>0, <2>29 DEF Unplug
    <2>30. CASE Plug
      BY <2>0, <2>30 DEF Plug
    <2>31. CASE UNCHANGED vars
      BY <2>0, <2>31 DEF vars
    <2>. QED
      BY <2>1, <2>2, <2>3, <2>4, <2>5, <2>6, <2>7, <2>8, <2>9, <2>10, <2>11, <2>12, <2>13,
         <2>14, <2>15, <2>16, <2>17, <2>18, <2>19, <2>20, <2>21, <2>22, <2>23, <2>24, <2>25,
         <2>26, <2>27, <2>28, <2>29, <2>30, <2>31
         DEF Next, ReaderStep, RosStep, World, Write, Close, Run, TryOpen, Stop
  <1>. QED
    BY <1>1, <1>2, LocalsInvariant, StopInvariant, PTL DEF Spec

\* With a node that only reads, no handle is left open that self._ser does not
\* name, so that the port is never held by a handle this process forgot.
THEOREM NoHandleIsForgotten == Spec => []NoForgottenHandle
  <1>1. ReadOnlyInv => NoForgottenHandle
    BY DEF ReadOnlyInv, NoForgottenHandle
  <1>. QED
    BY <1>1, ReadOnlyInvariant, PTL

\* With a node that only reads, is_open is true only of an open handle, except
\* inside a _close() that is about to clear it.
THEOREM FlagAlwaysMeansOpen == Spec => []FlagMeansOpen
  <1>1. ReadOnlyInv => FlagMeansOpen
    BY DEF ReadOnlyInv, FlagMeansOpen, Closing
  <1>. QED
    BY <1>1, ReadOnlyInvariant, PTL

\* Nothing that run() and _try_open() do by themselves ends the reader thread: an
\* exception does after the node's thread was in _close() or the device was lost; with
\* a node that only reads, and before stop() gives up on it, only after the latter.
THEOREM OnlyOthersEndIt == Spec => []OnlyOthersEndReader
  <1>1. HarmInv /\ ReadOnlyInv => OnlyOthersEndReader
    BY DEF HarmInv, ReadOnlyInv, OnlyOthersEndReader
  <1>. QED
    BY <1>1, HarmInvariant, ReadOnlyInvariant, PTL

\* What a node that also writes can do, a node that only reads cannot: open the
\* port while the local of run() still holds it.
THEOREM ReadersNeverLockThemselvesOut ==
    Spec => [](~writes /\ ~outlived => NeverLocksItselfOut)
  <1>1. TypeOK /\ LocalsInv /\ ReadOnlyInv => (~writes /\ ~outlived => NeverLocksItselfOut)
    BY HandlesAssumption
       DEF HandlesAssumption, LocalsInv, ReadOnlyInv, NeverLocksItselfOut, opened, live
  <1>. QED
    BY <1>1, LocalsInvariant, ReadOnlyInvariant, PTL

\* What write() has seen of the link when it decides: only the reader thread
\* changes the link meanwhile, and sets the flag for the handle it opened.
THEOREM ContractInvariant == Spec => []ContractInv
  <1>. USE DEF Reader, Ros, Threads
  <1>1. Init => ContractInv
    BY DEF Init, ContractInv, Undecided
  <1>2. TypeOK /\ LocalsInv /\ ContractInv /\ [Next]_vars => ContractInv'
    <2>. SUFFICES ASSUME TypeOK, LocalsInv, ContractInv, [Next]_vars PROVE ContractInv'
      OBVIOUS
    <2>. USE HandlesAssumption
         DEF linkVars, nodeVars, threadVars, portVars, Goto, Step, Maybe, Collect,
             Referenced, opened, live, ReaderGone, HandlesAssumption,
             ReaderPcs, RosPcs, WritePcs, ClosePcs, TypeOK, LocalsInv,
             Observe, Undecided, LinkUp, ContractInv
    <2>1. ASSUME NEW t \in Threads, WriteEnter(t), Observe PROVE ContractInv'
      BY <2>1 DEF WriteEnter
    <2>2. ASSUME NEW t \in Threads, WriteRefused(t), Observe PROVE ContractInv'
      BY <2>2 DEF WriteRefused, WriteDone, Return
    <2>3. ASSUME NEW t \in Threads, WriteAllowed(t), Observe PROVE ContractInv'
      BY <2>3 DEF WriteAllowed
    <2>4. ASSUME NEW t \in Threads, WriteLock(t), Observe PROVE ContractInv'
      <3>1. /\ UNCHANGED <<ser, flag, wser>> /\ pc[t] = "write.lock"
            /\ \/ pc' = [pc EXCEPT ![t] = "write.send"]
               \/ pc' = [pc EXCEPT ![t] = "close.test"]
        BY <2>4 DEF WriteLock
      <3>. QED
        BY <2>4, <3>1
    <2>5. ASSUME NEW t \in Threads, WriteSent(t), Observe PROVE ContractInv'
      BY <2>5 DEF WriteSent, WriteDone, Return
    <2>6. ASSUME NEW t \in Threads, WriteFailed(t), Observe PROVE ContractInv'
      BY <2>6 DEF WriteFailed
    <2>7. ASSUME NEW t \in Threads, WriteRaised(t), Observe PROVE ContractInv'
      BY <2>7 DEF WriteRaised
    <2>8. ASSUME NEW t \in Threads, CloseTest(t), Observe PROVE ContractInv'
      BY <2>8 DEF CloseTest
    <2>9. ASSUME NEW t \in Threads, CloseCall(t), Observe PROVE ContractInv'
      BY <2>9 DEF CloseCall
    <2>10. ASSUME NEW t \in Threads, CloseNull(t), Observe PROVE ContractInv'
      BY <2>10 DEF CloseNull
    <2>11. ASSUME NEW t \in Threads, CloseClear(t), Observe PROVE ContractInv'
      BY <2>11 DEF CloseClear, WriteDone, Return
    <2>12. ASSUME LoopHead, Observe PROVE ContractInv'
      BY <2>12 DEF LoopHead
    <2>13. ASSUME TakeLocal, Observe PROVE ContractInv'
      BY <2>13 DEF TakeLocal
    <2>14. ASSUME ReadEnter, Observe PROVE ContractInv'
      BY <2>14 DEF ReadEnter
    <2>15. ASSUME ReadReturned, Observe PROVE ContractInv'
      BY <2>15 DEF ReadReturned
    <2>16. ASSUME ReadFailed, Observe PROVE ContractInv'
      BY <2>16 DEF ReadFailed
    <2>17. ASSUME ReadRaised, Observe PROVE ContractInv'
      BY <2>17 DEF ReadRaised
    <2>18. ASSUME OpenPort, Observe PROVE ContractInv'
      BY <2>18, OpenPortEffect
    <2>19. ASSUME OpenFailed, Observe PROVE ContractInv'
      BY <2>19 DEF OpenFailed
    <2>20. ASSUME OpenRaised, Observe PROVE ContractInv'
      BY <2>20 DEF OpenRaised
    <2>21. ASSUME Configure, Observe PROVE ContractInv'
      BY <2>21 DEF Configure, Configured, ConfigFailed, ConfigRaised
    <2>22. ASSUME SetFlag, Observe PROVE ContractInv'
      BY <2>22 DEF SetFlag
    <2>23. ASSUME FailedNull, Observe PROVE ContractInv'
      BY <2>23 DEF FailedNull
    <2>24. ASSUME FailedClear, Observe PROVE ContractInv'
      BY <2>24 DEF FailedClear
    <2>25. ASSUME StopBegin, Observe PROVE ContractInv'
      BY <2>25 DEF StopBegin
    <2>26. ASSUME StopJoined, Observe PROVE ContractInv'
      BY <2>26 DEF StopJoined
    <2>27. ASSUME CallWrite, Observe PROVE ContractInv'
      BY <2>27 DEF CallWrite
    <2>28. ASSUME DestroyNode, Observe PROVE ContractInv'
      BY <2>28 DEF DestroyNode
    <2>29. ASSUME Unplug, Observe PROVE ContractInv'
      BY <2>29 DEF Unplug
    <2>30. ASSUME Plug, Observe PROVE ContractInv'
      BY <2>30 DEF Plug
    <2>31. CASE UNCHANGED vars
      BY <2>31 DEF vars
    <2>. QED
      BY <2>1, <2>2, <2>3, <2>4, <2>5, <2>6, <2>7, <2>8, <2>9, <2>10, <2>11, <2>12, <2>13,
         <2>14, <2>15, <2>16, <2>17, <2>18, <2>19, <2>20, <2>21, <2>22, <2>23, <2>24, <2>25,
         <2>26, <2>27, <2>28, <2>29, <2>30, <2>31
         DEF Next, ReaderStep, RosStep, World, Write, Close, Run, TryOpen, Stop
  <1>. QED
    BY <1>1, <1>2, LocalsInvariant, PTL DEF Spec

\* A step that leaves the node's call alone changes the link or nothing.
LEMMA OtherSteps ==
    ASSUME TypeOK, ContractInv, Observe, pc'[Ros] = pc[Ros], stopEvt' = stopEvt
    PROVE  Contract!LinkChanges \/ UNCHANGED <<LinkUp, NodeCall, saw>>
  <1>1. NodeCall' = NodeCall /\ (Undecided' <=> Undecided) /\ (Undecided <=> NodeCall = "calling")
    <2>1. Undecided' <=> Undecided
      BY DEF Undecided
    <2>2. NodeCall' = NodeCall
      BY <2>1 DEF NodeCall
    <2>3. Undecided <=> NodeCall = "calling"
      BY DEF NodeCall, Undecided, ClosePcs
    <2>. QED
      BY <2>1, <2>2, <2>3
  <1>2. LinkUp \in BOOLEAN /\ LinkUp' \in BOOLEAN
    BY DEF LinkUp
  <1>3. CASE LinkUp' = LinkUp
    <2>1. saw' = saw
      BY <1>1, <1>3 DEF Observe, ContractInv
    <2>. QED
      BY <1>1, <1>3, <2>1
  <1>4. CASE LinkUp' = ~LinkUp
    BY <1>1, <1>4 DEF Contract!LinkChanges, Observe, ContractInv
  <1>. QED
    BY <1>2, <1>3, <1>4

\* Whatever the reader thread does meanwhile, a write() of the node's thread is
\* refused or started by what the link was during the call, and one that fails
\* leaves the link down: every step is a step of LinkContract, or none.
THEOREM KeepsContractSafely == Spec => Contract!Safety
  <1>. USE DEF Reader, Ros, Threads
  <1>1. Init => Contract!Init
    BY DEF Init, Contract!Init, LinkUp, NodeCall, Undecided, ClosePcs
  <1>2. TypeOK /\ LocalsInv /\ ContractInv /\ [Next]_vars => [Contract!Next]_(Contract!vars)
    <2>. SUFFICES ASSUME TypeOK, LocalsInv, ContractInv, [Next]_vars
                  PROVE  Contract!Next \/ UNCHANGED <<LinkUp, NodeCall, saw>>
      BY DEF Contract!vars
    <2>. USE DEF linkVars, nodeVars, threadVars, portVars, Goto, Step
    <2>1. ASSUME Observe, UNCHANGED stopEvt, pc'[Ros] = pc[Ros]
          PROVE  Contract!Next \/ UNCHANGED <<LinkUp, NodeCall, saw>>
      BY <2>1, OtherSteps DEF Contract!Next
    <2>2. CASE ReaderStep
      <3>1. UNCHANGED stopEvt /\ pc'[Ros] = pc[Ros]
        <4>1. CASE OpenPort
          BY <4>1, OpenPortEffect DEF TypeOK
        <4>2. CASE Run \/ (TryOpen /\ ~OpenPort)
          BY <4>2 DEF Run, LoopHead, TakeLocal, ReadEnter, ReadReturned, ReadFailed, ReadRaised,
                      TryOpen, OpenFailed, OpenRaised, Configure, Configured, ConfigFailed,
                      ConfigRaised, SetFlag, FailedNull, FailedClear, TypeOK
        <4>3. CASE Write(Reader)
          BY <4>3 DEF Write, WriteEnter, WriteRefused, WriteAllowed, WriteLock, WriteSent,
                      WriteFailed, WriteRaised, WriteDone, TypeOK
        <4>4. CASE Close(Reader)
          BY <4>4 DEF Close, CloseTest, CloseCall, CloseNull, CloseClear, WriteDone, TypeOK
        <4>. QED
          BY <2>2, <4>1, <4>2, <4>3, <4>4 DEF ReaderStep, TryOpen
      <3>. QED
        BY <2>1, <2>2, <3>1 DEF ReaderStep
    <2>3. CASE (Unplug \/ Plug) /\ Observe
      BY <2>1, <2>3 DEF Unplug, Plug
    <2>. USE DEF NodeCall, Undecided, LinkUp, Observe, ContractInv, ClosePcs, LocalsInv, TypeOK
    <2>4. CASE (CallWrite \/ DestroyNode) /\ Observe
      BY <2>4 DEF CallWrite, DestroyNode, Contract!Call, Contract!Next
    <2>5. CASE Stop /\ Observe
      BY <2>5 DEF Stop, StopBegin, StopJoined
    <2>6. CASE Write(Ros) /\ Observe
      <3>1. CASE WriteEnter(Ros)
        BY <2>6, <3>1 DEF WriteEnter
      <3>2. CASE WriteRefused(Ros)
        BY <2>6, <3>2 DEF WriteRefused, WriteDone, Return, Contract!Refuse, Contract!Next
      <3>3. CASE WriteAllowed(Ros)
        BY <2>6, <3>3 DEF WriteAllowed, Contract!Start, Contract!Next
      <3>4. CASE WriteLock(Ros)
        BY <2>6, <3>4 DEF WriteLock, WritePcs, Contract!Break, Contract!Next
      <3>5. CASE WriteSent(Ros)
        BY <2>6, <3>5 DEF WriteSent, WriteDone, Return, Contract!Sent, Contract!Next
      <3>6. CASE WriteFailed(Ros)
        BY <2>6, <3>6 DEF WriteFailed, WritePcs, Contract!Break, Contract!Next
      <3>7. CASE WriteRaised(Ros)
        BY <2>6, <3>7 DEF WriteRaised, Contract!Raise, Contract!Next
      <3>. QED
        BY <2>6, <3>1, <3>2, <3>3, <3>4, <3>5, <3>6, <3>7 DEF Write
    <2>7. CASE Close(Ros) /\ Observe
      <3>1. CASE CloseTest(Ros) \/ CloseCall(Ros)
        BY <2>7, <3>1 DEF CloseTest, CloseCall
      <3>2. CASE CloseNull(Ros)
        BY <2>7, <3>2 DEF CloseNull, Contract!LinkChanges, Contract!Next
      <3>3. CASE CloseClear(Ros)
        BY <2>7, <3>3 DEF CloseClear, WriteDone, Return, Contract!Fail, Contract!LinkChanges, Contract!Next
      <3>. QED
        BY <2>7, <3>1, <3>2, <3>3 DEF Close
    <2>8. CASE UNCHANGED vars
      BY <2>8 DEF vars
    <2>. QED
      BY <2>2, <2>3, <2>4, <2>5, <2>6, <2>7, <2>8 DEF Next, RosStep, World
  <1>. QED
    BY <1>1, <1>2, LocalsInvariant, ContractInvariant, PTL DEF Spec, Contract!Safety
=============================================================================
