----------------------------- MODULE SerialLink -----------------------------
(***************************************************************************)
(* The serial port shared by a bridge node: SerialLink of serial_link.py.  *)
(*                                                                         *)
(* Two threads touch the same attributes without a common lock.  Reader is *)
(* the thread of run(): it opens the port, reads it and reopens it after a *)
(* failure.  Ros is the executor thread of the node: it calls write() from *)
(* its timers and services and stop() from destroy_node().  _close() may   *)
(* run on either.  One step of the model is one access to a shared         *)
(* attribute, or one call into pyserial.                                   *)
(*                                                                         *)
(* A handle is a pyserial Serial object.  CPython closes it as soon as     *)
(* nothing refers to it any more (io.RawIOBase.__del__), so each step ends *)
(* by collecting the handles no attribute or local variable refers to.     *)
(***************************************************************************)
EXTENDS Naturals, FiniteSets, FiniteSetsExt

CONSTANTS
    Handles,      \* the Serial objects; a collected one may be used again
    None          \* the value of an attribute or local that holds no handle

\* Ser, run()'s local and the locals of two write() calls hold at most three
\* handles when a fourth is made.
ASSUME HandlesAssumption ==
    /\ IsFiniteSet(Handles)
    /\ Cardinality(Handles) >= 4
    /\ None \notin Handles

Reader  == "reader"
Ros     == "ros"
Threads == {Reader, Ros}

VARIABLES
    ser,        \* self._ser
    flag,       \* self._open_flag
    stopEvt,    \* self._stop_evt
    lock,       \* the owner of self._write_lock, or None
    rser,       \* the local ser of run(), which outlives the iteration that set it
    wser,       \* wser[t]: the local ser of the write() that t is in
    pc,         \* pc[t]: where thread t is
    fd,         \* fd[h]: closed, live (open on the attached device) or dead (open, device gone)
    plugged,    \* the device is attached (external)
    writes,     \* the node is drive_bridge; sensor_bridge only reads
    destroying, \* destroy_node() has begun
    outlived,   \* the join(timeout) of stop() expired before the reader was gone
    saw,        \* history: whether the link was up since the node's write() began
    harm        \* history: what others did to the port since _try_open() was last called

linkVars   == <<ser, flag, stopEvt, lock>>
nodeVars   == <<writes, destroying, outlived>>
threadVars == <<rser, wser, pc, nodeVars>>
portVars   == <<fd, plugged>>
vars       == <<linkVars, threadVars, portVars, saw, harm>>

Maybe(S)  == S \union {None}
ClosePcs  == {"close.test", "close.call", "close.null", "close.clear"}
WritePcs  == {"write", "write.flag", "write.lock", "write.send"}
ReaderPcs == {"loop", "open", "config", "flag", "failed", "unflag", "local",
              "read", "reading", "exited", "dead"}
RosPcs    == {"idle", "stop", "join", "stopped"}

ReaderGone == pc[Reader] \in {"exited", "dead"}

(***************************************************************************)
(* The port can be used: self._ser is open and is_open says so.            *)
(***************************************************************************)
opened == {h \in Handles : fd[h] # "closed"}
live   == {h \in Handles : fd[h] = "live"}

Connected == ser \in live /\ flag

\* What write() looks at first.
LinkUp == ser # None /\ flag

TypeOK ==
    /\ ser \in Maybe(Handles) /\ rser \in Maybe(Handles)
    /\ wser \in [Threads -> Maybe(Handles)]
    /\ flag \in BOOLEAN /\ stopEvt \in BOOLEAN /\ plugged \in BOOLEAN
    /\ writes \in BOOLEAN /\ destroying \in BOOLEAN /\ outlived \in BOOLEAN
    /\ lock \in Maybe(Threads)
    /\ pc \in [Threads -> ReaderPcs \union RosPcs \union WritePcs \union ClosePcs]
    /\ fd \in [Handles -> {"closed", "live", "dead"}]
    /\ saw \subseteq BOOLEAN /\ harm \subseteq {"unplug", "close"}

Init ==
    /\ ser = None /\ flag = FALSE /\ stopEvt = FALSE /\ lock = None
    /\ rser = None /\ wser = [t \in Threads |-> None]
    /\ pc = [t \in Threads |-> IF t = Reader THEN "loop" ELSE "idle"]
    /\ fd = [h \in Handles |-> "closed"] /\ plugged \in BOOLEAN
    /\ writes \in BOOLEAN /\ destroying = FALSE /\ outlived = FALSE
    /\ saw = {} /\ harm = {}

(***************************************************************************)
(* Helpers.                                                                *)
(***************************************************************************)
Goto(t, l) == pc' = [pc EXCEPT ![t] = l]
Step(t, from, to) == pc[t] = from /\ Goto(t, to)

\* Reference counting: the handles after a step that leaves them as in f.
Referenced == {ser, rser, wser[Reader], wser[Ros]}
Collect(f) == fd' = [h \in Handles |-> IF h \in Referenced' THEN f[h] ELSE "closed"]

\* Where a call of write() or _close() returns to: run()'s loop for the
\* reader; on the node's thread a callback, destroy_node() or the end of stop().
Return(t) ==
    CASE t = Reader -> "loop"
      [] t = Ros /\ stopEvt -> "stopped"
      [] t = Ros /\ ~stopEvt /\ destroying -> "stop"
      [] OTHER -> "idle"

(***************************************************************************)
(* write(), lines 66-81.                                                   *)
(***************************************************************************)
WriteEnter(t) ==
    /\ Step(t, "write", "write.flag")
    /\ wser' = [wser EXCEPT ![t] = ser]
    /\ UNCHANGED <<linkVars, rser, nodeVars, plugged>>
    /\ Collect(fd)

\* The local goes when write() returns.
WriteDone(t, to) ==
    /\ Goto(t, to)
    /\ wser' = [wser EXCEPT ![t] = None]
    /\ UNCHANGED <<rser, nodeVars, plugged>>

WriteRefused(t) ==
    /\ pc[t] = "write.flag"
    /\ wser[t] = None \/ ~flag
    /\ WriteDone(t, Return(t))
    /\ UNCHANGED linkVars
    /\ Collect(fd)

\* Mutant: the flag is not tested.
WriteAllowedUnflagged(t) ==
    /\ pc[t] = "write.flag"
    /\ wser[t] # None
    /\ Goto(t, "write.lock")
    /\ UNCHANGED <<linkVars, rser, wser, nodeVars, portVars>>

WriteAllowed(t) ==
    /\ pc[t] = "write.flag"
    /\ wser[t] # None /\ flag
    /\ Goto(t, "write.lock")
    /\ UNCHANGED <<linkVars, rser, wser, nodeVars, portVars>>

\* pyserial looks at is_open before the system call and raises
\* PortNotOpenError, a SerialException, when it is closed.
WriteLock(t) ==
    /\ pc[t] = "write.lock" /\ lock = None
    /\ IF wser[t] \in opened
         THEN lock' = t /\ Goto(t, "write.send")
         ELSE lock' = lock /\ Goto(t, "close.test")
    /\ UNCHANGED <<ser, flag, stopEvt, rser, wser, nodeVars, portVars>>

WriteSent(t) ==
    /\ pc[t] = "write.send"
    /\ wser[t] \in live
    /\ lock' = None
    /\ WriteDone(t, Return(t))
    /\ UNCHANGED <<ser, flag, stopEvt>>
    /\ Collect(fd)

\* Mutant: the lock is not released when the write raises.
WriteFailedKeepsLock(t) ==
    /\ Step(t, "write.send", "close.test")
    /\ UNCHANGED <<linkVars, rser, wser, nodeVars, portVars>>

\* A lost device, a descriptor closed underneath (EBADF) or an expired
\* write_timeout: a SerialException or an OSError, so _close() follows.
WriteFailed(t) ==
    /\ Step(t, "write.send", "close.test")
    /\ lock' = None
    /\ UNCHANGED <<ser, flag, stopEvt, rser, wser, nodeVars, portVars>>

\* A handle that the other thread closed during the call has fd None: a
\* TypeError, which write() does not catch.  It ends the reader thread; on the
\* node's thread it leaves spin() for destroy_node(), whose own write catches it.
WriteRaised(t) ==
    /\ pc[t] = "write.send"
    /\ wser[t] \notin opened
    /\ lock' = None
    /\ wser' = [wser EXCEPT ![t] = None]
    /\ rser' = IF t = Reader THEN None ELSE rser
    /\ Goto(t, CASE t = Reader -> "dead"
                 [] t = Ros /\ destroying -> "stop"
                 [] OTHER -> "write")
    /\ destroying' = (destroying \/ t = Ros)
    /\ UNCHANGED <<ser, flag, stopEvt, writes, outlived, plugged>>
    /\ Collect(fd)

(***************************************************************************)
(* _close(), lines 136-145.  It reads self._ser again at each line.        *)
(***************************************************************************)
\* Mutant: the handle is dropped, not closed.
CloseTestNeverCloses(t) ==
    /\ Step(t, "close.test", "close.null")
    /\ UNCHANGED <<linkVars, rser, wser, nodeVars, portVars>>

CloseTest(t) ==
    /\ Step(t, "close.test", IF ser # None THEN "close.call" ELSE "close.null")
    /\ UNCHANGED <<linkVars, rser, wser, nodeVars, portVars>>

\* On None this is an AttributeError, swallowed.
CloseCall(t) ==
    /\ Step(t, "close.call", "close.null")
    /\ fd' = [h \in Handles |-> IF h = ser THEN "closed" ELSE fd[h]]
    /\ UNCHANGED <<linkVars, rser, wser, nodeVars, plugged>>

\* Mutant: self._ser keeps the closed handle.
CloseNullKeepsSer(t) ==
    /\ Step(t, "close.null", "close.clear")
    /\ UNCHANGED <<linkVars, rser, wser, nodeVars, portVars>>

CloseNull(t) ==
    /\ Step(t, "close.null", "close.clear")
    /\ ser' = None
    /\ UNCHANGED <<flag, stopEvt, lock, rser, wser, nodeVars, plugged>>
    /\ Collect(fd)

\* Mutant: is_open is left set.
CloseClearKeepsFlag(t) ==
    /\ pc[t] = "close.clear"
    /\ WriteDone(t, Return(t))
    /\ UNCHANGED linkVars
    /\ Collect(fd)

CloseClear(t) ==
    /\ pc[t] = "close.clear"
    /\ flag' = FALSE
    /\ WriteDone(t, Return(t))
    /\ UNCHANGED <<ser, stopEvt, lock>>
    /\ Collect(fd)

(***************************************************************************)
(* run(), lines 83-110.                                                    *)
(***************************************************************************)
LoopHead ==
    /\ Step(Reader, "loop",
            CASE stopEvt -> "exited" [] ~stopEvt /\ ser = None -> "open" [] OTHER -> "local")
    /\ rser' = IF stopEvt THEN None ELSE rser
    /\ UNCHANGED <<linkVars, wser, nodeVars, plugged>>
    /\ Collect(fd)

TakeLocal ==
    /\ Step(Reader, "local", IF ser = None THEN "loop" ELSE "read")
    /\ rser' = ser
    /\ UNCHANGED <<linkVars, wser, nodeVars, plugged>>
    /\ Collect(fd)

\* read() also looks at is_open first.
ReadEnter ==
    /\ Step(Reader, "read", IF rser \in opened THEN "reading" ELSE "close.test")
    /\ UNCHANGED <<linkVars, rser, wser, nodeVars, portVars>>

\* Bytes for the sink, or none after the read timeout.
ReadReturned ==
    /\ Step(Reader, "reading", "loop")
    /\ rser \in live
    /\ UNCHANGED <<linkVars, rser, wser, nodeVars, portVars>>

ReadFailed ==
    /\ Step(Reader, "reading", "close.test")
    /\ rser \notin live
    /\ UNCHANGED <<linkVars, rser, wser, nodeVars, portVars>>

\* The handle was closed underneath the read: a TypeError, or ReadFailed.
ReadRaised ==
    /\ rser \notin opened
    /\ Step(Reader, "reading", IF stopEvt THEN "exited" ELSE "close.test")
    /\ rser' = IF stopEvt THEN None ELSE rser
    /\ UNCHANGED <<linkVars, wser, nodeVars, plugged>>
    /\ Collect(fd)

(***************************************************************************)
(* _try_open(), lines 112-134.  The port is opened with exclusive=True: it *)
(* opens when the device is there and no live handle holds it.             *)
(***************************************************************************)
OpenPort ==
    /\ Step(Reader, "open", "config")
    /\ plugged /\ live = {}
    /\ UNCHANGED <<flag, stopEvt, lock, rser, wser, nodeVars, plugged>>
    /\ ser' = CHOOSE h \in Handles : h \notin Referenced
    /\ Collect([fd EXCEPT ![ser'] = "live"])

OpenFailed ==
    /\ Step(Reader, "open", "failed")
    /\ ~plugged \/ live # {}
    /\ UNCHANGED <<linkVars, rser, wser, nodeVars, portVars>>

\* The device is lost inside the constructor, after its open(): the buffer reset
\* is a termios.error, neither a SerialException nor an OSError, so it ends run().
OpenRaised ==
    /\ Step(Reader, "open", "dead")
    /\ plugged /\ live = {}
    /\ plugged' = FALSE /\ rser' = None
    /\ UNCHANGED <<linkVars, wser, nodeVars>>
    /\ Collect(fd)

\* dtr and the two resets, through self._ser.
Configured ==
    /\ Step(Reader, "config", "flag")
    /\ ser \in live
    /\ UNCHANGED <<linkVars, rser, wser, nodeVars, portVars>>

\* dtr on a lost device is an OSError, a reset of a closed handle a SerialException.
ConfigFailed ==
    /\ Step(Reader, "config", "failed")
    /\ ser \in Handles \ live
    /\ UNCHANGED <<linkVars, rser, wser, nodeVars, portVars>>

\* What nothing catches: a reset of a lost device is a termios.error, of a handle
\* closed during the call a TypeError, of None an AttributeError.
ConfigRaised ==
    /\ Step(Reader, "config", "dead")
    /\ ser \notin live
    /\ rser' = None
    /\ UNCHANGED <<linkVars, wser, nodeVars, plugged>>
    /\ Collect(fd)

\* drive_bridge's on_open writes a PING; sensor_bridge has no on_open.
SetFlag ==
    /\ Step(Reader, "flag", IF writes THEN "write" ELSE "loop")
    /\ flag' = TRUE
    /\ UNCHANGED <<ser, stopEvt, lock, rser, wser, nodeVars, portVars>>

FailedNull ==
    /\ Step(Reader, "failed", "unflag")
    /\ ser' = None
    /\ UNCHANGED <<flag, stopEvt, lock, rser, wser, nodeVars, plugged>>
    /\ Collect(fd)

\* Mutants: the flag is left as it was; it is assigned where clear() was meant.
FailedClearKeepsFlag ==
    /\ Step(Reader, "unflag", "loop")
    /\ UNCHANGED <<linkVars, rser, wser, nodeVars, portVars>>
FailedClearAssigns ==
    /\ Step(Reader, "unflag", "loop")
    /\ flag' = None
    /\ UNCHANGED <<ser, stopEvt, lock, rser, wser, nodeVars, portVars>>

\* Then run() waits REOPEN_DELAY_S, or less when stop() is called.
FailedClear ==
    /\ Step(Reader, "unflag", "loop")
    /\ flag' = FALSE
    /\ UNCHANGED <<ser, stopEvt, lock, rser, wser, nodeVars, portVars>>

(***************************************************************************)
(* The node's thread: a callback writes; destroy_node() writes a last zero *)
(* velocity when the node writes at all, then calls stop(), lines 50-64.   *)
(***************************************************************************)
CallWrite ==
    /\ writes /\ ~destroying
    /\ Step(Ros, "idle", "write")
    /\ UNCHANGED <<linkVars, rser, wser, nodeVars, portVars>>

DestroyNode ==
    /\ Step(Ros, "idle", IF writes THEN "write" ELSE "stop")
    /\ destroying' = TRUE
    /\ UNCHANGED <<linkVars, rser, wser, writes, outlived, portVars>>

StopBegin ==
    /\ Step(Ros, "stop", "join")
    /\ stopEvt' = TRUE
    /\ UNCHANGED <<ser, flag, lock, rser, wser, nodeVars, portVars>>

\* Mutants: stop() closes without waiting for the reader; it never closes.
StopDoesNotJoin ==
    /\ Step(Ros, "join", "close.test")
    /\ UNCHANGED <<linkVars, rser, wser, nodeVars, portVars>>
StopDoesNotClose ==
    /\ Step(Ros, "join", "stopped")
    /\ ReaderGone
    /\ UNCHANGED <<linkVars, rser, wser, nodeVars, portVars>>

StopJoined ==
    /\ Step(Ros, "join", "close.test")
    /\ outlived' = ~ReaderGone
    /\ UNCHANGED <<linkVars, rser, wser, writes, destroying, portVars>>

(***************************************************************************)
(* The device (external).                                                  *)
(***************************************************************************)
Unplug ==
    /\ plugged
    /\ plugged' = FALSE
    /\ fd' = [h \in Handles |-> IF fd[h] = "live" THEN "dead" ELSE fd[h]]
    /\ UNCHANGED <<linkVars, threadVars>>

Plug ==
    /\ ~plugged
    /\ plugged' = TRUE
    /\ UNCHANGED <<linkVars, threadVars, fd>>

Write(t) ==
    \/ WriteEnter(t) \/ WriteRefused(t) \/ WriteAllowed(t) \/ WriteLock(t)
    \/ WriteSent(t) \/ WriteFailed(t) \/ WriteRaised(t)
Close(t)  == CloseTest(t) \/ CloseCall(t) \/ CloseNull(t) \/ CloseClear(t)
Run       == LoopHead \/ TakeLocal \/ ReadEnter \/ ReadReturned \/ ReadFailed \/ ReadRaised
Configure == Configured \/ ConfigFailed \/ ConfigRaised
TryOpen   ==
    \/ OpenPort \/ OpenFailed \/ OpenRaised \/ Configure \/ SetFlag
    \/ FailedNull \/ FailedClear
Stop      == StopBegin \/ StopJoined

\* The histories that every step adds to.
Undecided == pc[Ros] \in {"write", "write.flag"}
Opens     == pc[Reader] = "loop" /\ pc'[Reader] = "open"
Closes    == pc[Ros] \in {"close.call", "close.null"} /\ pc'[Ros] # pc[Ros]
Observe ==
    /\ saw' = IF Undecided' THEN {LinkUp'} \union (IF Undecided THEN saw ELSE {}) ELSE {}
    /\ harm' = IF Opens THEN {}
               ELSE harm \union (IF plugged /\ ~plugged' THEN {"unplug"} ELSE {})
                         \union (IF Closes THEN {"close"} ELSE {})

ReaderStep  == (Run \/ TryOpen \/ Write(Reader) \/ Close(Reader)) /\ Observe
RosStep     == (Stop \/ Write(Ros) \/ Close(Ros)) /\ Observe
TakeLock(t) == WriteLock(t) /\ Observe
World       == (CallWrite \/ DestroyNode \/ Unplug \/ Plug) /\ Observe

Next == ReaderStep \/ RosStep \/ World

(***************************************************************************)
(* Each thread is scheduled, and one that waits for the write lock gets it *)
(* if it is released again and again (the other thread holds it for one    *)
(* write at a time).  Nothing makes a callback write, the node stop or the *)
(* cable move.                                                             *)
(***************************************************************************)
Spec ==
    /\ Init /\ [][Next]_vars
    /\ WF_vars(ReaderStep) /\ WF_vars(RosStep)
    /\ \A t \in Threads : SF_vars(TakeLock(t))
-----------------------------------------------------------------------------
(***************************************************************************)
(* Properties.                                                             *)
(***************************************************************************)

\* With a node that only reads, no handle is left open that self._ser does not
\* name, so that the port the reader wants to open is never held by a handle this
\* process forgot (_try_open() and _close() drop a handle in several places).
NoForgottenHandle == ~writes /\ ~outlived => opened \subseteq {ser}

\* The reader never tries to open the port while the local of run() still
\* holds it: exclusive=True would refuse every retry for good.
NeverLocksItselfOut == pc[Reader] = "open" => rser \notin live

\* With a node that only reads, is_open, which feeds link_ok in the status message,
\* is true only of an open handle, except inside a _close() that is about to clear it.
FlagMeansOpen ==
    ~writes /\ ~outlived /\ flag =>
        \/ ser \in opened
        \/ \E t \in Threads : pc[t] \in {"close.null", "close.clear"}

\* Nothing that run() and _try_open() do by themselves ends the reader thread: when an
\* exception did, the device was lost or the node's thread was in _close() since the
\* port was last opened; with a node that only reads, and before stop() gives up on the
\* reader, only a lost device can be the cause (it is one: OpenRaised, ConfigRaised).
OnlyOthersEndReader ==
    pc[Reader] = "dead" =>
        /\ harm # {}
        /\ ~writes /\ ~outlived => "unplug" \in harm

\* When stop() has returned after the reader, the port is released and is_open
\* says so, whatever the two threads did to each other before.
ReleasedAfterStop ==
    pc[Ros] = "stopped" /\ ~outlived => opened = {} /\ ser = None /\ ~flag

\* An unplugged cable comes back by itself, if no exception ended the reader: when the
\* device stays attached and nobody shuts a node down that only reads, the link is
\* connected again and again (the reopen loop).  Without the reader nothing reopens it.
Reconnects ==
    <>[](plugged /\ ~destroying /\ ~writes /\ pc[Reader] # "dead") => []<>Connected

\* A lost device is noticed: while it stays away and the node runs, is_open ends up false.
\* Only a node that writes may miss it, and only when an exception ended its reader.
LossIsNoticed ==
    <>[](~plugged /\ ~destroying /\ (writes => pc[Reader] # "dead")) => <>[]~flag

\* Shutdown ends: stop() returns and the reader thread with it.
ShutdownEnds == destroying ~> (pc[Ros] = "stopped" /\ ReaderGone)

\* What the node counts on when it writes: a write is refused or started by what the
\* link was during the call, ends, and leaves the link down when it failed, whatever
\* the reader thread opens and closes meanwhile.
NodeCall ==
    CASE Undecided -> "calling"
      [] pc[Ros] \in {"write.lock", "write.send"} -> "writing"
      [] pc[Ros] \in ClosePcs /\ ~stopEvt -> "failing"
      [] OTHER -> "idle"
Contract == INSTANCE LinkContract WITH up <- LinkUp, call <- NodeCall
KeepsContract == Contract!Spec

(***************************************************************************)
(* The inductive invariants behind the safety properties: which locals a   *)
(* thread holds where, and when the other thread is out of the way.        *)
(***************************************************************************)
LocalsInv ==
    /\ opened \subseteq Referenced
    /\ \A t \in Threads : wser[t] # None => pc[t] \in WritePcs \union ClosePcs
    /\ ReaderGone => rser = None
    /\ pc[Reader] = "open" => ser = None
    /\ stopEvt => pc[Ros] \in ClosePcs \union {"join", "stopped"} /\ wser[Ros] = None
    /\ pc[Ros] \in {"join", "stopped"} => stopEvt
    /\ outlived => stopEvt /\ pc[Ros] # "join"

\* stop() closes after the reader: nobody opens the port again.
StopInv ==
    ~outlived /\ stopEvt /\ pc[Ros] # "join" =>
        /\ ReaderGone
        /\ pc[Ros] \in {"close.clear", "stopped"} => ser = None
        /\ pc[Ros] = "stopped" => ~flag

\* What the reader can find gone, somebody took.
HarmInv ==
    /\ pc[Reader] = "dead" => harm # {}
    /\ pc[Reader] = "config" /\ ser \notin live => harm # {}
    /\ pc[Reader] = "write.send" /\ wser[Reader] \notin opened => "close" \in harm

\* Of a node that only reads, the reader thread has the link for itself.
Closing == \E t \in Threads : pc[t] \in {"close.null", "close.clear"}
ReadOnlyInv ==
    ~writes /\ ~outlived =>
        /\ \A t \in Threads : wser[t] = None /\ pc[t] \notin WritePcs
        /\ pc[Reader] = "dead" => "unplug" \in harm
        /\ pc[Reader] = "config" /\ ser \notin live => "unplug" \in harm
        /\ pc[Ros] \in ClosePcs => stopEvt
        /\ opened \subseteq {ser}
        /\ pc[Reader] = "config" => ser \in opened
        /\ pc[Reader] = "flag" => ser \in opened
        /\ pc[Reader] \in {"config", "flag", "failed"} => ser = None \/ ser # rser
        /\ pc[Reader] \in {"config", "flag", "failed"} => ~flag
        /\ \A t \in Threads : pc[t] = "close.null" => ser \notin opened
        /\ flag => ser \in opened \/ Closing

\* What the node's write() has seen of the link: a handle it took before the
\* link was up will be up when the reader thread sets the flag.
ContractInv ==
    /\ IF Undecided THEN LinkUp \in saw ELSE saw = {}
    /\ pc[Ros] = "write.flag" =>
         /\ wser[Ros] = None => FALSE \in saw
         /\ wser[Ros] # None /\ TRUE \notin saw =>
              ~flag /\ (pc[Reader] = "flag" => ser # None)
=============================================================================
