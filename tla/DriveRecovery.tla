---------------------------- MODULE DriveRecovery -----------------------------
(***************************************************************************)
(* DriveCommand with a history of what the cached command is: was it       *)
(* published before the last e-stop that was reported as sent?  The two    *)
(* variables only observe; every step is a step of DriveCommand.           *)
(***************************************************************************)
EXTENDS DriveCommand

VARIABLES
    prior,   \* how many messages of queue were there when the last e-stop was sent
    old      \* the last command handled was one of those

recoveryVars == <<vars, prior, old>>

Smaller(a, b) == IF a < b THEN a ELSE b

RecoveryInit == Init /\ prior = 0 /\ old = FALSE

Takes ==
    /\ OnCmdVel
    /\ old' = (prior > 0)
    /\ prior' = IF old' THEN prior - 1 ELSE 0

Stops ==
    /\ SrvEstop
    /\ prior' = IF up THEN Len(queue) ELSE 0
    /\ old' = FALSE

\* A full subscription drops its oldest message, an older one if there is any.
Publishes ==
    /\ \E go \in BOOLEAN : Publish(go)
    /\ prior' = IF Len(queue) = QueueDepth /\ prior > 0 THEN prior - 1 ELSE prior
    /\ UNCHANGED old

Goes ==
    /\ \/ TickCommand \/ SrvClearFault \/ SrvQuery
       \/ \E t \in Tasks : SrvStartTask(t) \/ SrvStopTask(t) \/ TaskExits(t)
       \/ \E s \in {"estop", "clear"} : Request(s)
       \/ Unblock \/ DestroyNode \/ Crash \/ Restart
       \/ LinkChanges \/ McuReboots \/ Elapse
    /\ prior' = Smaller(prior, Len(queue'))
    /\ UNCHANGED old

RecoveryNext == Takes \/ Stops \/ Publishes \/ Goes
RecoverySpec == RecoveryInit /\ [][RecoveryNext]_recoveryVars /\ Fairness

\* "Zero the cached command too, so recovery needs a deliberate act": a robot
\* that stands still is not set in motion again by a command that was published
\* before the last e-stop was sent (_srv_estop clears the cache, not the subscription).
RecoveryIsDeliberate == [][~moving /\ moving' => ~old]_recoveryVars
=============================================================================
