---------------------------- MODULE LinkContract ----------------------------
(***************************************************************************)
(* What drive_bridge counts on when it calls SerialLink.write(), which the *)
(* other modules take for granted: the link is up or down and changes on   *)
(* its own; a write is refused only if the link was down during the call,  *)
(* starts only if it was up, and always ends; one that fails leaves the    *)
(* link down.                                                              *)
(***************************************************************************)
VARIABLES
    up,    \* is_open, and a handle to write to
    call,  \* the node's write(): idle, calling (not decided), writing or failing
    saw    \* what up has been since the call began

vars == <<up, call, saw>>

Init == up = FALSE /\ call = "idle" /\ saw = {}

\* The reader thread opens or closes the port.
LinkChanges ==
    /\ up' = ~up
    /\ call' = call
    /\ saw' = IF call = "calling" THEN saw \union {up'} ELSE saw

Call ==
    /\ call = "idle"
    /\ call' = "calling" /\ saw' = {up} /\ up' = up

Refuse ==
    /\ call = "calling" /\ FALSE \in saw
    /\ call' = "idle" /\ saw' = {} /\ up' = up

Start ==
    /\ call = "calling" /\ TRUE \in saw
    /\ call' = "writing" /\ saw' = {} /\ up' = up

Sent ==
    /\ call = "writing"
    /\ call' = "idle" /\ saw' = {} /\ up' = up

\* The port refuses the bytes; write() returns False.
Break ==
    /\ call = "writing"
    /\ call' = "failing" /\ UNCHANGED <<up, saw>>
Fail ==
    /\ call = "failing"
    /\ call' = "idle" /\ saw' = {} /\ up' = FALSE

\* An exception leaves write(): it ends the node, whose destroy_node() calls
\* write() again, or is caught there.
Raise ==
    /\ call = "writing"
    /\ \/ call' = "calling" /\ saw' = {up}
       \/ call' = "idle" /\ saw' = {}
    /\ up' = up

Next == LinkChanges \/ Call \/ Refuse \/ Start \/ Sent \/ Break \/ Fail \/ Raise

Safety == Init /\ [][Next]_vars

\* No write blocks for good.
Spec ==
    /\ Safety
    /\ WF_vars(Refuse \/ Start) /\ WF_vars(Sent \/ Break \/ Fail \/ Raise)
=============================================================================
