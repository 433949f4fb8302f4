-------------------------------- MODULE Receiver -------------------------------
(***************************************************************************)
(* The client as the output's caller: MouseClient, with its calls of       *)
(* zmk_mouse_output_receive and zmk_mouse_output_disconnect recorded, and  *)
(* shown to keep to MouseSession, the contract MouseOutput relies on.      *)
(***************************************************************************)
EXTENDS MouseClient

VARIABLE delivered  \* history: reports were accepted since the last disconnect call

allVars == <<vars, delivered>>

(* notify_cb hands a report of this connection to zmk_mouse_output_receive.  *)
Accepts(conn) ==
    /\ link[conn] \in {"up", "closing"}
    /\ valid_callback(conn)
    /\ stage = "READY"

Accepting == \E m \in Mice : Accepts(m)

MutOnlyForgetDisconnects == Delete \/ (Forget /\ peer = None)

(* The steps that call zmk_mouse_output_disconnect: disconnected_work_cb,    *)
(* and forget_peer when it gets as far.                                      *)
DisconnectCalled == Release \/ Delete \/ (Forget /\ peer = None)

(* A power loss ends the output with the client.                             *)
Record ==
    delivered' = IF DisconnectCalled \/ PowerLoss THEN FALSE ELSE delivered \/ Accepting'

ReceiverInit == Init /\ delivered = FALSE

ReceiverNext == Next /\ Record

ReceiverSpec == ReceiverInit /\ [][ReceiverNext]_allVars /\ Fairness

OutputSession ==
    IF ~delivered THEN "down" ELSE IF Accepting THEN "up" ELSE "closing"

Contract == INSTANCE MouseSession WITH session <- OutputSession

(* The client implements MouseSession: a session that was accepted once is   *)
(* not resumed, after its last report exactly the calls come that reset the  *)
(* output, before the next session opens, and they do come.  This discharges *)
(* what MouseOutput assumes of notify_cb, finish_ready, disconnected_work_cb *)
(* and forget_peer.                                                          *)
ImplementsSession == Contract!Spec
================================================================================
