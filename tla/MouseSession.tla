----------------------------- MODULE MouseSession ------------------------------
(***************************************************************************)
(* The contract between the client (ble_mouse.c) and the output            *)
(* (mouse_output.c).  Reports are handed over only while the session is    *)
(* up; once it is lost no report follows, zmk_mouse_output_disconnect is   *)
(* owed, and only after that call may a new session begin.  The call may   *)
(* come at other times too, but never during a session.                    *)
(*                                                                         *)
(* MouseOutput takes these actions as its environment, and Receiver shows  *)
(* that the client implements this specification.                          *)
(***************************************************************************)
VARIABLE session

Init == session = "down"

(* finish_ready has set READY: notify_cb accepts reports. *)
Open == session = "down" /\ session' = "up"

(* The link is lost or the client fails: notify_cb accepts no more. *)
Lose == session = "up" /\ session' = "closing"

(* zmk_mouse_output_disconnect *)
Disconnect == session \in {"closing", "down"} /\ session' = "down"

Next == Open \/ Lose \/ Disconnect

(* A call that is owed is made. *)
Fairness == WF_session(session = "closing" /\ Disconnect)

SafeSpec == Init /\ [][Next]_session

Spec == SafeSpec /\ Fairness
================================================================================
