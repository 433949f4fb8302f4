------------------------------ MODULE MouseStream ------------------------------
(***************************************************************************)
(* What mouse_output.c promises about buttons, without its queue, epochs   *)
(* or threads.  A reset may be asked for at any time; it is owed until it  *)
(* is settled, and settling it lifts every button off the host and masks   *)
(* those that were held.  A report of the mouse changes the host's buttons *)
(* only when no reset is owed, and never through the mask.                 *)
(***************************************************************************)
CONSTANT Buttons    \* the buttons of the mouse

VARIABLES down,     \* the buttons the host is told are down
          masked,   \* held since a reset: not shown until released
          owed      \* {}, or {held}: a reset is pending, asked for while held

vars == <<down, masked, owed>>

Init == down = {} /\ masked = {} /\ owed = {}

RequestReset(held) ==
    /\ owed' = {held}
    /\ UNCHANGED <<down, masked>>

Settle ==
    /\ owed # {}
    /\ down' = {}
    /\ masked' \in owed
    /\ owed' = {}

Report(held) ==
    /\ owed = {}
    /\ masked' = masked \cap held
    /\ down' = held \ masked'
    /\ UNCHANGED owed

Next == \/ Settle
        \/ \E held \in SUBSET Buttons : RequestReset(held) \/ Report(held)

(* A host that still sees a button down when a reset is owed gets it lifted. *)
Honoured == (owed # {} /\ down # {}) ~> (down = {})

SafeSpec == Init /\ [][Next]_vars

Spec == SafeSpec /\ Honoured
================================================================================
