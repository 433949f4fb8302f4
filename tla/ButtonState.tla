------------------------------ MODULE ButtonState ------------------------------
(***************************************************************************)
(* The forwarded-button bookkeeping of button_state.c.  A five-bit mask is *)
(* the set of its one bits; a state says which buttons the host was told   *)
(* are down and which are physically down but kept from the host until     *)
(* they are released.                                                      *)
(***************************************************************************)
EXTENDS Naturals

NoButtons == [forwarded |-> {}, suppressed |-> {}]

ButtonStates(Buttons) == [forwarded : SUBSET Buttons, suppressed : SUBSET Buttons]

MutDropsSuppressed(state, physical) == {}

(* What stays suppressed: only buttons that are still held. *)
StillSuppressed(state, physical) == state.suppressed \cap physical

(* mouse_buttons_update: the new state, and the edges it hands back. *)
MouseButtonsUpdate(state, physical) ==
    LET kept == StillSuppressed(state, physical)
    IN  [forwarded |-> physical \ kept, suppressed |-> kept]

PressEdges(state, physical) ==
    MouseButtonsUpdate(state, physical).forwarded \ state.forwarded

ReleaseEdges(state, physical) ==
    state.forwarded \ MouseButtonsUpdate(state, physical).forwarded

(* mouse_buttons_reset: everything forwarded is released (the caller gets  *)
(* the old forwarded set), everything held is suppressed.                  *)
MouseButtonsReset(physical) == [forwarded |-> {}, suppressed |-> physical]
================================================================================
