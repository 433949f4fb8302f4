----------------------------- MODULE MouseOutputMC -----------------------------
(* Small instances of MouseOutput for TLC. *)
EXTENDS MouseOutput

(* One motion that fits a packet, one that needs two (with both signs on     *)
(* different axes), one that exceeds every packet the loop may make.         *)
MCAxes == {"x", "wheel"}
MCLimit == [a \in MCAxes |-> IF a = "x" THEN 2 ELSE 1]
MCStill == [a \in MCAxes |-> 0]
MCMotions == {MCStill, [x |-> 3, wheel |-> -1], [x |-> 0, wheel |-> -4]}
================================================================================
