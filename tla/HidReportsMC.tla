----------------------------- MODULE HidReportsMC -----------------------------
(***************************************************************************)
(* Scenarios of HidReports for TLC, in bytes of two bits.                  *)
(***************************************************************************)
EXTENDS HidReports, TLC

CONSTANTS c1, c2   \* the characteristics, interchangeable

(* One report of two bytes, with axes of one and two bits, signed and        *)
(* unsigned, that straddle the bytes; with words of two bits their sums pass *)
(* either limit.                                                             *)
Motion(c) ==
    [reports |-> 1, fields |-> 4, bytes |-> 2, depth |-> 1, locals |-> 1,
     pages |-> {}, minima |-> {<<3, 1>>}, sizes |-> {1, 2}, ids |-> {}, counts |-> {1},
     usages |-> {<<Page(1) + 48, 4>>, <<Page(1) + 49, 4>>, <<MouseUsage, 4>>}, kinds |-> {},
     characteristics |-> {c}]

(* A button in two reports, each sent by either or both of two               *)
(* characteristics.                                                          *)
Pressing ==
    [reports |-> 2, fields |-> 4, bytes |-> 1, depth |-> 1, locals |-> 1,
     pages |-> {}, minima |-> {}, sizes |-> {1}, ids |-> {1}, counts |-> {1},
     usages |-> {<<Page(1) + 48, 4>>, <<Page(1) + 49, 4>>, <<MouseUsage, 4>>, <<Page(9) + 1, 4>>},
     kinds |-> {}, characteristics |-> {c1, c2}]

MCScenarios == {Motion(c1), Motion(c2), Pressing}

MCSymmetry == Permutations({c1, c2})
===============================================================================
