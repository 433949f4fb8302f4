------------------------------ MODULE HidParserMC ------------------------------
(***************************************************************************)
(* Scenarios of HidParser for TLC, each with the tables and items in which *)
(* one part of the parser can go wrong.  A byte is one bit, so that the    *)
(* room of a report is its number of bytes.                                *)
(***************************************************************************)
EXTENDS HidParser

(* Two reports filled with padding and cells of two bits, seven bits each.   *)
Layout ==
    [reports |-> 2, fields |-> 3, bytes |-> 7, depth |-> 1, locals |-> 1,
     pages |-> {}, minima |-> {}, sizes |-> {2}, ids |-> {1}, counts |-> {1, 2},
     usages |-> {<<Page(1) + 48, 4>>, <<MouseUsage, 4>>}, kinds |-> {}]

(* Global items saved and restored between the Inputs of two reports, and a  *)
(* third that finds no room.                                                 *)
Saved ==
    [reports |-> 2, fields |-> 2, bytes |-> 2, depth |-> 1, locals |-> 1,
     pages |-> {}, minima |-> {}, sizes |-> {1}, ids |-> {1, 2}, counts |-> {1},
     usages |-> {<<Page(1) + 48, 4>>, <<MouseUsage, 4>>}, kinds |-> {"push"}]

(* Nested collections; mouse, pointer and X of page 1, buttons of page 9; a  *)
(* page and an id that do not fit, a minimum without a value.                *)
Nested ==
    [reports |-> 1, fields |-> 3, bytes |-> 1, depth |-> 3, locals |-> 1,
     pages |-> {1, 9, 65536}, minima |-> {<<0, 0>>}, sizes |-> {1}, ids |-> {256}, counts |-> {1},
     usages |-> {<<1, 1>>, <<2, 1>>, <<48, 1>>}, kinds |-> {"physical"}]

(* Lists and ranges of usages: the first and the last of three buttons.      *)
Ranges ==
    [reports |-> 1, fields |-> 3, bytes |-> 3, depth |-> 1, locals |-> 2,
     pages |-> {}, minima |-> {}, sizes |-> {1}, ids |-> {}, counts |-> {2, 3},
     usages |-> {<<Page(9) + 1, 4>>, <<Page(9) + 3, 4>>, <<MouseUsage, 4>>}, kinds |-> {"range"}]

MCScenarios == {Layout, Saved, Nested, Ranges}
================================================================================
