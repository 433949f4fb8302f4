----------------------------- MODULE MouseClientMC -----------------------------
(***************************************************************************)
(* Instances of MouseClient for TLC.                                       *)
(***************************************************************************)
EXTENDS MouseClient, TLC

Report(reference, useful, ccc, covers) ==
    [reference |-> reference, useful |-> useful, ccc |-> ccc, covers |-> covers]

Profile(map, reports, protocol) == [map |-> map, reports |-> reports, protocol |-> protocol]

MCNeeds == {"buttons", "axes"}

Whole == Report(TRUE, TRUE, TRUE, MCNeeds)
Buttons == Report(TRUE, TRUE, TRUE, {"buttons"})
Axes == Report(TRUE, TRUE, TRUE, {"axes"})
Vendor == Report(TRUE, FALSE, FALSE, {})
Nameless == Report(FALSE, TRUE, TRUE, MCNeeds)
Silent == Report(TRUE, TRUE, FALSE, MCNeeds)

(* One report carries everything.                                            *)
MCOneReport == {Profile("good", <<Whole>>, "none")}

(* Databases to discover: reports to be skipped, read or subscribed in turn, *)
(* and those to be refused, for each reason the code has.                    *)
MCDatabases ==
    {Profile("good", <<Buttons, Axes>>, "write"),
     Profile("good", <<Vendor, Whole>>, "command"),
     Profile("good", <<Silent>>, "none"),
     Profile("good", <<Buttons, Nameless>>, "none"),
     Profile("good", <<Whole, Vendor, Vendor>>, "none"),
     Profile("bad", <<Whole>>, "none"),
     Profile("none", <<Whole>>, "none")}

MCSymmetry == Permutations(Mice)

Presses(p, c, w) == [pair |-> p, clear |-> c, power |-> w]

Scenario(mice, others, stored, faults, profiles, presses) ==
    [mice |-> mice, others |-> others, stored |-> stored, faults |-> faults,
     profiles |-> profiles, budget |-> presses]

(* Two mice and another device compete for the bond slots.                   *)
Slots == Scenario(Mice, Others, {None}, {"settings"}, MCOneReport, Presses(1, 1, 0))

(* One mouse, new or saved, with any database, and failing calls.            *)
Setup(m) == Scenario({m}, {}, {None, m}, FaultKinds \ {"disconnect", "unpair"}, MCDatabases,
                     Presses(1, 0, 0))

(* One mouse, any call failing, Mouse Clear and a power loss.                *)
AllFaults(m) == Scenario({m}, {}, {None, m}, FaultKinds, MCOneReport, Presses(1, 1, 1))

(* A saved mouse, Mouse Clear and a power loss in the middle of it, then     *)
(* Clear again; flash does not fail.                                         *)
Clearing(m) == Scenario({m}, {}, {m}, {}, MCOneReport, Presses(0, 2, 1))

MCSafety ==
    {Slots} \cup {Setup(m) : m \in Mice} \cup {AllFaults(m) : m \in Mice}
            \cup {Clearing(m) : m \in Mice}

(* One mouse, new or saved; it and flash may fail, but the host does not.    *)
Fallible(m, faults, presses) ==
    Scenario({m}, {}, {None, m}, faults, MCOneReport, presses)

MCLiveness ==
    {Fallible(m, {"connect", "security", "gatt", "settings"}, Presses(1, 0, 0)) : m \in Mice}

(* The same, with Mouse Clear.                                               *)
MCClear == {Fallible(m, {"gatt", "settings"}, Presses(1, 1, 0)) : m \in Mice}

(* Nothing fails but the power.                                              *)
MCPower == {Scenario({m}, {}, {None}, {}, MCOneReport, Presses(1, 1, 1)) : m \in Mice}
================================================================================
