----------------------------- MODULE CentralScanMC -----------------------------
(* Instances of CentralScan for TLC. *)
EXTENDS CentralScan

(* Nothing fails, unpairing does, or both.                                   *)
MCFaultSets == {{}, {"unpair"}, {"stop", "unpair"}}
================================================================================
