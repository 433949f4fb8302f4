---------------------------- MODULE BondRecordsMC ----------------------------
(* Instances of BondRecords for TLC. *)
EXTENDS BondRecords, TLC

MCSymmetry == Permutations(Peers) \cup Permutations(Secrets)
==============================================================================
