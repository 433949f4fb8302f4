----------------------------- MODULE AdvertisersMC -----------------------------
(* Instances of Advertisers for TLC. *)
EXTENDS Advertisers, TLC

MCSymmetry == Permutations(Addresses)
================================================================================
