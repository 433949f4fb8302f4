------------------------------ MODULE ReceiverMC -------------------------------
(***************************************************************************)
(* Instances of Receiver for TLC.                                          *)
(***************************************************************************)
EXTENDS Receiver, MouseClientMC
================================================================================
