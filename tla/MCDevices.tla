----------------------------- MODULE MCDevices -----------------------------
(***************************************************************************)
(* Instances of Devices for TLC.  Devices and calls are each               *)
(* interchangeable; tokens are numbered in the order of their issue.       *)
(***************************************************************************)
EXTENDS Devices, TLC

Symmetry == Permutations(Devices) \cup Permutations(Calls)
=============================================================================
