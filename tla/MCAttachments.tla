---------------------------- MODULE MCAttachments ----------------------------
(***************************************************************************)
(* Instances of Attachments for TLC.  Files, tickets and workers are each   *)
(* interchangeable.                                                         *)
(***************************************************************************)
EXTENDS Attachments, TLC

Symmetry == Permutations(Files) \cup Permutations(Workers) \cup Permutations(Tickets)
=============================================================================
