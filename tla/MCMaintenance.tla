--------------------------- MODULE MCMaintenance ---------------------------
(* Instances of Maintenance for TLC.                                        *)
EXTENDS Maintenance, TLC

Symmetry == Permutations(Samples) \cup Permutations(Workers)
=============================================================================
