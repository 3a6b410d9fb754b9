--------------------------- MODULE MCRemoteActions ---------------------------
(***************************************************************************)
(* Instances of RemoteActions for TLC.  Runners are interchangeable.  The   *)
(* agent's clock is exact or one unit ahead or behind.                      *)
(***************************************************************************)
EXTENDS RemoteActions, TLC

Symmetry == Permutations(Runners)

Exact     == {0}
AnyDrift  == {-1, 0, 1}
=============================================================================
