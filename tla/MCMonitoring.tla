---------------------------- MODULE MCMonitoring ----------------------------
(***************************************************************************)
(* Instances of Monitoring for TLC.  No symmetry: the run checks liveness. *)
(***************************************************************************)
EXTENDS Monitoring

MCDevices == {1}
=============================================================================
