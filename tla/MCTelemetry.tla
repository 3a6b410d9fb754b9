------------------------------ MODULE MCTelemetry ------------------------------
(***************************************************************************)
(* Instances of Telemetry for TLC; the payload sizes are those of           *)
(* MCAgentQueue.                                                            *)
(***************************************************************************)
EXTENDS Telemetry

MCPlainSize  == [n \in 1..MaxSamples |-> n + 1]
MCSealedSize == [n \in 1..MaxSamples |-> 2 * n + 1]
=============================================================================
