----------------------------- MODULE MCAgentQueue -----------------------------
(***************************************************************************)
(* An instance of AgentQueue for TLC.  Two halves are together one byte     *)
(* larger than their parent, and encryption doubles a payload, so splitting *)
(* and quarantining both need room.                                         *)
(***************************************************************************)
EXTENDS AgentQueue

MCPlainSize  == [n \in 1..MaxSamples |-> n + 1]
MCSealedSize == [n \in 1..MaxSamples |-> 2 * n + 1]
=============================================================================
