----------------------------- MODULE Monitoring -----------------------------
(***************************************************************************)
(* Alerts from the samples of a device to the consoles: the workers of     *)
(* Alerts publish to the connections of Realtime.                          *)
(***************************************************************************)
EXTENDS Alerts, Realtime

\* An event can name every device.
ASSUME NoticesAssumption == Devices \subseteq Notices

vars == <<alertVars, realtimeVars>>

\* Types of both parts: buffers stay within their capacity and a worker writes a
\* device at most once in a cycle (hub.py, put; postgres.py, evaluate_alerts).
MonitoringTypeOK == AlertTypeOK /\ RealtimeTypeOK

\* An announcement reaches Redis, or fails there and is given up.
Announce(w) ==
  /\ Publish(w)
  /\ Broadcast(Alert(NoticeOf(w))) \/ UNCHANGED realtimeVars

Init == AlertInit /\ RealtimeInit

WorkerStep(w) ==
  \/ Transaction(w) /\ UNCHANGED realtimeVars
  \/ Announce(w)

Next ==
  \/ \E w \in Workers : WorkerStep(w) \/ (FailCycle(w) /\ UNCHANGED realtimeVars)
  \/ /\ \/ CreateRule \/ Tick
        \/ \E d \in Devices, a \in Ages, v \in {"high", "low"} : StoreSample(d, a, v)
     /\ UNCHANGED realtimeVars
  \/ RealtimeStep /\ UNCHANGED alertVars

\* run_forever goes on after every cycle and every error.
Fairness == \A w \in Workers : WF_vars(WorkerStep(w))
Spec == Init /\ [][Next]_vars /\ Fairness
-----------------------------------------------------------------------------
(* The inductive invariant behind MonitoringTypeOK, CommitsAreCurrent and  *)
(* NoAlertLost.                                                            *)
MonitoringInv == MonitoringTypeOK /\ WorkerInv /\ ApartInv /\ WritesHold /\ NoAlertLost
=============================================================================
