------------------------------ MODULE Realtime ------------------------------
(***************************************************************************)
(* The fan-out of a tenant's events to the consoles connected to it.       *)
(*                                                                         *)
(* Redis delivers what is published to a channel to the connections that   *)
(* have subscribed, and to nobody else.  Each connection runs three tasks: *)
(* one moves events from Redis to a bounded buffer, one from the buffer to *)
(* the client, one answers the client's pings through the same buffer.     *)
(* The first task that ends closes the connection.  Of an event the model  *)
(* keeps whether it is an alert, an ordinary event or a pong; a message    *)
(* that is none of these is skipped where it arrives.                      *)
(***************************************************************************)
EXTENDS Naturals, Sequences, SequencesExt

CONSTANTS
  Consoles,    \* clients of one tenant
  Capacity,    \* events a buffer holds (100)
  MaxChannel,  \* bound on what Redis holds for a connection
  Notices      \* devices that alert events can name

ASSUME CapacityAssumption == Capacity \in Nat \ {0} /\ MaxChannel \in Nat \ {0}

VARIABLES
  link,     \* connections: "closed" or "open"
  channel,  \* what Redis has for each connection
  buffer,   \* BoundedClientBuffer of each connection
  owed      \* history: alerts published since the subscription and not yet sent

realtimeVars == <<link, channel, buffer, owed>>

Event(k, n) == [kind |-> k, notice |-> n]
Alert(n)   == Event("alert", n)
Telemetry  == Event("telemetry", "none")
Pong       == Event("pong", "none")

Critical(e)  == e.kind \in {"alert", "pong"}
IsAlert(e)   == e.kind = "alert"

\* The alerts of s, in their order.
AlertsUpTo(s) ==
  LET alerts[n \in 0..Len(s)] ==
        IF n = 0 THEN <<>>
        ELSE IF IsAlert(s[n]) THEN Append(alerts[n - 1], s[n]) ELSE alerts[n - 1]
  IN  alerts
Alerts(s) == AlertsUpTo(s)[Len(s)]

AlertEvents == {Alert(n) : n \in Notices}

\* Types; in particular a buffer never holds more than its capacity (hub.py, put).
RealtimeTypeOK ==
  /\ link \in [Consoles -> {"closed", "open"}]
  /\ channel \in [Consoles -> Seq({Telemetry} \cup AlertEvents)]
  /\ buffer \in [Consoles -> Seq({Telemetry, Pong} \cup AlertEvents)]
  /\ owed \in [Consoles -> Seq(AlertEvents)]
  /\ \A v \in Consoles : Len(channel[v]) <= MaxChannel /\ Len(buffer[v]) <= Capacity
-----------------------------------------------------------------------------
(* BoundedClientBuffer.                                                     *)

\* Mutant of Oldest: whatever is oldest makes room.
OldestOfAny(s) == IF s = <<>> THEN 0 ELSE 1

\* Position of the oldest ordinary event, 0 when there is none.
Oldest(s) == SelectInSeq(s, LAMBDA e : ~Critical(e))

Refuses(s, e) == Len(s) >= Capacity /\ (~Critical(e) \/ Oldest(s) = 0)

\* Mutant of Put: an alert that displaces nothing is kept all the same.
PutAnyway(s, e) ==
  IF Len(s) >= Capacity /\ ~Critical(e) THEN s
  ELSE Append(IF Len(s) >= Capacity /\ Oldest(s) # 0 THEN RemoveAt(s, Oldest(s)) ELSE s, e)

Put(s, e) ==
  IF Refuses(s, e) THEN s
  ELSE Append(IF Len(s) >= Capacity THEN RemoveAt(s, Oldest(s)) ELSE s, e)
-----------------------------------------------------------------------------
\* The end of a connection takes its subscription and its buffer along.
Close(v) ==
  /\ link' = [link EXCEPT ![v] = "closed"]
  /\ channel' = [channel EXCEPT ![v] = <<>>]
  /\ buffer' = [buffer EXCEPT ![v] = <<>>]
  /\ owed' = [owed EXCEPT ![v] = <<>>]

\* The session is checked once, here; then the connection subscribes.
Connect(v) ==
  /\ link[v] = "closed"
  /\ link' = [link EXCEPT ![v] = "open"]
  /\ UNCHANGED <<channel, buffer, owed>>

\* Publishing waits for nobody; the guard bounds the model.
Broadcast(e) ==
  /\ \A v \in Consoles : Len(channel[v]) < MaxChannel
  /\ channel' = [v \in Consoles |-> IF link[v] = "open" THEN Append(channel[v], e) ELSE channel[v]]
  /\ owed' = [v \in Consoles |-> IF link[v] = "open" /\ IsAlert(e) THEN Append(owed[v], e)
                                 ELSE owed[v]]
  /\ UNCHANGED <<link, buffer>>

\* receive_redis: an alert that finds no room closes the connection (1013).
ReceiveRedis(v) ==
  /\ channel[v] # <<>>
  /\ LET e == Head(channel[v]) IN
     IF IsAlert(e) /\ Refuses(buffer[v], e) THEN Close(v)
     ELSE /\ channel' = [channel EXCEPT ![v] = Tail(@)]
          /\ buffer' = [buffer EXCEPT ![v] = Put(@, e)]
          /\ UNCHANGED <<link, owed>>

SendClient(v) ==
  /\ buffer[v] # <<>>
  /\ buffer' = [buffer EXCEPT ![v] = Tail(@)]
  /\ owed' = IF IsAlert(Head(buffer[v])) THEN [owed EXCEPT ![v] = Tail(@)] ELSE owed
  /\ UNCHANGED <<link, channel>>

\* receive_client: the pong is critical, and dropped when it finds no room.
ReceiveClient(v) ==
  /\ link[v] = "open"
  /\ buffer' = [buffer EXCEPT ![v] = Put(@, Pong)]
  /\ UNCHANGED <<link, channel, owed>>

\* Anything but a ping, an error of the socket or of Redis, a restart.
Disconnect(v) == link[v] = "open" /\ Close(v)

RealtimeInit ==
  /\ link = [v \in Consoles |-> "closed"]
  /\ channel = [v \in Consoles |-> <<>>]
  /\ buffer = [v \in Consoles |-> <<>>]
  /\ owed = [v \in Consoles |-> <<>>]

RealtimeStep ==
  \/ \E v \in Consoles : Connect(v) \/ ReceiveRedis(v) \/ SendClient(v)
                         \/ ReceiveClient(v) \/ Disconnect(v)
  \/ Broadcast(Telemetry)
-----------------------------------------------------------------------------
\* While a console stays connected it is owed exactly the alerts that wait for
\* it, in the order of their publication: a full buffer, pings and ordinary
\* events never cost it one (hub.py, BoundedClientBuffer.put and serve).
NoAlertLost == \A v \in Consoles : owed[v] = Alerts(buffer[v] \o channel[v])
=============================================================================
