------------------------------- MODULE MqttPub -------------------------------
(***************************************************************************)
(* The publishing MQTT client: mqttpub_init, mqttpub_entry (cloud/mqtt/    *)
(* mqttpubMain.cpp) and MqttClient::publish and ::connect (MqttClient.cpp).*)
(* The thread of module MQTTPUB takes one message at a time out of its     *)
(* mailbox.  Without a connection it connects on its own thread, but at    *)
(* most once in PUB_RECONNECT_INTERVAL; the messages between are dropped.  *)
(* Everything the process sends passes this thread, so the time it spends  *)
(* connecting is time nobody is served.  Time is in seconds.               *)
(***************************************************************************)
EXTENDS Naturals

PUB_RECONNECT_INTERVAL == 5

\* The longest an attempt to connect takes.
CONNECT_TIMEOUT_SEC == 5

VARIABLES pc,          \* where publish is: idle or trying
          link,        \* the paho client is connected
          age,         \* seconds since m_lastConnectTry, up to the interval
          trying,      \* seconds the attempt under way has taken
          broker       \* the broker can be reached

vars == <<pc, link, age, trying, broker>>

\* m_lastConnectTry is the epoch of the clock until publish sets it; the first
\* connection was tried by mqttpub_init.
Init ==
  /\ pc = "idle"
  /\ broker \in BOOLEAN
  /\ link \in {FALSE, broker}
  /\ age = PUB_RECONNECT_INTERVAL
  /\ trying = 0

-----------------------------------------------------------------------------
\* A message comes while the client is connected.
Publish ==
  /\ pc = "idle" /\ link
  /\ UNCHANGED vars

\* MUTANT of Drop: the time of every message is taken for that of an attempt.
DropRestarts ==
  /\ pc = "idle" /\ ~link /\ age < PUB_RECONNECT_INTERVAL
  /\ age' = 0
  /\ UNCHANGED <<pc, link, trying, broker>>

\* The last attempt is too recent.
Drop ==
  /\ pc = "idle" /\ ~link /\ age < PUB_RECONNECT_INTERVAL
  /\ UNCHANGED vars

\* MUTANT of Reconnect: the attempt is not dated.
ReconnectUndated ==
  /\ pc = "idle" /\ ~link /\ age = PUB_RECONNECT_INTERVAL
  /\ trying' = 0
  /\ pc' = "trying"
  /\ UNCHANGED <<link, age, broker>>

\* The attempt is dated at its start.
Reconnect ==
  /\ pc = "idle" /\ ~link /\ age = PUB_RECONNECT_INTERVAL
  /\ age' = 0
  /\ trying' = 0
  /\ pc' = "trying"
  /\ UNCHANGED <<link, broker>>

\* The connection is up and the message goes out.
ReconnectSucceeds ==
  /\ pc = "trying" /\ broker
  /\ link' = TRUE
  /\ pc' = "idle"
  /\ UNCHANGED <<age, trying, broker>>

\* Refused at once, or after the timeout; the message is dropped.
ReconnectFails ==
  /\ pc = "trying" /\ ~broker
  /\ pc' = "idle"
  /\ UNCHANGED <<link, age, trying, broker>>

-----------------------------------------------------------------------------
Older(a) == IF a < PUB_RECONNECT_INTERVAL THEN a + 1 ELSE a

\* Time passes; an attempt is not allowed more than its timeout.
Tick ==
  /\ pc = "trying" => trying < CONNECT_TIMEOUT_SEC
  /\ trying' = IF pc = "trying" THEN trying + 1 ELSE trying
  /\ age' = Older(age)
  /\ UNCHANGED <<pc, link, broker>>

ConnectionLost ==
  /\ link /\ ~broker
  /\ link' = FALSE
  /\ UNCHANGED <<pc, age, trying, broker>>

-----------------------------------------------------------------------------
Entry == Publish \/ Drop \/ Reconnect \/ ReconnectSucceeds \/ ReconnectFails

\* Telemetry keeps coming, so that the thread always has a message, and time
\* passes.
Fairness == WF_vars(Entry) /\ WF_vars(Tick) /\ WF_vars(ConnectionLost)

-----------------------------------------------------------------------------
\* Types; an attempt is made only without a connection, and the age of
\* m_lastConnectTry is the time it has taken.
TypeOK ==
  /\ pc \in {"idle", "trying"}
  /\ link \in BOOLEAN /\ broker \in BOOLEAN
  /\ age \in 0 .. PUB_RECONNECT_INTERVAL
  /\ trying \in 0 .. CONNECT_TIMEOUT_SEC
  /\ pc = "trying" => /\ ~link
                      /\ age = trying
=============================================================================
