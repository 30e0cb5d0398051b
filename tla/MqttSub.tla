------------------------------- MODULE MqttSub -------------------------------
(***************************************************************************)
(* The subscribing MQTT client: the loop of mqttsub_entry and subscribe-   *)
(* Topics (cloud/mqtt/mqttsubMain.cpp) over MqttClient::connect and        *)
(* ::subscribe (cloud/mqtt/MqttClient.cpp).  The loop alone reconnects; a  *)
(* clean session starts without subscriptions, so every new connection has *)
(* to be subscribed again, and nobody subscribes a connection that came up *)
(* while the loop had already given up waiting for it.                     *)
(* The paho client and the broker are external: an attempt to connect ends *)
(* with a CONNACK or after CONNECT_TIMEOUT_SEC.  Time is in seconds.       *)
(***************************************************************************)
EXTENDS Naturals, FiniteSets

CONSTANTS Topics,      \* m_topics
          MayRefuse    \* the broker or the client may refuse a subscription

ASSUME SubAssumption == MayRefuse \in BOOLEAN /\ Topics # {}

VARIABLES pc,            \* where the loop of mqttsub_entry is
          todo,          \* the topics subscribeTopics has still to ask for
          wasConnected,
          link,          \* the paho client: down, pending or up
          elapsed,       \* seconds since the attempt began
          session,       \* the topics the broker delivers to this connection
          broker         \* the broker can be reached

subscriberVars == <<pc, todo, wasConnected, link, elapsed, session, broker>>

CONNECT_TIMEOUT_SEC == 5

\* MUTANT of ConnectWait: the wait is taken for the timeout in other units.
ConnectWaitShort == CONNECT_TIMEOUT_SEC - 1

\* CONNECT_WAIT_MS, in seconds.
ConnectWait == CONNECT_TIMEOUT_SEC + 1

SubInit ==
  /\ pc = "check"
  /\ todo = {}
  /\ wasConnected = FALSE
  /\ link = "down"
  /\ elapsed = 0
  /\ session = {}
  /\ broker \in BOOLEAN

-----------------------------------------------------------------------------
(* mqttsub_entry.                                                          *)

\* MUTANT of Check: only the first connection is made by the loop.
CheckFirstOnly ==
  /\ pc = "check"
  /\ IF link = "up" \/ wasConnected
       THEN pc' = "sleep" /\ UNCHANGED wasConnected
       ELSE pc' = "connect" /\ wasConnected' = FALSE
  /\ UNCHANGED <<todo, link, elapsed, session, broker>>

Check ==
  /\ pc = "check"
  /\ IF link = "up"
       THEN pc' = "sleep" /\ UNCHANGED wasConnected
       ELSE pc' = "connect" /\ wasConnected' = FALSE
  /\ UNCHANGED <<todo, link, elapsed, session, broker>>

Sleep ==
  /\ pc = "sleep"
  /\ pc' = "check"
  /\ UNCHANGED <<todo, wasConnected, link, elapsed, session, broker>>

-----------------------------------------------------------------------------
(* MqttClient::connect.                                                    *)

\* connect returned true: every topic is to be subscribed.
Connected == pc' = "subscribe" /\ todo' = Topics

\* connect returned false: the loop sleeps and tries again.
NotConnected == pc' = "sleep" /\ UNCHANGED todo

\* The connection may have come up since the loop looked; paho throws when an
\* attempt is still pending.
Connect ==
  /\ pc = "connect"
  /\ \/ link = "up" /\ Connected /\ UNCHANGED <<link, elapsed>>
     \/ link = "pending" /\ NotConnected /\ UNCHANGED <<link, elapsed>>
     \/ /\ link = "down"
        /\ link' = "pending" /\ elapsed' = 0
        /\ pc' = "wait" /\ UNCHANGED todo
  /\ UNCHANGED <<wasConnected, session, broker>>

\* The token is completed, or the wait for it is over.
WaitReturns ==
  /\ pc = "wait"
  /\ \/ link = "up" /\ Connected
     \/ link = "down" /\ NotConnected
     \/ link = "pending" /\ elapsed >= ConnectWait /\ NotConnected
  /\ UNCHANGED <<wasConnected, link, elapsed, session, broker>>

-----------------------------------------------------------------------------
(* subscribeTopics.                                                        *)

\* MUTANT of Subscribe: the connection is not looked at.
SubscribeUnchecked(t) ==
  /\ pc = "subscribe" /\ t \in todo
  /\ todo' = todo \ {t}
  /\ session' \in IF MayRefuse THEN {session, session \cup {t}} ELSE {session \cup {t}}
  /\ UNCHANGED <<pc, wasConnected, link, elapsed, broker>>

\* A topic is skipped when the connection is gone; that a subscription fails,
\* at once or in its SUBACK, is only logged.
Subscribe(t) ==
  /\ pc = "subscribe" /\ t \in todo
  /\ todo' = todo \ {t}
  /\ session' \in IF link # "up" THEN {session}
                  ELSE IF MayRefuse THEN {session, session \cup {t}}
                  ELSE {session \cup {t}}
  /\ UNCHANGED <<pc, wasConnected, link, elapsed, broker>>

Subscribed ==
  /\ pc = "subscribe" /\ todo = {}
  /\ wasConnected' = TRUE
  /\ pc' = "sleep"
  /\ UNCHANGED <<todo, link, elapsed, session, broker>>

-----------------------------------------------------------------------------
(* The paho client, the network and the broker.                            *)

Connack ==
  /\ link = "pending" /\ broker
  /\ link' = "up"
  /\ session' = {}
  /\ UNCHANGED <<pc, todo, wasConnected, elapsed, broker>>

AttemptFails ==
  /\ link = "pending"
  /\ elapsed >= CONNECT_TIMEOUT_SEC \/ ~broker
  /\ link' = "down"
  /\ UNCHANGED <<pc, todo, wasConnected, elapsed, session, broker>>

ConnectionLost ==
  /\ link = "up" /\ ~broker
  /\ link' = "down"
  /\ session' = {}
  /\ UNCHANGED <<pc, todo, wasConnected, elapsed, broker>>

BrokerChanges ==
  /\ broker' = ~broker
  /\ UNCHANGED <<pc, todo, wasConnected, link, elapsed, session>>

\* An attempt does not outlive its timeout.
Tick ==
  /\ link = "pending" /\ elapsed < CONNECT_TIMEOUT_SEC
  /\ elapsed' = elapsed + 1
  /\ UNCHANGED <<pc, todo, wasConnected, link, session, broker>>

-----------------------------------------------------------------------------
MainLoop ==
  \/ Check \/ Sleep \/ Connect \/ WaitReturns \/ Subscribed
  \/ \E t \in Topics : Subscribe(t)

Client == Connack \/ AttemptFails \/ ConnectionLost

SubNext == MainLoop \/ Client \/ BrokerChanges \/ Tick

SubSpec == SubInit /\ [][SubNext]_subscriberVars

\* The thread of the loop and the threads of paho run, and time passes; a
\* broker that stays up accepts a connection sooner or later.
SubFairness ==
  /\ WF_subscriberVars(MainLoop)
  /\ WF_subscriberVars(Client)
  /\ WF_subscriberVars(Tick)
  /\ SF_subscriberVars(Connack)

-----------------------------------------------------------------------------
\* Types; only a connection that is up has subscriptions.
SubTypeOK ==
  /\ pc \in {"check", "sleep", "connect", "wait", "subscribe"}
  /\ todo \subseteq Topics /\ session \subseteq Topics
  /\ wasConnected \in BOOLEAN /\ broker \in BOOLEAN
  /\ link \in {"down", "pending", "up"}
  /\ elapsed \in 0 .. CONNECT_TIMEOUT_SEC
  /\ session # {} => link = "up"

\* mqttsub_entry: the loop never rests on a connection that is not subscribed
\* to every topic.
ConnectedIsSubscribed ==
  pc \in {"sleep", "check"} /\ link = "up" => session = Topics
=============================================================================
