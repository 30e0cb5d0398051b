----------------------------- MODULE MqttClients -----------------------------
(***************************************************************************)
(* The two MQTT clients of the process, each with a connection of its own, *)
(* before the one broker of the configuration (server_address): MqttSub    *)
(* with its variables as they are, and MqttPub.                            *)
(***************************************************************************)
EXTENDS MqttSub

VARIABLES pubPc, pubLink, pubAge, pubTrying

pubVars == <<pubPc, pubLink, pubAge, pubTrying>>
subVars == <<pc, todo, wasConnected, link, elapsed, session>>
allVars == <<subscriberVars, pubVars>>

Pub == INSTANCE MqttPub
         WITH pc <- pubPc, link <- pubLink, age <- pubAge, trying <- pubTrying

ClientsInit == SubInit /\ Pub!Init

Subscriber == (MainLoop \/ Client \/ Tick) /\ UNCHANGED pubVars
Publisher  == (Pub!Entry \/ Pub!Tick \/ Pub!ConnectionLost) /\ UNCHANGED subVars
Broker     == BrokerChanges /\ UNCHANGED pubVars

ClientsNext == Subscriber \/ Publisher \/ Broker

\* The fairness of each client: their threads run and time passes.
ClientsSpec ==
  /\ ClientsInit /\ [][ClientsNext]_allVars
  /\ SubFairness
  /\ Pub!Fairness

-----------------------------------------------------------------------------
\* Types of both clients; only a live connection has subscriptions, publish
\* connects only without a connection, and dates the attempt at its start.
ClientsTypeOK == SubTypeOK /\ Pub!TypeOK

\* However often and whenever the broker went away, once it stays both ways
\* are open again for good: every topic is delivered and publish is connected,
\* whatever the rate of the messages that are to be sent.
ServiceRecovers ==
  <>[]broker => <>[](session = Topics /\ pubLink)
=============================================================================
