------------------------------- MODULE Routing -------------------------------
(***************************************************************************)
(* The way of a message from the broker to its handler: the topics         *)
(* MqttSubMain subscribes (loadSubTopics), onRead, the entry functions and *)
(* the message tables of the modules (cloud/mqtt/mqttsubMain.cpp, the      *)
(* *Main.cpp and *RequestManager.cpp of the modules), down to the entry of *)
(* m_pendingRequests a reply finds and to m_drcState of RcProperties       *)
(* (cloud/device).  A topic is a kind and the serial number in it; requests*)
(* are numbered, and the number stands for the tid.  What the handlers do  *)
(* with commands and telemetry is in the modules about them; how a request *)
(* is woken, or gives up, under its locks is RequestContext.               *)
(***************************************************************************)
EXTENDS Naturals, Sequences, FiniteSets

CONSTANTS aircraft_sn, dock_sn,  \* serial numbers of the configuration
          Ends,                  \* <<s, t>>: the serial number s ends with t
          Lines,                 \* kinds of the lines of the topics file
          DrcStates,             \* the drc_state values of a run
          MaxAsked,              \* bound on the requests of a run
          MaxMessages,           \* bound on the other messages
          DEVICE_THREAD_COUNT

\* The methods the two controllers send.
FlytoMethods == {"takeoff_to_point", "return_home", "return_home_cancel",
                 "fly_to_point_stop", "fly_to_point", "fly_to_point_update"}
PayloadMethods == {"drc_gimbal_reset", "drc_camera_screen_drag", "drc_camera_aim",
                   "drc_camera_frame_zoom", "drc_camera_focal_length_set"}
Methods == FlytoMethods \cup PayloadMethods

Owner(m) == IF m \in FlytoMethods THEN "FLYTO" ELSE "PAYLOAD"

ByMethod == {"services_reply", "events", "requests", "drc_up"}
NoState == 0 - 1

\* The tid of a message that has none, or one of another client.
NoTid == 0

ASSUME RoutingAssumption ==
  /\ <<aircraft_sn, aircraft_sn>> \in Ends /\ <<dock_sn, dock_sn>> \in Ends
  /\ <<aircraft_sn, dock_sn>> \notin Ends /\ <<dock_sn, aircraft_sn>> \notin Ends
  /\ {"services_reply", "drc_up"} \subseteq Lines
  /\ DrcStates \subseteq Nat
  /\ MaxAsked \in Nat /\ MaxMessages \in Nat /\ DEVICE_THREAD_COUNT \in Nat \ {0}

VARIABLES asked,      \* the methods of the requests sent, in their order
          waiting,    \* the requests neither completed nor timed out
          pending,    \* the requests in m_pendingRequests of the two managers
          answered,   \* the requests the aircraft has replied to
          heard,      \* the methods of all replies so far
          completed,  \* the requests whose context was completed
          arrived,    \* other messages so far
          mail,       \* what the modules have been sent and have not handled
          parsed,     \* drc_state values device threads have read, not stored
          drcState    \* m_drcState

requestVars == <<asked, waiting, pending, answered, heard, completed>>
routingVars == <<requestVars, arrived, mail, parsed, drcState>>

RoutingInit ==
  /\ asked = <<>> /\ waiting = {} /\ pending = {}
  /\ answered = {} /\ heard = {} /\ completed = {}
  /\ arrived = 0
  /\ mail = [m \in {"FLYTO", "PAYLOAD", "TRACK", "DEVICE"} |-> <<>>]
  /\ parsed = <<>>
  /\ drcState = 0

-----------------------------------------------------------------------------
\* loadSubTopics: the serial number a line is filled in with; an osd line
\* subscribes both telemetries.
Expanded(line) ==
  CASE line = "osd"   -> {<<"osd", aircraft_sn>>, <<"osd", dock_sn>>}
    [] line = "state" -> {<<"state", aircraft_sn>>}
    [] OTHER          -> {<<line, dock_sn>>}

SubTopics == UNION {Expanded(line) : line \in Lines}

\* pf_copy_msg to one module.
Send(to, id, msg) == {[to |-> to, id |-> id, msg |-> msg]}

\* MUTANT of ReplySends: the tables have not been told of the newest method.
ReplySendsOld(msg) ==
  CASE msg.method \in FlytoMethods \ {"return_home_cancel"} ->
         Send("FLYTO", "FLYTO_RESULT_DATA_IND", msg)
         \cup Send("PAYLOAD", "PAYLOAD_RESULT_DATA_IND", msg)
    [] msg.method = "fly_to_point_progress" -> Send("FLYTO", "FLYTO_PROGRESS_DATA_IND", msg)
    [] msg.method \in PayloadMethods -> Send("PAYLOAD", "PAYLOAD_RESULT_DATA_IND", msg)
    [] OTHER -> {}

\* m_topicHandlers: flyto's results go to both modules.
ReplySends(msg) ==
  CASE msg.method \in FlytoMethods ->
         Send("FLYTO", "FLYTO_RESULT_DATA_IND", msg)
         \cup Send("PAYLOAD", "PAYLOAD_RESULT_DATA_IND", msg)
    [] msg.method = "fly_to_point_progress" -> Send("FLYTO", "FLYTO_PROGRESS_DATA_IND", msg)
    [] msg.method \in PayloadMethods -> Send("PAYLOAD", "PAYLOAD_RESULT_DATA_IND", msg)
    [] OTHER -> {}

\* A telemetry topic is told by the end of its serial number.
Finds(topic, kind, sn) == topic[1] = kind /\ <<topic[2], sn>> \in Ends

\* onRead, in the order of its tests.
OnRead(topic, msg) ==
  CASE topic[1] \in ByMethod               -> ReplySends(msg)
    [] Finds(topic, "osd", aircraft_sn)    -> Send("TRACK", "COMMON_REG_IND", msg)
    [] Finds(topic, "state", aircraft_sn)  -> Send("TRACK", "TRACK_STATE_DATA_IND", msg)
    [] Finds(topic, "osd", dock_sn)        -> Send("DEVICE", "COMMON_REG_IND", msg)
    [] topic[1] = "flight/control"         -> Send("FLYTO", "COMMON_REG_IND", msg)
    [] topic[1] = "gimbal/control"         -> Send("PAYLOAD", "PAYLOAD_GIMBAL_DATA_IND", msg)
    [] topic[1] = "camera/zoom"            -> Send("PAYLOAD", "PAYLOAD_CAMERA_DATA_IND", msg)
    [] OTHER                               -> {}

\* No message is sent to a module twice.
Delivered(sends) ==
  [m \in DOMAIN mail |->
     IF \E s \in sends : s.to = m THEN Append(mail[m], CHOOSE s \in sends : s.to = m)
                                 ELSE mail[m]]

-----------------------------------------------------------------------------
\* The key of a request is its tid (flyto) or its method (payload).
SameKey(q, r) == q = r \/ (asked[q] \in PayloadMethods /\ asked[q] = asked[r])

\* A controller registers a request, in place of one with its key, and
\* publishes it.
Ask(m) ==
  /\ Len(asked) < MaxAsked
  /\ LET r == Len(asked) + 1 IN
     /\ asked' = Append(asked, m)
     /\ waiting' = waiting \cup {r}
     /\ pending' = {q \in pending : asked[q] = m => m \in FlytoMethods} \cup {r}
  /\ UNCHANGED <<answered, heard, completed, arrived, mail, parsed, drcState>>

\* The wait times out: cleanup() erases what is registered under the key.
GiveUp(r) ==
  /\ r \in waiting
  /\ waiting' = waiting \ {r}
  /\ pending' = {q \in pending : ~SameKey(q, r)}
  /\ UNCHANGED <<asked, answered, heard, completed, arrived, mail, parsed, drcState>>

\* A reply arrives on the topic of its method.
Hear(m, tid) ==
  LET kind == IF m \in FlytoMethods THEN "services_reply" ELSE "drc_up" IN
  /\ heard' = heard \cup {m}
  /\ mail' = Delivered(OnRead(<<kind, dock_sn>>,
                              [method |-> m, tid |-> tid, drc_state |-> NoState]))

\* The aircraft replies to a request, perhaps after its timeout.
Reply(r) ==
  /\ r \in DOMAIN asked \ answered
  /\ answered' = answered \cup {r}
  /\ Hear(asked[r], r)
  /\ UNCHANGED <<asked, waiting, pending, completed, arrived, parsed, drcState>>

\* It replies to another client of the aircraft.
ForeignReply(m) ==
  /\ arrived < MaxMessages
  /\ arrived' = arrived + 1
  /\ Hear(m, NoTid)
  /\ UNCHANGED <<asked, waiting, pending, answered, completed, parsed, drcState>>

\* Any other message of a topic that is subscribed: an event, telemetry with or
\* without a drc_state, a command of the platform.
Publish(topic) ==
  /\ arrived < MaxMessages
  /\ topic \in SubTopics /\ topic[1] \notin {"services_reply", "drc_up"}
  /\ arrived' = arrived + 1
  /\ \E method \in {"", "fly_to_point_progress"}, state \in DrcStates \cup {NoState} :
       /\ topic[1] # "events" => method = ""
       /\ topic # <<"osd", dock_sn>> => state = NoState
       /\ mail' = Delivered(OnRead(topic, [method |-> method, tid |-> NoTid,
                                           drc_state |-> state]))
  /\ UNCHANGED <<requestVars, parsed, drcState>>

Take(m) == mail' = [mail EXCEPT ![m] = Tail(@)]

\* The registered request a message is for: flyto_entry and handleFlytoResult
\* look for its tid, payload_entry and handlePayloadResult for its method.
IsFor(m, s, r) ==
  /\ Owner(asked[r]) = m
  /\ \/ s.id = "FLYTO_RESULT_DATA_IND" /\ s.msg.tid = r
     \/ s.id = "PAYLOAD_RESULT_DATA_IND" /\ s.msg.method = asked[r]

\* findAndUpdateRequest, for a result; the other messages go to the controllers.
Handle(m) ==
  /\ m \in {"FLYTO", "PAYLOAD"} /\ mail[m] # <<>>
  /\ Take(m)
  /\ LET found == {r \in pending : IsFor(m, Head(mail[m]), r)} IN
     /\ pending' = pending \ found
     /\ waiting' = waiting \ found
     /\ completed' = completed \cup found
  /\ UNCHANGED <<asked, answered, heard, arrived, parsed, drcState>>

\* track_entry, see Telemetry.
Track ==
  /\ mail["TRACK"] # <<>>
  /\ Take("TRACK")
  /\ UNCHANGED <<requestVars, arrived, parsed, drcState>>

\* device_entry: a thread of the pool parses the message.
ParseRcOsd ==
  /\ mail["DEVICE"] # <<>> /\ Len(parsed) < DEVICE_THREAD_COUNT
  /\ Take("DEVICE")
  /\ LET state == Head(mail["DEVICE"]).msg.drc_state IN
     parsed' = IF state = NoState THEN parsed ELSE Append(parsed, state)
  /\ UNCHANGED <<requestVars, arrived, drcState>>

\* It stores the state, whichever thread is first.
StoreDrcState(i) ==
  /\ i \in DOMAIN parsed
  /\ drcState' = parsed[i]
  /\ parsed' = SubSeq(parsed, 1, i - 1) \o SubSeq(parsed, i + 1, Len(parsed))
  /\ UNCHANGED <<requestVars, arrived, mail>>

RoutingNext ==
  \/ \E m \in Methods : Ask(m) \/ ForeignReply(m)
  \/ \E r \in 1 .. MaxAsked : GiveUp(r) \/ Reply(r)
  \/ \E topic \in SubTopics : Publish(topic)
  \/ \E m \in DOMAIN mail : Handle(m)
  \/ Track
  \/ ParseRcOsd
  \/ \E i \in 1 .. DEVICE_THREAD_COUNT : StoreDrcState(i)

RoutingSpec == RoutingInit /\ [][RoutingNext]_routingVars

-----------------------------------------------------------------------------
\* Types; a registered request is waiting, and no two have one key.
RoutingTypeOK ==
  /\ asked \in Seq(Methods) /\ Len(asked) <= MaxAsked
  /\ waiting \subseteq DOMAIN asked /\ pending \subseteq waiting
  /\ completed \subseteq DOMAIN asked \ waiting
  /\ answered \subseteq DOMAIN asked /\ heard \subseteq Methods
  /\ \A q, r \in pending : SameKey(q, r) => q = r
  /\ arrived \in 0 .. MaxMessages
  /\ DOMAIN mail = {"FLYTO", "PAYLOAD", "TRACK", "DEVICE"}
  /\ parsed \in Seq(DrcStates) /\ Len(parsed) <= DEVICE_THREAD_COUNT
  /\ drcState \in DrcStates \cup {0}

\* handleFlytoResult, handlePayloadResult, cleanup(): although the replies of
\* flyto reach both managers, and those to other clients too, a request of flyto
\* is completed by its own reply only, one of payload by a reply with its method;
\* the reply to a request that is registered stays in the mailbox of its manager
\* until it is handled; and a waiting request is registered, unless another one
\* with its method was asked.
RepliesFindRequests ==
  /\ \A r \in completed : IF asked[r] \in FlytoMethods THEN r \in answered
                                                     ELSE asked[r] \in heard
  /\ \A r \in pending \cap answered :
       \E i \in DOMAIN mail[Owner(asked[r])] :
         IsFor(Owner(asked[r]), mail[Owner(asked[r])][i], r)
  /\ \A r \in waiting \ pending : \E q \in DOMAIN asked \ {r} : SameKey(q, r)
=============================================================================
