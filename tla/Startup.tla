------------------------------- MODULE Startup -------------------------------
(***************************************************************************)
(* The start of the process (cloud/root/pf_cloud_root.cpp): main creates   *)
(* the tasks and modules one by one, each module initialises on its own    *)
(* thread, and nothing but a pause of 1.5 s makes the others wait for LCF, *)
(* which loads the configuration they copy (cloud/lcf/lcfMain.cpp); how    *)
(* long LCF takes is not bounded, so that the pause may end first.  What   *)
(* the modules do with a message is in the modules about them; here one    *)
(* only matters by the mailboxes and the configuration it meets.           *)
(***************************************************************************)
EXTENDS Naturals, Sequences

CONSTANTS TopicCount,   \* publish topics a serial number is filled in
          MaxReceived   \* bound on the messages of the broker

ASSUME StartupAssumption == TopicCount \in Nat /\ MaxReceived \in Nat

\* Have a cycle timer; are sent messages by MQTTSUB; and all with a mailbox.
Cycled  == {"LOG", "DAILYREC"}
Served  == {"DEVICE", "FLYTO", "TRACK", "PAYLOAD"}
Clients == {"MQTTPUB", "MQTTSUB"}
Modules == Cycled \cup Served \cup {"LCF", "MQTTPUB"}
TasksAndModules == Modules \cup {"TIMER", "NETWORK", "MQTTSUB"}

\* The statements of main, in order.
Program == <<"TIMER", "LOG", "DAILYREC", "NETWORK", "LCF", "pause", "MQTTPUB",
             "DEVICE", "FLYTO", "TRACK", "PAYLOAD", "MQTTSUB">>

VARIABLES main,      \* the statement main is at
          outlasted, \* the load was not over when main's pause was
          started,   \* threads created; a module's mailbox is older than its thread
          named,     \* threads whose mid pf_set_thread_mid has entered
          ready,     \* threads that have initialised
          lcf,       \* where lcf_init is
          device,    \* s_pbCommonCfg has been filled
          mqtt,      \* s_pbMqttCfg: 0 empty, 1 parsed, and 1 for each topic filled in
          pub,       \* where mqttpub_init is
          sn,        \* the serial numbers copied by TRACK and MQTTSUB are not empty
          server,    \* nor is the address copied by a client
          pubTopics, \* mqtt, when MQTTPUB copied its topics
          subTopics, \* MQTTSUB's file of topics has been read
          cycling,   \* modules with a running cycle timer
          box,       \* messages in each mailbox
          received,  \* messages that have come from the broker
          handled,   \* modules that have handled a message
          online,    \* clients that have connected
          refused    \* modules a message or a timer could not be set up for

mainVars    == <<main, outlasted, started, named>>
configVars  == <<lcf, device, mqtt>>
copyVars    == <<pub, sn, server, pubTopics, subTopics>>
trafficVars == <<box, received, handled, online>>
startVars   == <<mainVars, ready, configVars, copyVars, cycling, trafficVars, refused>>

Whole == TopicCount + 1

StartupInit ==
  /\ main = 1 /\ outlasted = FALSE
  /\ started = {} /\ named = {} /\ ready = {}
  /\ lcf = "map" /\ device = FALSE /\ mqtt = 0
  /\ pub = "new"
  /\ sn = [m \in {"TRACK", "MQTTSUB"} |-> FALSE]
  /\ server = [c \in Clients |-> FALSE]
  /\ pubTopics = 0 /\ subTopics = FALSE
  /\ cycling = {} /\ handled = {} /\ online = {} /\ refused = {}
  /\ box = [m \in Modules |-> 0] /\ received = 0

-----------------------------------------------------------------------------
Statement == Program[main]

\* CREATETASK and CREATEMODULE: mailbox and thread; a task's init is on main's
\* own thread before it.  mqttsub_init copies the serial numbers and reads the
\* topics; that loadSubTopics has found no file is ignored.
Create ==
  /\ main \in DOMAIN Program /\ Statement \in TasksAndModules \ started
  /\ started' = started \cup {Statement}
  /\ sn' = IF Statement = "MQTTSUB" THEN [sn EXCEPT !["MQTTSUB"] = device] ELSE sn
  /\ subTopics' \in IF Statement = "MQTTSUB" THEN BOOLEAN ELSE {subTopics}
  /\ UNCHANGED <<main, outlasted, named, ready, configVars, pub, server, pubTopics,
                 cycling, trafficVars, refused>>

\* The end of pf_thread_create_mid: the thread runs already.
Name ==
  /\ main \in DOMAIN Program /\ Statement \in started
  /\ named' = named \cup {Statement}
  /\ main' = main + 1
  /\ UNCHANGED <<outlasted, started, ready, configVars, copyVars, cycling, trafficVars,
                 refused>>

\* Nothing tells main whether LCF is ready.
PauseEnds ==
  /\ main \in DOMAIN Program /\ Statement = "pause"
  /\ main' = main + 1
  /\ outlasted' = (lcf # "over")
  /\ UNCHANGED <<started, named, ready, configVars, copyVars, cycling, trafficVars, refused>>

-----------------------------------------------------------------------------
\* lcf_init on LCF's thread; what it returns is ignored by msg_entry.
Loads(from, to) ==
  /\ "LCF" \in started /\ lcf = from
  /\ lcf' = to
  /\ ready' = IF to = "over" THEN ready \cup {"LCF"} ELSE ready
  /\ UNCHANGED <<mainVars, copyVars, cycling, trafficVars, refused>>

\* get_map_info, whose failure is logged only.
LoadMap == Loads("map", "device") /\ UNCHANGED <<device, mqtt>>

LoadDevice == Loads("device", "mqtt") /\ device' = TRUE /\ UNCHANGED mqtt

\* MUTANT of LoadDeviceFails: the MQTT configuration is loaded all the same.
LoadDeviceFailsGoesOn == Loads("device", "mqtt") /\ UNCHANGED <<device, mqtt>>

\* The file is missing or wrong: lcf_init returns.  protobuf fills a message only
\* with JSON that is right as a whole.
LoadDeviceFails == Loads("device", "over") /\ UNCHANGED <<device, mqtt>>

LoadMqtt == Loads("mqtt", "topics") /\ mqtt' = 1 /\ UNCHANGED device

LoadMqttFails == Loads("mqtt", "over") /\ UNCHANGED <<device, mqtt>>

\* loadMqttConfig puts the serial number into one topic after the other.
FillTopic ==
  /\ mqtt < Whole
  /\ Loads("topics", "topics") /\ mqtt' = mqtt + 1 /\ UNCHANGED device

LoadEnds == mqtt = Whole /\ Loads("topics", "over") /\ UNCHANGED <<device, mqtt>>

Load ==
  \/ LoadMap \/ LoadDevice \/ LoadDeviceFails \/ LoadMqtt \/ LoadMqttFails
  \/ FillTopic \/ LoadEnds

-----------------------------------------------------------------------------
Begins(m) == m \in started \ ready /\ ready' = ready \cup {m}

\* device_init, flyto_init, payload_init: the pools.
InitPool(m) ==
  /\ m \in Served \ {"TRACK"}
  /\ Begins(m)
  /\ UNCHANGED <<mainVars, configVars, copyVars, cycling, trafficVars, refused>>

InitTrack ==
  /\ Begins("TRACK")
  /\ sn' = [sn EXCEPT !["TRACK"] = device]
  /\ UNCHANGED <<mainVars, configVars, pub, server, pubTopics, subTopics, cycling,
                 trafficVars, refused>>

\* pf_log_timer_init, pf_daily_record_timer_init: refused by a timer service
\* that pf_timer_init has not enabled.
InitCycled(m) ==
  /\ m \in Cycled
  /\ Begins(m)
  /\ IF "TIMER" \in started
       THEN cycling' = cycling \cup {m} /\ UNCHANGED refused
       ELSE refused' = refused \cup {m} /\ UNCHANGED cycling
  /\ UNCHANGED <<mainVars, configVars, copyVars, trafficVars>>

\* mqttpub_init: the client with its address, a first connection or none, and
\* the topics after it.
PubBuilds ==
  /\ "MQTTPUB" \in started /\ pub = "new"
  /\ pub' = "built"
  /\ server' = [server EXCEPT !["MQTTPUB"] = mqtt > 0]
  /\ UNCHANGED <<mainVars, ready, configVars, sn, pubTopics, subTopics, cycling,
                 trafficVars, refused>>

PubTries ==
  /\ pub = "built"
  /\ pub' = "tried"
  /\ \/ server["MQTTPUB"] /\ online' = online \cup {"MQTTPUB"}
     \/ UNCHANGED online
  /\ UNCHANGED <<mainVars, ready, configVars, sn, server, pubTopics, subTopics,
                 cycling, box, received, handled, refused>>

PubCopiesTopics ==
  /\ pub = "tried" /\ Begins("MQTTPUB")
  /\ pubTopics' = mqtt
  /\ UNCHANGED <<mainVars, configVars, pub, sn, server, subTopics, cycling, trafficVars,
                 refused>>

\* mqttsub_entry: the client, and its connection when there is an address.
SubBuilds ==
  /\ Begins("MQTTSUB")
  /\ server' = [server EXCEPT !["MQTTSUB"] = mqtt > 0]
  /\ UNCHANGED <<mainVars, configVars, pub, sn, pubTopics, subTopics, cycling, trafficVars,
                 refused>>

SubConnects ==
  /\ "MQTTSUB" \in ready /\ server["MQTTSUB"]
  /\ online' = online \cup {"MQTTSUB"}
  /\ UNCHANGED <<mainVars, ready, configVars, copyVars, cycling, box, received, handled, refused>>

-----------------------------------------------------------------------------
\* pf_copy_msg: an error when the mailbox has not been created.
Put(m) ==
  IF m \in started
    THEN box' = [box EXCEPT ![m] = @ + 1] /\ UNCHANGED refused
    ELSE refused' = refused \cup {m} /\ UNCHANGED box

\* onRead, for a message of a topic that was subscribed.
Receive(m) ==
  /\ m \in Served /\ "MQTTSUB" \in online /\ subTopics /\ received < MaxReceived
  /\ Put(m)
  /\ received' = received + 1
  /\ UNCHANGED <<mainVars, ready, configVars, copyVars, cycling, handled, online>>

\* A cycle timer expires; a second expiry in the mailbox is like the first.
Expire(m) ==
  /\ m \in cycling /\ box[m] = 0
  /\ Put(m)
  /\ UNCHANGED <<mainVars, ready, configVars, copyVars, cycling, received, handled, online>>

Takes(m) == m \in ready /\ box[m] > 0 /\ handled' = handled \cup {m}

\* A module of the service handles a message and may publish another.
ModuleHandles(m) ==
  /\ m \in Served /\ Takes(m)
  /\ LET left == [box EXCEPT ![m] = @ - 1] IN
     \/ box' = left /\ UNCHANGED refused
     \/ IF "MQTTPUB" \in started
          THEN box' = [left EXCEPT !["MQTTPUB"] = @ + 1] /\ UNCHANGED refused
          ELSE box' = left /\ refused' = refused \cup {"MQTTPUB"}
  /\ UNCHANGED <<mainVars, ready, configVars, copyVars, cycling, received, online>>

HandleExpiry(m) ==
  /\ m \in Cycled /\ Takes(m)
  /\ box' = [box EXCEPT ![m] = @ - 1]
  /\ UNCHANGED <<mainVars, ready, configVars, copyVars, cycling, received, online, refused>>

\* mqttpub_entry: dropped when the topic is empty, and otherwise published, after
\* a reconnection, or dropped by the client.
PubHandles ==
  /\ Takes("MQTTPUB")
  /\ box' = [box EXCEPT !["MQTTPUB"] = @ - 1]
  /\ \/ pubTopics > 0 /\ server["MQTTPUB"] /\ online' = online \cup {"MQTTPUB"}
     \/ UNCHANGED online
  /\ UNCHANGED <<mainVars, ready, configVars, copyVars, cycling, received, refused>>

StartupNext ==
  \/ Create \/ Name \/ PauseEnds
  \/ Load
  \/ InitTrack \/ PubBuilds \/ PubTries \/ PubCopiesTopics \/ SubBuilds \/ SubConnects
  \/ PubHandles
  \/ \E m \in Modules :
       \/ InitPool(m) \/ InitCycled(m) \/ Receive(m) \/ Expire(m)
       \/ ModuleHandles(m) \/ HandleExpiry(m)

StartupSpec == StartupInit /\ [][StartupNext]_startVars

-----------------------------------------------------------------------------
\* Types.
StartupTypeOK ==
  /\ main \in 1 .. Len(Program) + 1 /\ outlasted \in BOOLEAN
  /\ started \subseteq TasksAndModules /\ named \subseteq started /\ ready \subseteq started
  /\ lcf \in {"map", "device", "mqtt", "topics", "over"}
  /\ device \in BOOLEAN /\ mqtt \in 0 .. Whole
  /\ pub \in {"new", "built", "tried"}
  /\ sn \in [{"TRACK", "MQTTSUB"} -> BOOLEAN] /\ server \in [Clients -> BOOLEAN]
  /\ pubTopics \in 0 .. Whole /\ subTopics \in BOOLEAN
  /\ cycling \subseteq Cycled /\ refused \subseteq Modules
  /\ box \in [Modules -> Nat] /\ received \in 0 .. MaxReceived
  /\ handled \subseteq Modules /\ online \subseteq Clients

\* What the order of main and of lcf_init is for: no message meets a mailbox,
\* and no timer a service, that is not there yet; whatever parts of the
\* configuration are missing or late, the service goes online, and handles
\* commands, only with the device configuration loaded; and what TRACK, MQTTSUB
\* and MQTTPUB copied of it on other threads is whole, unless the load outlasted
\* main's pause.  Online is not subscribed: the topics may be missing.
StartsWhole ==
  /\ refused = {}
  /\ handled \cap Served \subseteq named
  /\ ("MQTTSUB" \in online \/ "FLYTO" \in handled) => device
  /\ \/ outlasted
     \/ /\ "MQTTSUB" \in online => sn["MQTTSUB"]
        /\ "TRACK" \in handled => sn["TRACK"]
        /\ "MQTTPUB" \in handled => pubTopics = Whole
=============================================================================
