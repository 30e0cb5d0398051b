---------------------------- MODULE ServiceProofs ----------------------------
(***************************************************************************)
(* What the modules of the service promise for all values of the           *)
(* constants: the threads main starts find the mailboxes and the           *)
(* configuration they need; nobody is given telemetry of an older message, *)
(* and every landing is reported once; a reply of the aircraft completes   *)
(* its own request; a route the obstacle map calls free is free; and each  *)
(* of these components keeps its specification where they are composed.    *)
(***************************************************************************)
EXTENDS MCShared, MemPoolProofs, SequenceTheorems

-----------------------------------------------------------------------------
(* The start of the process.                                               *)

\* Every thread has a statement of its own.
LEMMA ProgramFacts ==
  /\ Len(Program) = 12 /\ DOMAIN Program = 1..12
  /\ \A i, j \in 1..12 : Program[i] = Program[j] => i = j
  /\ Program[1] = "TIMER" /\ Program[2] = "LOG" /\ Program[3] = "DAILYREC"
  /\ Program[5] = "LCF" /\ Program[6] = "pause" /\ Program[7] = "MQTTPUB"
  /\ Program[8] = "DEVICE" /\ Program[9] = "FLYTO" /\ Program[10] = "TRACK"
  /\ Program[11] = "PAYLOAD" /\ Program[12] = "MQTTSUB"
  /\ "pause" \notin TasksAndModules
<1>1. Len(Program) = 12 /\ DOMAIN Program = 1..12
  BY DEF Program
<1>2. /\ Program[1] = "TIMER" /\ Program[2] = "LOG" /\ Program[3] = "DAILYREC"
      /\ Program[4] = "NETWORK"
      /\ Program[5] = "LCF" /\ Program[6] = "pause" /\ Program[7] = "MQTTPUB"
      /\ Program[8] = "DEVICE" /\ Program[9] = "FLYTO" /\ Program[10] = "TRACK"
      /\ Program[11] = "PAYLOAD" /\ Program[12] = "MQTTSUB"
  BY DEF Program
<1>3. \A i, j \in 1..12 : Program[i] = Program[j] => i = j
  BY <1>2
<1> QED
  BY <1>1, <1>2, <1>3 DEF TasksAndModules, Modules, Cycled, Served

\* main creates the threads in the order of its statements.
InOrder ==
  /\ \A i \in 1..12 : Program[i] \in started => i <= main
  /\ \A i \in 1..12 : i < main /\ i # 6 => Program[i] \in named

\* What that says of the threads that need another one.
LEMMA OrderFacts ==
  ASSUME StartupTypeOK, InOrder
  PROVE  /\ \A m \in Cycled : m \in started => "TIMER" \in started
         /\ \A m \in Served \cup Clients : m \in started => main > 6 /\ "LCF" \in started
         /\ \A m \in Served : m \in started => "MQTTPUB" \in started
         /\ "MQTTSUB" \in started => Served \subseteq named
<1>1. named \subseteq started /\ main \in 1..13
  BY ProgramFacts DEF StartupTypeOK
<1>2. \A m \in Cycled : m \in started => main >= 2
  BY <1>1, ProgramFacts DEF InOrder, Cycled
<1>3. \A m \in Served \cup Clients : m \in started => main >= 7
  BY <1>1, ProgramFacts DEF InOrder, Served, Clients
<1>4. \A m \in Served : m \in started => main >= 8
  BY <1>1, ProgramFacts DEF InOrder, Served
<1>5. "MQTTSUB" \in started => main >= 12
  BY <1>1, ProgramFacts DEF InOrder
<1>6. main >= 2 => "TIMER" \in named
  BY <1>1, ProgramFacts DEF InOrder
<1>7. main >= 7 => "LCF" \in named
  BY <1>1, ProgramFacts DEF InOrder
<1>8. main >= 8 => "MQTTPUB" \in named
  BY <1>1, ProgramFacts DEF InOrder
<1>9. main >= 12 => Served \subseteq named
  BY <1>1, ProgramFacts DEF InOrder, Served
<1> QED
  BY <1>1, <1>2, <1>3, <1>4, <1>5, <1>6, <1>7, <1>8, <1>9

\* What main creates after its pause finds LCF done, unless that was outlasted.
PauseOutlasts ==
  /\ "LCF" \in ready <=> lcf = "over"
  /\ main > 6 => outlasted \/ lcf = "over"

\* The configuration is loaded in order, the topics after all else.
LoadedInOrder ==
  /\ lcf \in {"mqtt", "topics"} => device
  /\ lcf \in {"map", "device", "mqtt"} => mqtt = 0
  /\ lcf = "over" => mqtt \in {0, Whole}
  /\ mqtt > 0 => device

\* Every copy is a copy of the final configuration, unless the pause was outlasted.
CopiesFinal ==
  /\ "MQTTSUB" \in started => outlasted \/ sn["MQTTSUB"] = device
  /\ "TRACK" \in ready => outlasted \/ sn["TRACK"] = device
  /\ "MQTTPUB" \in ready => outlasted \/ pubTopics = mqtt
  /\ server["MQTTSUB"] => mqtt > 0

\* Nothing is handled that the subscriber has not brought, timers apart.
ComesFromBroker ==
  /\ cycling \subseteq started
  /\ "MQTTSUB" \in online => "MQTTSUB" \in ready /\ server["MQTTSUB"]
  /\ \A m \in Served \cup {"MQTTPUB"} : box[m] > 0 \/ m \in handled => "MQTTSUB" \in online
  /\ handled \subseteq ready
  /\ refused = {}

StartInv == StartupTypeOK /\ InOrder /\ PauseOutlasts /\ LoadedInOrder /\ CopiesFinal /\ ComesFromBroker

\* Anything copied after a pause that was long enough is final.
LEMMA FinalFacts ==
  ASSUME StartInv
  PROVE  /\ main > 6 => outlasted \/ (lcf = "over" /\ "LCF" \in ready)
         /\ lcf = "over" => mqtt \in {0, Whole} /\ (mqtt > 0 => device)
  BY StartupAssumption DEF StartInv, PauseOutlasts, LoadedInOrder, StartupTypeOK

\* Every step of the start keeps the types.
LEMMA StartTypes == StartupTypeOK /\ [StartupNext]_startVars => StartupTypeOK'
<1> SUFFICES ASSUME StartupTypeOK, [StartupNext]_startVars PROVE StartupTypeOK'
  OBVIOUS
<1>0. /\ TopicCount \in Nat /\ Whole \in Nat \ {0} /\ MaxReceived \in Nat
      /\ Len(Program) = 12 /\ DOMAIN Program = 1..12
      /\ Modules \subseteq TasksAndModules /\ Served \subseteq Modules /\ Cycled \subseteq Modules
      /\ "MQTTPUB" \in Modules /\ "LCF" \in Modules /\ "MQTTSUB" \in TasksAndModules
      /\ "MQTTPUB" \in Clients /\ "MQTTSUB" \in Clients /\ "TRACK" \in Served
  BY StartupAssumption, ProgramFacts DEF Whole, Modules, TasksAndModules, Served, Cycled, Clients
<1> USE <1>0 DEF StartupTypeOK, mainVars, configVars, copyVars, trafficVars
<1>1. CASE Create
  BY <1>1 DEF Create
<1>2. CASE Name
  BY <1>2 DEF Name, Statement
<1>3. CASE PauseEnds
  BY <1>3 DEF PauseEnds
<1>4. CASE Load
  <2>1. ASSUME NEW from, NEW to \in {"device", "mqtt", "topics", "over"}, Loads(from, to),
               device' \in BOOLEAN, mqtt' \in 0..Whole
        PROVE  StartupTypeOK'
    BY <2>1 DEF Loads
  <2>2. CASE LoadMap \/ LoadDevice \/ LoadDeviceFails
    BY <2>1, <2>2 DEF LoadMap, LoadDevice, LoadDeviceFails
  <2>3. CASE LoadMqtt \/ LoadMqttFails
    BY <2>1, <2>3 DEF LoadMqtt, LoadMqttFails
  <2>4. CASE FillTopic \/ LoadEnds
    BY <2>1, <2>4 DEF FillTopic, LoadEnds
  <2> QED
    BY <1>4, <2>2, <2>3, <2>4 DEF Load
<1>5. CASE InitTrack
  BY <1>5 DEF InitTrack, Begins
<1>6. CASE PubBuilds \/ PubTries \/ PubCopiesTopics \/ SubBuilds \/ SubConnects
  <2>1. CASE PubBuilds
    BY <2>1 DEF PubBuilds
  <2>2. CASE PubTries
    BY <2>2 DEF PubTries
  <2>3. CASE PubCopiesTopics
    BY <2>3 DEF PubCopiesTopics, Begins
  <2>4. CASE SubBuilds
    BY <2>4 DEF SubBuilds, Begins
  <2>5. CASE SubConnects
    BY <2>5 DEF SubConnects
  <2> QED
    BY <1>6, <2>1, <2>2, <2>3, <2>4, <2>5
<1>7. CASE PubHandles
  BY <1>7 DEF PubHandles, Takes
<1>8. ASSUME NEW m \in Modules, InitPool(m) \/ InitCycled(m) PROVE StartupTypeOK'
  BY <1>8 DEF InitPool, InitCycled, Begins
<1>9. ASSUME NEW m \in Modules, Receive(m) \/ Expire(m) PROVE StartupTypeOK'
  BY <1>9 DEF Receive, Expire, Put
<1>10. ASSUME NEW m \in Modules, ModuleHandles(m) PROVE StartupTypeOK'
  BY <1>10 DEF ModuleHandles, Takes
<1>11. ASSUME NEW m \in Modules, HandleExpiry(m) PROVE StartupTypeOK'
  BY <1>11 DEF HandleExpiry, Takes
<1>12. CASE UNCHANGED startVars
  BY <1>12 DEF startVars
<1> QED
  BY <1>1, <1>2, <1>3, <1>4, <1>5, <1>6, <1>7, <1>8, <1>9, <1>10, <1>11, <1>12 DEF StartupNext

\* main's own steps, and those that are not main's.
OthersStep ==
  \/ Load \/ InitTrack \/ PubBuilds \/ PubTries \/ PubCopiesTopics \/ SubBuilds \/ SubConnects
  \/ PubHandles
  \/ \E m \in Modules :
       \/ InitPool(m) \/ InitCycled(m) \/ Receive(m) \/ Expire(m)
       \/ ModuleHandles(m) \/ HandleExpiry(m)

\* The tasks and the modules leave what main has done alone.
LEMMA OthersLeaveMain ==
  ASSUME OthersStep
  PROVE  UNCHANGED mainVars
<1>1. CASE Load
  BY <1>1 DEF Load, LoadMap, LoadDevice, LoadDeviceFails, LoadMqtt, LoadMqttFails, FillTopic,
     LoadEnds, Loads
<1>2. CASE InitTrack \/ PubBuilds \/ PubTries \/ PubCopiesTopics \/ SubBuilds \/ SubConnects
  BY <1>2 DEF InitTrack, PubBuilds, PubTries, PubCopiesTopics, SubBuilds, SubConnects
<1>3. CASE PubHandles
  BY <1>3 DEF PubHandles
<1>4. ASSUME NEW m \in Modules, InitPool(m) \/ InitCycled(m) \/ Receive(m) \/ Expire(m)
      PROVE  UNCHANGED mainVars
  BY <1>4 DEF InitPool, InitCycled, Receive, Expire
<1>5. ASSUME NEW m \in Modules, ModuleHandles(m) \/ HandleExpiry(m)
      PROVE  UNCHANGED mainVars
  BY <1>5 DEF ModuleHandles, HandleExpiry
<1> QED
  BY <1>1, <1>2, <1>3, <1>4, <1>5 DEF OthersStep

\* main alone creates threads, each once and in its turn.
LEMMA OrderKept ==
  ASSUME StartInv, [StartupNext]_startVars
  PROVE  InOrder'
<1>0. /\ InOrder /\ named \subseteq started /\ started \subseteq TasksAndModules /\ main \in 1..13
      /\ DOMAIN Program = 1..12 /\ "pause" \notin TasksAndModules /\ Program[6] = "pause"
      /\ \A i, j \in 1..12 : Program[i] = Program[j] => i = j
  BY ProgramFacts DEF StartInv, StartupTypeOK
<1>1. CASE Create
  BY <1>0, <1>1 DEF Create, InOrder, Statement
<1>2. CASE Name
  BY <1>0, <1>2 DEF Name, InOrder, Statement
<1>3. CASE PauseEnds
  <2>1. main = 6
    BY <1>0, <1>3 DEF PauseEnds, Statement
  <2> QED
    BY <1>0, <1>3, <2>1 DEF PauseEnds, InOrder
<1>4. CASE OthersStep
  BY <1>0, <1>4, OthersLeaveMain DEF mainVars, InOrder
<1>5. CASE UNCHANGED startVars
  BY <1>0, <1>5 DEF startVars, mainVars, InOrder
<1> QED
  BY <1>1, <1>2, <1>3, <1>4, <1>5 DEF StartupNext, OthersStep

\* Only LCF's own end makes it ready, and only the pause says who was first.
LEMMA PauseKept ==
  ASSUME StartInv, [StartupNext]_startVars
  PROVE  PauseOutlasts'
<1>0. /\ PauseOutlasts /\ main \in 1..13
      /\ DOMAIN Program = 1..12 /\ Program[6] = "pause"
      /\ \A i, j \in 1..12 : Program[i] = Program[j] => i = j
  BY ProgramFacts, StartupAssumption DEF StartInv, StartupTypeOK
<1>a. ASSUME UNCHANGED <<main, outlasted, lcf>>, "LCF" \in ready' <=> "LCF" \in ready
      PROVE  PauseOutlasts'
  BY <1>0, <1>a DEF PauseOutlasts
<1>1. CASE Create
  BY <1>1, <1>a DEF Create, configVars
<1>2. CASE Name
  <2>1. main # 6
    BY <1>2, ProgramFacts DEF Name, Statement, StartInv, StartupTypeOK
  <2> QED
    BY <1>0, <1>2, <2>1 DEF Name, configVars, PauseOutlasts
<1>3. CASE PauseEnds
  BY <1>0, <1>3 DEF PauseEnds, configVars, PauseOutlasts
<1>4. CASE Load
  <2>1. ASSUME NEW from \in {"map", "device", "mqtt", "topics"},
               NEW to \in {"device", "mqtt", "topics", "over"}, Loads(from, to)
        PROVE  PauseOutlasts'
    BY <1>0, <2>1 DEF Loads, mainVars, PauseOutlasts
  <2> QED
    BY <1>4, <2>1 DEF Load, LoadMap, LoadDevice, LoadDeviceFails, LoadMqtt, LoadMqttFails,
       FillTopic, LoadEnds
<1>5. CASE InitTrack \/ PubBuilds \/ PubTries
  BY <1>5, <1>a DEF InitTrack, PubBuilds, PubTries, Begins, mainVars, configVars
<1>6. CASE PubCopiesTopics \/ SubBuilds \/ SubConnects \/ PubHandles
  BY <1>6, <1>a DEF PubCopiesTopics, SubBuilds, SubConnects, PubHandles, Begins, mainVars,
     configVars
<1>7. ASSUME NEW m \in Modules, InitPool(m) \/ InitCycled(m) PROVE PauseOutlasts'
  BY <1>7, <1>a DEF InitPool, InitCycled, Begins, Served, Cycled, mainVars, configVars
<1>8. ASSUME NEW m \in Modules,
             Receive(m) \/ Expire(m) \/ ModuleHandles(m) \/ HandleExpiry(m)
      PROVE  PauseOutlasts'
  BY <1>8, <1>a DEF Receive, Expire, ModuleHandles, HandleExpiry, mainVars, configVars
<1>9. CASE UNCHANGED startVars
  BY <1>9, <1>a DEF startVars, mainVars, configVars
<1> QED
  BY <1>1, <1>2, <1>3, <1>4, <1>5, <1>6, <1>7, <1>8, <1>9 DEF StartupNext

\* The LCF module loads the files one after another and ends after the last.
LEMMA LoadKept ==
  ASSUME StartInv, [StartupNext]_startVars
  PROVE  LoadedInOrder'
<1>0. LoadedInOrder /\ mqtt \in 0..Whole /\ TopicCount \in Nat /\ Whole = TopicCount + 1
  BY StartupAssumption DEF StartInv, StartupTypeOK, Whole
<1>a. ASSUME UNCHANGED configVars PROVE LoadedInOrder'
  BY <1>0, <1>a DEF configVars, LoadedInOrder
<1>1. CASE Load
  <2>1. CASE LoadMap \/ LoadDevice \/ LoadDeviceFails
    BY <1>0, <2>1 DEF LoadMap, LoadDevice, LoadDeviceFails, Loads, LoadedInOrder
  <2>2. CASE LoadMqtt \/ LoadMqttFails
    BY <1>0, <2>2 DEF LoadMqtt, LoadMqttFails, Loads, LoadedInOrder
  <2>3. CASE FillTopic \/ LoadEnds
    BY <1>0, <2>3 DEF FillTopic, LoadEnds, Loads, LoadedInOrder
  <2> QED
    BY <1>1, <2>1, <2>2, <2>3 DEF Load
<1>2. CASE Create \/ Name \/ PauseEnds
  BY <1>2, <1>a DEF Create, Name, PauseEnds
<1>3. CASE InitTrack \/ PubBuilds \/ PubTries \/ PubCopiesTopics \/ SubBuilds \/ SubConnects
  BY <1>3, <1>a DEF InitTrack, PubBuilds, PubTries, PubCopiesTopics, SubBuilds, SubConnects
<1>4. CASE PubHandles
  BY <1>4, <1>a DEF PubHandles
<1>5. ASSUME NEW m \in Modules, InitPool(m) \/ InitCycled(m) \/ Receive(m) \/ Expire(m)
      PROVE  LoadedInOrder'
  BY <1>5, <1>a DEF InitPool, InitCycled, Receive, Expire
<1>6. ASSUME NEW m \in Modules, ModuleHandles(m) \/ HandleExpiry(m)
      PROVE  LoadedInOrder'
  BY <1>6, <1>a DEF ModuleHandles, HandleExpiry
<1>7. CASE UNCHANGED startVars
  BY <1>7, <1>a DEF startVars
<1> QED
  BY <1>1, <1>2, <1>3, <1>4, <1>5, <1>6, <1>7 DEF StartupNext

\* A module copies the configuration after the pause, when it is final.
LEMMA CopiesKept ==
  ASSUME StartInv, [StartupNext]_startVars
  PROVE  CopiesFinal'
<1>0. /\ CopiesFinal /\ named \subseteq started /\ ready \subseteq started
      /\ sn \in [{"TRACK", "MQTTSUB"} -> BOOLEAN] /\ server \in [Clients -> BOOLEAN]
      /\ "LCF" \in ready <=> lcf = "over"
      /\ \/ "LCF" \in ready \/ outlasted
         \/ "MQTTSUB" \notin started /\ "TRACK" \notin ready /\ "MQTTPUB" \notin ready
      /\ main = 6 => "MQTTSUB" \notin started /\ "TRACK" \notin ready /\ "MQTTPUB" \notin ready
      /\ mqtt \in Nat /\ main \in 1..13 /\ "TRACK" \in Served /\ Clients = {"MQTTPUB", "MQTTSUB"}
  <2>1. main > 6 => "LCF" \in ready \/ outlasted
    BY FinalFacts
  <2>2. \A m \in Served \cup Clients : m \in started => main > 6
    BY OrderFacts DEF StartInv
  <2>3. main \in 1..13 /\ TopicCount \in Nat
    BY ProgramFacts, StartupAssumption DEF StartInv, StartupTypeOK
  <2> QED
    BY <2>1, <2>2, <2>3 DEF StartInv, StartupTypeOK, PauseOutlasts, Served, Clients, Whole
<1>a. ASSUME UNCHANGED <<outlasted, device, mqtt, sn, server, pubTopics>>,
             "MQTTSUB" \in started' <=> "MQTTSUB" \in started,
             "MQTTPUB" \in ready' <=> "MQTTPUB" \in ready, "TRACK" \in ready' <=> "TRACK" \in ready
      PROVE  CopiesFinal'
  BY <1>0, <1>a DEF CopiesFinal
<1>1. CASE Create
  BY <1>0, <1>1 DEF Create, CopiesFinal, configVars
<1>2. CASE Name
  BY <1>2, <1>a DEF Name, configVars, copyVars
<1>3. CASE Load
  <2>1. lcf # "over"
    BY <1>3 DEF Load, LoadMap, LoadDevice, LoadDeviceFails, LoadMqtt, LoadMqttFails, FillTopic,
       LoadEnds, Loads
  <2>2. \/ outlasted
        \/ "MQTTSUB" \notin started /\ "TRACK" \notin ready /\ "MQTTPUB" \notin ready
    BY <1>0, <2>1
  <2>3. UNCHANGED <<outlasted, started, server>> /\ ready' \subseteq ready \cup {"LCF"}
    BY <1>3 DEF Load, LoadMap, LoadDevice, LoadDeviceFails, LoadMqtt, LoadMqttFails, FillTopic,
       LoadEnds, Loads, mainVars, copyVars
  <2>4. mqtt > 0 => mqtt' > 0
    BY <1>0, <1>3 DEF Load, LoadMap, LoadDevice, LoadDeviceFails, LoadMqtt, LoadMqttFails,
       FillTopic, LoadEnds
  <2> QED
    BY <1>0, <2>2, <2>3, <2>4 DEF CopiesFinal
<1>4. CASE InitTrack
  BY <1>0, <1>4 DEF InitTrack, CopiesFinal, configVars, Begins, mainVars
<1>5. CASE PubBuilds
  BY <1>0, <1>5 DEF PubBuilds, CopiesFinal, configVars, mainVars
<1>6. CASE PubTries \/ SubConnects
  BY <1>6, <1>a DEF PubTries, SubConnects, configVars, copyVars, mainVars
<1>7. CASE PubCopiesTopics
  BY <1>0, <1>7 DEF PubCopiesTopics, CopiesFinal, configVars, Begins, mainVars
<1>8. CASE SubBuilds
  BY <1>0, <1>8 DEF SubBuilds, CopiesFinal, configVars, Begins, mainVars
<1>9. ASSUME NEW m \in Modules, InitPool(m) \/ InitCycled(m) PROVE CopiesFinal'
  BY <1>9, <1>a DEF InitPool, InitCycled, Begins, Served, Cycled, mainVars, configVars, copyVars
<1>10. CASE PubHandles
  BY <1>10, <1>a DEF PubHandles, mainVars, configVars, copyVars
<1>11. ASSUME NEW m \in Modules,
              Receive(m) \/ Expire(m) \/ ModuleHandles(m) \/ HandleExpiry(m)
       PROVE  CopiesFinal'
  BY <1>11, <1>a DEF Receive, Expire, ModuleHandles, HandleExpiry, mainVars, configVars, copyVars
<1>12. CASE UNCHANGED startVars
  BY <1>12, <1>a DEF startVars, mainVars, configVars, copyVars
<1>13. CASE PauseEnds
  <2>1. main = 6
    BY <1>0, <1>13, ProgramFacts DEF PauseEnds, Statement
  <2>2. \/ lcf = "over" /\ outlasted' = FALSE
        \/ outlasted' = TRUE
    BY <1>13 DEF PauseEnds
  <2> QED
    BY <1>0, <1>13, <2>1, <2>2 DEF PauseEnds, CopiesFinal, configVars, copyVars
<1> QED
  BY <1>1, <1>2, <1>3, <1>4, <1>5, <1>6, <1>7, <1>8, <1>9, <1>10, <1>11, <1>12, <1>13
     DEF StartupNext

\* Nothing reaches a module before the subscriber runs, which is last.
LEMMA BrokerKept ==
  ASSUME StartInv, [StartupNext]_startVars
  PROVE  ComesFromBroker'
<1>0. /\ ComesFromBroker /\ named \subseteq started /\ ready \subseteq started
      /\ server \in [Clients -> BOOLEAN] /\ box \in [Modules -> Nat] /\ Served \subseteq Modules
      /\ "MQTTPUB" \in Modules /\ "MQTTSUB" \in Clients /\ "MQTTPUB" \notin Served
      /\ Cycled \cap (Served \cup {"MQTTPUB"}) = {}
      /\ cycling \subseteq Cycled /\ Cycled \subseteq Modules /\ "MQTTPUB" # "MQTTSUB"
  BY DEF StartInv, StartupTypeOK, Modules, Served, Cycled, Clients
<1>o. /\ \A m \in Cycled : m \in started => "TIMER" \in started
      /\ \A m \in Served : m \in started => "MQTTPUB" \in started
      /\ "MQTTSUB" \in started => Served \subseteq named
  BY OrderFacts DEF StartInv
<1>a. ASSUME UNCHANGED <<box, handled, refused, online, server, cycling>>,
             started \subseteq started', ready \subseteq ready'
      PROVE  ComesFromBroker'
  BY <1>0, <1>a DEF ComesFromBroker
<1>1. CASE Create \/ Name \/ PauseEnds
  BY <1>1, <1>a DEF Create, Name, PauseEnds, trafficVars, copyVars
<1>2. CASE Load
  BY <1>2, <1>a DEF Load, LoadMap, LoadDevice, LoadDeviceFails, LoadMqtt, LoadMqttFails, FillTopic,
     LoadEnds, Loads, trafficVars, copyVars, mainVars
<1>3. CASE InitTrack \/ PubCopiesTopics
  BY <1>3, <1>a DEF InitTrack, PubCopiesTopics, Begins, trafficVars, mainVars
<1>4. CASE PubBuilds
  BY <1>0, <1>4 DEF PubBuilds, ComesFromBroker, trafficVars, mainVars, Clients
<1>5. CASE PubTries
  BY <1>0, <1>5 DEF PubTries, ComesFromBroker, mainVars
<1>6. CASE SubBuilds
  BY <1>0, <1>6 DEF SubBuilds, Begins, ComesFromBroker, trafficVars, mainVars
<1>7. CASE SubConnects
  BY <1>0, <1>7 DEF SubConnects, ComesFromBroker, copyVars, mainVars
<1>8. ASSUME NEW m \in Modules, InitPool(m) PROVE ComesFromBroker'
  BY <1>8, <1>a DEF InitPool, Begins, trafficVars, copyVars, mainVars
<1>9. ASSUME NEW m \in Modules, InitCycled(m) PROVE ComesFromBroker'
  BY <1>0, <1>9, <1>o DEF InitCycled, Begins, ComesFromBroker, trafficVars, copyVars, mainVars
<1>10. ASSUME NEW m \in Modules, Receive(m) PROVE ComesFromBroker'
  BY <1>0, <1>10, <1>o DEF Receive, Put, ComesFromBroker, copyVars, mainVars
<1>11. ASSUME NEW m \in Modules, Expire(m) PROVE ComesFromBroker'
  BY <1>0, <1>11, <1>o DEF Expire, Put, ComesFromBroker, copyVars, mainVars
<1>12. ASSUME NEW m \in Modules, ModuleHandles(m) PROVE ComesFromBroker'
  BY <1>0, <1>12, <1>o DEF ModuleHandles, Takes, ComesFromBroker, copyVars, mainVars
<1>13. ASSUME NEW m \in Modules, HandleExpiry(m) PROVE ComesFromBroker'
  BY <1>0, <1>13 DEF HandleExpiry, Takes, ComesFromBroker, copyVars, mainVars
<1>14. CASE PubHandles
  BY <1>0, <1>14 DEF PubHandles, Takes, ComesFromBroker, copyVars, mainVars
<1>15. CASE UNCHANGED startVars
  BY <1>15, <1>a DEF startVars, mainVars, trafficVars, copyVars
<1> QED
  BY <1>1, <1>2, <1>3, <1>4, <1>5, <1>6, <1>7, <1>8, <1>9, <1>10, <1>11, <1>12, <1>13, <1>14, <1>15
     DEF StartupNext

\* The invariant holds when the process starts.
LEMMA StartHolds == StartupInit => StartInv
<1> SUFFICES ASSUME StartupInit PROVE StartInv
  OBVIOUS
<1>0. TopicCount \in Nat /\ Whole = TopicCount + 1 /\ MaxReceived \in Nat
  BY StartupAssumption DEF Whole
<1>1. StartupTypeOK
  <2>1. box \in [Modules -> Nat] /\ server \in [Clients -> BOOLEAN]
    BY DEF StartupInit
  <2>2. sn \in [{"TRACK", "MQTTSUB"} -> BOOLEAN]
    BY DEF StartupInit
  <2>3. main \in 1..Len(Program) + 1
    BY <1>0, ProgramFacts DEF StartupInit
  <2>4. mqtt \in 0..Whole /\ pubTopics \in 0..Whole /\ received \in 0..MaxReceived
    BY <1>0 DEF StartupInit
  <2> QED
    BY <2>1, <2>2, <2>3, <2>4 DEF StartupInit, StartupTypeOK
<1>2. InOrder
  BY DEF StartupInit, InOrder
<1>3. PauseOutlasts /\ LoadedInOrder
  BY <1>0 DEF StartupInit, PauseOutlasts, LoadedInOrder
<1>4. CopiesFinal
  BY DEF StartupInit, CopiesFinal, Clients
<1>5. ComesFromBroker
  BY DEF StartupInit, ComesFromBroker, Modules
<1> QED
  BY <1>1, <1>2, <1>3, <1>4, <1>5 DEF StartInv

\* Types of the process while it starts, whatever LCF fails to load.
THEOREM StartupTypeCorrect == StartupSpec => []StartupTypeOK
<1>1. StartInv => StartupTypeOK
  BY DEF StartInv
<1> QED
  BY <1>1, StartHolds, StartTypes, PTL DEF StartupSpec

\* The start, for any number of topics, whatever fails to load and however long
\* the load takes: the modules handle messages through mailboxes that exist, the
\* service goes online only with the device configuration, and copies of the
\* configuration are whole wherever the pause was long enough.
THEOREM ServiceStartsWhole == StartupSpec => []StartsWhole
<1>1. StartInv /\ [StartupNext]_startVars => StartInv'
  <2> SUFFICES ASSUME StartInv, [StartupNext]_startVars PROVE StartInv'
    OBVIOUS
  <2>1. StartupTypeOK'
    BY StartTypes DEF StartInv
  <2> QED
    BY <2>1, OrderKept, PauseKept, LoadKept, CopiesKept, BrokerKept DEF StartInv
<1>2. StartInv => StartsWhole
  <2> SUFFICES ASSUME StartInv PROVE StartsWhole
    OBVIOUS
  <2>1. ready \subseteq started /\ ComesFromBroker /\ CopiesFinal
    BY DEF StartInv, StartupTypeOK
  <2>2. "MQTTSUB" \in online => /\ "MQTTSUB" \in started /\ Served \subseteq named
                                /\ mqtt > 0 /\ device
                                /\ outlasted \/ mqtt = Whole
    <3>1. "MQTTSUB" \in started => main > 6 /\ Served \subseteq named
      BY OrderFacts DEF StartInv, Clients
    <3>2. "MQTTSUB" \in online => "MQTTSUB" \in started /\ mqtt > 0
      BY <2>1 DEF ComesFromBroker, CopiesFinal
    <3>3. mqtt > 0 => device
      BY DEF StartInv, LoadedInOrder
    <3>4. main > 6 => outlasted \/ mqtt \in {0, Whole}
      BY FinalFacts
    <3> QED
      BY <3>1, <3>2, <3>3, <3>4
  <2>3. \A m \in Served \cup {"MQTTPUB"} : m \in handled => "MQTTSUB" \in online /\ m \in ready
    BY <2>1 DEF ComesFromBroker
  <2> QED
    BY <2>1, <2>2, <2>3 DEF StartsWhole, ComesFromBroker, CopiesFinal, Served
<1> QED
  BY <1>1, <1>2, StartHolds, PTL DEF StartupSpec

-----------------------------------------------------------------------------
(* Telemetry.                                                              *)

\* The numbers of the fields.
LEMMA FieldFacts ==
  /\ Coordinates \in Nat /\ Coordinates >= 1
  /\ payloadIndex = Coordinates + 1 /\ zoomFactor = Coordinates + 2
  /\ Fields = 1 .. zoomFactor /\ 1 \in Fields /\ payloadIndex \in Fields /\ zoomFactor \in Fields
  /\ \A f \in Fields : f # zoomFactor => f + 1 \in Fields
BY TelemetryAssumption DEF payloadIndex, zoomFactor, Fields

\* Every step of track_entry and of its readers keeps the types.
LEMMA TelemetryTypes == TelemetryTypeOK /\ [TelemetryNext]_telemetryVars => TelemetryTypeOK'
<1> SUFFICES ASSUME TelemetryTypeOK, [TelemetryNext]_telemetryVars PROVE TelemetryTypeOK'
  OBVIOUS
<1>0. /\ MaxOsd \in Nat /\ ModeCodes \subseteq Int /\ modes \in Seq(ModeCodes)
      /\ Len(modes) \in Nat
  BY TelemetryAssumption, LenProperties DEF TelemetryTypeOK
<1>1. /\ parser \in {"idle", "reset", "parse", "mode", "camera", "publish"}
      /\ field \in Fields /\ (parser = "parse" => field <= Coordinates)
      /\ count \in 0 .. MaxOsd /\ (parser = "reset" => count < MaxOsd)
      /\ info \in [Fields -> 0 .. count]
      /\ next \in {0} \cup Fields /\ began \in 0 .. count
      /\ answer \in [Fields -> NotRead .. count]
      /\ cloudControl \in BOOLEAN
  BY DEF TelemetryTypeOK
<1> DEFINE Parses == /\ parser' \in {"idle", "reset", "parse", "mode", "camera", "publish"}
                     /\ field' \in Fields /\ (parser' = "parse" => field' <= Coordinates)
                     /\ count' \in 0 .. MaxOsd /\ (parser' = "reset" => count' < MaxOsd)
                     /\ info' \in [Fields -> 0 .. count']
                     /\ cloudControl' \in BOOLEAN
           Reads  == /\ next' \in {0} \cup Fields /\ began' \in 0 .. count'
                     /\ answer' \in [Fields -> NotRead .. count']
<1>a. ASSUME UNCHANGED <<uavModeCode, airborne, modes, ended>>, Parses, Reads
      PROVE  TelemetryTypeOK'
  BY <1>0, <1>a DEF TelemetryTypeOK
<1>b. ASSUME UNCHANGED readVars, count' \in Nat, count' >= count PROVE Reads
  <2>1. answer \in [Fields -> NotRead .. count']
    BY <1>0, <1>1, <1>b DEF NotRead
  <2> QED
    BY <1>0, <1>1, <1>b, <2>1 DEF readVars
<1>2. CASE BeginOsd
  <2>1. Parses /\ Reads
    BY <1>0, <1>1, <1>2, <1>b, FieldFacts DEF BeginOsd, modeVars
  <2> QED
    BY <1>2, <1>a, <2>1 DEF BeginOsd, modeVars
<1>3. CASE ResetField
  <2>1. count' \in 0 .. MaxOsd /\ count' >= count /\ (parser' = "reset" => count' < MaxOsd)
    BY <1>0, <1>1, <1>3 DEF ResetField
  <2>2. info' \in [Fields -> 0 .. count']
    <3>1. info \in [Fields -> 0 .. count'] /\ Blank \in 0 .. count'
      BY <1>0, <1>1, <2>1 DEF Blank
    <3> QED
      BY <1>1, <1>3, <3>1 DEF ResetField
  <2>3. field' \in Fields /\ (parser' = "parse" => field' <= Coordinates)
    BY <1>1, <1>3, FieldFacts DEF ResetField
  <2>4. Reads
    BY <1>0, <1>3, <1>b, <2>1 DEF ResetField
  <2>5. parser' \in {"reset", "parse"} /\ cloudControl' \in BOOLEAN
    BY <1>1, <1>3 DEF ResetField, modeVars
  <2> QED
    BY <1>3, <1>a, <2>1, <2>2, <2>3, <2>4, <2>5 DEF ResetField, modeVars
<1>4. CASE ParseFails \/ PackAndPublish
  <2>1. Parses /\ Reads
    BY <1>0, <1>1, <1>4, <1>b DEF ParseFails, PackAndPublish, modeVars
  <2> QED
    BY <1>4, <1>a, <2>1 DEF ParseFails, PackAndPublish, modeVars
<1>5. CASE ReadCoordinate
  <2>1. count' = count /\ field' = field + 1 /\ field' \in Fields
    BY <1>1, <1>5, FieldFacts DEF ReadCoordinate
  <2>2. info' \in [Fields -> 0 .. count']
    BY <1>0, <1>1, <1>5, <2>1 DEF ReadCoordinate, Blank
  <2>3. /\ parser' \in {"mode", "parse"} /\ (parser' = "parse" => field' <= Coordinates)
        /\ cloudControl' \in BOOLEAN
    BY <1>1, <1>5, <2>1, FieldFacts DEF ReadCoordinate, modeVars
  <2>4. Reads
    <3>1. UNCHANGED readVars
      BY <1>5 DEF ReadCoordinate
    <3>2. count' \in Nat /\ count' >= count
      BY <1>0, <1>1, <2>1
    <3> QED
      BY <1>b, <3>1, <3>2
  <2> QED
    BY <1>1, <1>5, <1>a, <2>1, <2>2, <2>3, <2>4 DEF ReadCoordinate, modeVars
<1>6. CASE ReadCamera
  <2>1. count' = count /\ field' \in Fields
    BY <1>1, <1>6, FieldFacts DEF ReadCamera
  <2>2. info' \in [Fields -> 0 .. count']
    BY <1>0, <1>1, <1>6, <2>1 DEF ReadCamera
  <2>3. /\ parser' \in {"publish", "camera"} /\ cloudControl' \in BOOLEAN
    BY <1>1, <1>6 DEF ReadCamera, modeVars
  <2>4. Reads
    <3>1. UNCHANGED readVars
      BY <1>6 DEF ReadCamera
    <3>2. count' \in Nat /\ count' >= count
      BY <1>0, <1>1, <2>1
    <3> QED
      BY <1>b, <3>1, <3>2
  <2> QED
    BY <1>1, <1>6, <1>a, <2>1, <2>2, <2>3, <2>4 DEF ReadCamera, modeVars
<1>7. ASSUME NEW code \in ModeCodes, ReadMode(code) PROVE TelemetryTypeOK'
  <2>1. modes' = Append(modes, code) /\ uavModeCode' = code
    BY <1>7 DEF ReadMode
  <2>2. /\ modes' \in Seq(ModeCodes) /\ Len(modes') = Len(modes) + 1
        /\ modes'[Len(modes')] = code
    BY <1>0, <2>1, AppendProperties
  <2>3. airborne' \in BOOLEAN /\ ended' \in Nat
    <3>1. airborne \in BOOLEAN /\ ended \in Nat
      BY DEF TelemetryTypeOK
    <3>2. CASE code = uavModeCode
      BY <1>7, <3>1, <3>2 DEF ReadMode
    <3>3. CASE code # uavModeCode
      <4>1. airborne' \in BOOLEAN
        BY <1>7, <3>1, <3>3 DEF ReadMode, DetectLanding
      <4>2. ended' \in Nat
        BY <1>7, <3>1, <3>3 DEF ReadMode, DetectLanding
      <4> QED
        BY <4>1, <4>2
    <3> QED
      BY <3>2, <3>3
  <2>4. Parses /\ Reads
    BY <1>0, <1>1, <1>7, <1>b DEF ReadMode
  <2> QED
    BY <2>1, <2>2, <2>3, <2>4 DEF TelemetryTypeOK
<1>8. ASSUME NEW source \in Sources, HandleStateMsg(source) PROVE TelemetryTypeOK'
  <2>1. UNCHANGED readVars /\ UNCHANGED <<parser, field, count, info>> /\ cloudControl' \in BOOLEAN
    BY <1>8 DEF HandleStateMsg
  <2>2. count' \in Nat /\ count' >= count
    BY <1>0, <1>1, <2>1
  <2>3. Parses
    BY <1>1, <2>1
  <2>4. Reads
    BY <1>b, <2>1, <2>2
  <2> QED
    BY <1>8, <1>a, <2>3, <2>4 DEF HandleStateMsg
<1>9. ASSUME NEW f \in {1, payloadIndex, zoomFactor}, BeginRead(f) PROVE TelemetryTypeOK'
  <2>1. Parses
    BY <1>1, <1>9 DEF BeginRead, modeVars
  <2>2. Reads
    BY <1>0, <1>1, <1>9, FieldFacts DEF BeginRead, NotRead
  <2> QED
    BY <1>9, <1>a, <2>1, <2>2 DEF BeginRead, modeVars
<1>10. CASE ReadField
  <2>1. Parses
    BY <1>1, <1>10 DEF ReadField, modeVars
  <2>2. next' \in {0} \cup Fields /\ began' \in 0 .. count'
    BY <1>1, <1>10, FieldFacts DEF ReadField
  <2>3. answer' \in [Fields -> NotRead .. count']
    BY <1>0, <1>1, <1>10 DEF ReadField, NotRead
  <2> QED
    BY <1>10, <1>a, <2>1, <2>2, <2>3 DEF ReadField, modeVars
<1>11. CASE UNCHANGED telemetryVars
  <2>1. Parses /\ Reads
    BY <1>0, <1>1, <1>11, <1>b DEF telemetryVars, modeVars
  <2> QED
    BY <1>11, <1>a, <2>1 DEF telemetryVars, modeVars
<1> QED
  BY <1>2, <1>3, <1>4, <1>5, <1>6, <1>7, <1>8, <1>9, <1>10, <1>11 DEF TelemetryNext

\* Types of the telemetry for all codes, any number of coordinates and messages.
THEOREM TelemetryTypeCorrect == TelemetrySpec => []TelemetryTypeOK
<1>1. TelemetryInit => TelemetryTypeOK
  <2> SUFFICES ASSUME TelemetryInit PROVE TelemetryTypeOK
    OBVIOUS
  <2>1. modes = <<>> /\ modes \in Seq(ModeCodes)
    BY EmptySeq DEF TelemetryInit
  <2>2. 0 \in 0 .. MaxOsd /\ Unknown \in ModeCodes
    BY TelemetryAssumption
  <2>3. modes # <<>> => uavModeCode = modes[Len(modes)]
    BY <2>1
  <2>4. /\ count = 0 /\ field = 1 /\ ended = 0 /\ uavModeCode = Unknown /\ next = 0 /\ began = 0
        /\ airborne \in BOOLEAN /\ cloudControl \in BOOLEAN /\ parser = "idle"
    BY DEF TelemetryInit
  <2>5. info \in [Fields -> 0 .. count] /\ answer \in [Fields -> NotRead .. count]
    BY <2>4 DEF TelemetryInit, Blank, NotRead
  <2>6. /\ count \in 0 .. MaxOsd /\ field \in Fields /\ began \in 0 .. count
        /\ uavModeCode \in ModeCodes /\ ended \in Nat
    BY <2>2, <2>4, FieldFacts
  <2> QED
    BY <2>1, <2>3, <2>4, <2>5, <2>6 DEF TelemetryTypeOK
<1> QED
  BY <1>1, TelemetryTypes, PTL DEF TelemetrySpec

\* While m_flightInfo is being reset, what is behind the parser is blank
\* already, so that the next message finds nothing of the one before it.
Fresh ==
  /\ parser = "reset" => \A f \in Fields : f < field => info[f] = Blank
  /\ NothingStale

\* Every step keeps what TRACK holds as new as the message it is parsing.
LEMMA FreshStep == TelemetryTypeOK /\ Fresh /\ [TelemetryNext]_telemetryVars => Fresh'
<1> SUFFICES ASSUME TelemetryTypeOK, Fresh, [TelemetryNext]_telemetryVars PROVE Fresh'
  OBVIOUS
<1>0. /\ field \in Fields /\ count \in Nat /\ began \in 0 .. count
      /\ info \in [Fields -> 0 .. count] /\ answer \in [Fields -> NotRead .. count]
      /\ next \in {0} \cup Fields
  BY TelemetryAssumption DEF TelemetryTypeOK
<1>1. /\ parser = "reset" => \A f \in Fields : f < field => info[f] = Blank
      /\ \A f \in Fields : info[f] \in {Blank, count}
      /\ \A f \in Fields : answer[f] \in {NotRead, Blank} \cup began .. count
  BY DEF Fresh, NothingStale
<1>a. ASSUME parser' # "reset" \/ UNCHANGED <<parser, field, info>>,
             \A f \in Fields : info'[f] \in {Blank, count'},
             \A f \in Fields : answer'[f] \in {NotRead, Blank} \cup began' .. count'
      PROVE  Fresh'
  BY <1>1, <1>a DEF Fresh, NothingStale
<1>2. CASE BeginOsd
  <2>1. parser' = "reset" => \A f \in Fields : f < field' => info'[f] = Blank
    BY <1>2, FieldFacts DEF BeginOsd
  <2> QED
    BY <1>1, <1>2, <2>1 DEF BeginOsd, readVars, Fresh, NothingStale
<1>3. CASE ResetField
  <2>1. \A f \in Fields : info'[f] = IF f = field THEN Blank ELSE info[f]
    BY <1>0, <1>3 DEF ResetField
  <2>2. CASE field = zoomFactor
    <3>1. parser' = "parse" /\ count' = count + 1
      BY <1>3, <2>2 DEF ResetField
    <3>2. \A f \in Fields : info'[f] = Blank
      <4>1. \A f \in Fields : f # field => f < field
        BY <2>2, FieldFacts
      <4> QED
        BY <1>1, <1>3, <2>1, <4>1 DEF ResetField
    <3>3. \A f \in Fields : answer'[f] \in {NotRead, Blank} \cup began' .. count'
      BY <1>0, <1>1, <1>3, <3>1 DEF ResetField, readVars
    <3> QED
      BY <1>a, <3>1, <3>2, <3>3
  <2>3. CASE field # zoomFactor
    <3>1. field' = field + 1 /\ count' = count /\ UNCHANGED readVars
      BY <1>3, <2>3 DEF ResetField
    <3>2. \A f \in Fields : f < field' => f = field \/ f < field
      BY <1>0, <3>1, FieldFacts
    <3>3. \A f \in Fields : f < field' => info'[f] = Blank
      BY <1>1, <1>3, <2>1, <3>2 DEF ResetField
    <3>4. NothingStale'
      BY <1>1, <2>1, <3>1 DEF NothingStale, readVars
    <3> QED
      BY <3>3, <3>4 DEF Fresh
  <2> QED
    BY <2>2, <2>3
<1>4. CASE ParseFails \/ PackAndPublish
  BY <1>1, <1>4, <1>a DEF ParseFails, PackAndPublish, readVars
<1>5. CASE ReadCoordinate \/ ReadCamera
  <2>1. parser' # "reset" /\ count' = count /\ UNCHANGED readVars
    BY <1>5 DEF ReadCoordinate, ReadCamera
  <2>2. PICK v \in {Blank, info[field], count} : info' = [info EXCEPT ![field] = v]
    BY <1>5 DEF ReadCoordinate, ReadCamera
  <2>3. \A f \in Fields : info'[f] \in {Blank, count}
    BY <1>0, <1>1, <2>2
  <2> QED
    BY <1>1, <1>a, <2>1, <2>3 DEF readVars
<1>6. ASSUME NEW code \in ModeCodes, ReadMode(code) PROVE Fresh'
  BY <1>1, <1>6, <1>a DEF ReadMode, readVars
<1>7. ASSUME NEW source \in Sources, HandleStateMsg(source) PROVE Fresh'
  BY <1>1, <1>7, <1>a DEF HandleStateMsg, readVars
<1>8. ASSUME NEW f \in {1, payloadIndex, zoomFactor}, BeginRead(f) PROVE Fresh'
  BY <1>1, <1>8, <1>a DEF BeginRead
<1>9. CASE ReadField
  <2>1. next \in Fields /\ UNCHANGED <<parser, field, count, info, began>>
    BY <1>0, <1>9 DEF ReadField
  <2>2. \A f \in Fields : answer'[f] = IF f = next THEN info[next] ELSE answer[f]
    BY <1>0, <1>9 DEF ReadField
  <2>3. info[next] \in {NotRead, Blank} \cup began .. count
    BY <1>0, <1>1, <2>1
  <2> QED
    BY <1>1, <1>a, <2>1, <2>2, <2>3
<1>10. CASE UNCHANGED telemetryVars
  BY <1>1, <1>10, <1>a DEF telemetryVars, readVars
<1> QED
  BY <1>2, <1>3, <1>4, <1>5, <1>6, <1>7, <1>8, <1>9, <1>10 DEF TelemetryNext

\* m_flightInfo without a lock, written and read field by field: what it holds
\* is of the newest message or blank, and a reader is never given a field of a
\* message older than the newest one at the time its read began.
THEOREM OldTelemetryIsGone == TelemetrySpec => []NothingStale
<1>1. TelemetryInit => Fresh
  BY DEF TelemetryInit, Fresh, NothingStale
<1>2. Fresh => NothingStale
  BY DEF Fresh
<1> QED
  BY <1>1, <1>2, FreshStep, TelemetryTypeCorrect, PTL DEF TelemetrySpec

Landings == {i \in DOMAIN modes : IsLanding(i)}

\* m_airborne says that an airborne code came after the last ground code.
InTheAir ==
  \E j \in 1 .. Len(modes) : /\ IsAirborne(modes[j])
                             /\ \A k \in j + 1 .. Len(modes) : ~IsGround(modes[k])

Remembers ==
  /\ airborne <=> InTheAir
  /\ modes = <<>> => uavModeCode = Unknown
  /\ EveryLandingReported

\* A landing is told by the codes up to it, so that a further code adds at most
\* one: its own.
LEMMA NextLanding ==
  ASSUME TelemetryTypeOK, NEW code \in ModeCodes, modes' = Append(modes, code),
         NEW n \in Nat, n = Len(modes)
  PROVE  /\ Landings' = IF IsGround(code) /\ InTheAir THEN Landings \cup {n + 1} ELSE Landings
         /\ n + 1 \notin Landings
         /\ InTheAir' <=> IsAirborne(code) \/ (InTheAir /\ ~IsGround(code))
<1>1. modes \in Seq(ModeCodes) /\ n \in Nat /\ DOMAIN modes = 1 .. n
  BY LenProperties DEF TelemetryTypeOK
<1>2. /\ modes' \in Seq(ModeCodes) /\ Len(modes') = n + 1 /\ modes'[n + 1] = code
      /\ \A i \in 1 .. n : modes'[i] = modes[i]
  BY <1>1, AppendProperties
<1>3. DOMAIN modes' = 1 .. n + 1
  BY <1>2, LenProperties
<1>4. ASSUME NEW i \in 1 .. n PROVE IsLanding(i)' <=> IsLanding(i)
  <2>1. \A j \in 1 .. i : modes'[j] = modes[j]
    BY <1>1, <1>2
  <2>2. \A j \in 1 .. i - 1 : /\ modes'[j] = modes[j]
                              /\ \A k \in j + 1 .. i - 1 : modes'[k] = modes[k]
    BY <2>1
  <2> QED
    BY <2>1, <2>2 DEF IsLanding
<1>5. IsLanding(n + 1)' <=> IsGround(code) /\ InTheAir
  <2>1. \A j \in 1 .. n : (\A k \in j + 1 .. n : ~IsGround(modes'[k]))
                            <=> (\A k \in j + 1 .. n : ~IsGround(modes[k]))
    BY <1>1, <1>2
  <2>2. IsLanding(n + 1)' <=>
          /\ IsGround(modes'[n + 1])
          /\ \E j \in 1 .. n : /\ IsAirborne(modes'[j])
                              /\ \A k \in j + 1 .. n : ~IsGround(modes'[k])
    <3>1. (n + 1) - 1 = n
      BY <1>1
    <3> QED
      BY <3>1 DEF IsLanding
  <2>3. InTheAir <=> \E j \in 1 .. n : /\ IsAirborne(modes[j])
                                      /\ \A k \in j + 1 .. n : ~IsGround(modes[k])
    BY DEF InTheAir
  <2> QED
    BY <1>2, <2>1, <2>2, <2>3
<1>6. InTheAir' <=> IsAirborne(code) \/ (InTheAir /\ ~IsGround(code))
  <2>1. InTheAir' <=> \E j \in 1 .. n + 1 : /\ IsAirborne(modes'[j])
                                            /\ \A k \in j + 1 .. n + 1 : ~IsGround(modes'[k])
    BY <1>2 DEF InTheAir
  <2>2. IsAirborne(code) => InTheAir'
    BY <1>1, <1>2, <2>1
  <2>3. InTheAir /\ ~IsGround(code) => InTheAir'
    BY <1>1, <1>2, <2>1 DEF InTheAir
  <2>4. InTheAir' /\ ~IsAirborne(code) => InTheAir /\ ~IsGround(code)
    BY <1>1, <1>2, <2>1 DEF InTheAir
  <2> QED
    BY <2>2, <2>3, <2>4
<1>7. Landings \subseteq 1 .. n /\ Landings' \subseteq 1 .. n + 1
  BY <1>1, <1>3 DEF Landings
<1>8. ASSUME NEW i \in 1 .. n + 1
      PROVE  i \in Landings' <=> \/ i \in Landings
                                 \/ i = n + 1 /\ IsGround(code) /\ InTheAir
  <2>1. i \in Landings' <=> IsLanding(i)'
    BY <1>3 DEF Landings
  <2>2. CASE i = n + 1
    <3>1. n + 1 \in Landings' <=> IsLanding(n + 1)'
      BY <1>1, <1>3 DEF Landings
    <3>2. n + 1 \notin Landings
      BY <1>1, <1>7
    <3> QED
      BY <1>5, <2>2, <3>1, <3>2
  <2>3. CASE i # n + 1
    <3>1. i \in 1 .. n
      BY <1>1, <2>3
    <3>2. i \in Landings <=> IsLanding(i)
      BY <1>1, <3>1 DEF Landings
    <3> QED
      BY <1>4, <2>1, <2>3, <3>1, <3>2
  <2> QED
    BY <2>2, <2>3
<1>9. Landings' = IF IsGround(code) /\ InTheAir THEN Landings \cup {n + 1} ELSE Landings
  <2>1. \A i : i \in Landings' => i \in 1 .. n + 1
    BY <1>7
  <2>2. \A i : i \in Landings => i \in 1 .. n + 1
    BY <1>1, <1>7
  <2>3. n + 1 \in 1 .. n + 1
    BY <1>1
  <2>4. CASE IsGround(code) /\ InTheAir
    <3>1. Landings' = Landings \cup {n + 1}
      BY <1>8, <2>1, <2>2, <2>3, <2>4
    <3> QED
      BY <2>4, <3>1
  <2>5. CASE ~(IsGround(code) /\ InTheAir)
    <3>1. Landings' = Landings
      BY <1>8, <2>1, <2>2, <2>5
    <3> QED
      BY <2>5, <3>1
  <2> QED
    BY <2>4, <2>5
<1>10. n + 1 \notin Landings
  BY <1>1, <1>7
<1> QED
  BY <1>6, <1>9, <1>10

\* Every step keeps the answers in step with the mode codes so far.
LEMMA RemembersStep ==
  TelemetryTypeOK /\ Remembers /\ [TelemetryNext]_telemetryVars => Remembers'
<1> SUFFICES ASSUME TelemetryTypeOK, Remembers, [TelemetryNext]_telemetryVars PROVE Remembers'
  OBVIOUS
<1>a. ASSUME UNCHANGED <<modes, airborne, uavModeCode, ended>> PROVE Remembers'
  BY <1>a DEF Remembers, InTheAir, EveryLandingReported, IsLanding
<1>1. CASE \/ BeginOsd \/ ResetField \/ ParseFails \/ ReadCoordinate \/ ReadCamera
           \/ PackAndPublish \/ ReadField \/ \E f \in Fields : BeginRead(f)
  BY <1>1, <1>a DEF BeginOsd, ResetField, ParseFails, ReadCoordinate, ReadCamera, PackAndPublish,
     ReadField, BeginRead, modeVars
<1>2. ASSUME NEW source \in Sources, HandleStateMsg(source) PROVE Remembers'
  BY <1>2, <1>a DEF HandleStateMsg
<1>3. CASE UNCHANGED telemetryVars
  BY <1>3, <1>a DEF telemetryVars, modeVars
<1>4. ASSUME NEW code \in ModeCodes, ReadMode(code) PROVE Remembers'
  <2>0. /\ modes \in Seq(ModeCodes) /\ Len(modes) \in Nat /\ DOMAIN modes = 1 .. Len(modes)
        /\ ended \in Nat /\ airborne \in BOOLEAN
    BY LenProperties DEF TelemetryTypeOK
  <2>1. modes' = Append(modes, code)
    BY <1>4 DEF ReadMode
  <2>2. /\ Landings' = IF IsGround(code) /\ InTheAir THEN Landings \cup {Len(modes) + 1}
                                                    ELSE Landings
        /\ Len(modes) + 1 \notin Landings
        /\ InTheAir' <=> IsAirborne(code) \/ (InTheAir /\ ~IsGround(code))
    BY <2>1, NextLanding
  <2>3. ~(IsAirborne(code) /\ IsGround(code))
    BY DEF IsAirborne, IsGround
  <2>4. code = uavModeCode => ~(IsGround(code) /\ InTheAir) /\ (IsAirborne(code) => InTheAir)
    <3>1. CASE modes = <<>>
      BY <2>0, <3>1, EmptySeq DEF Remembers, Unknown, IsGround, IsAirborne
    <3>2. CASE modes # <<>>
      <4>1. Len(modes) \in 1 .. Len(modes) /\ uavModeCode = modes[Len(modes)]
        BY <2>0, <3>2, EmptySeq DEF TelemetryTypeOK
      <4>2. IsAirborne(uavModeCode) => InTheAir
        BY <2>0, <4>1 DEF InTheAir
      <4>3. InTheAir => ~IsGround(uavModeCode)
        <5>1. SUFFICES ASSUME NEW j \in 1 .. Len(modes), IsAirborne(modes[j]),
                              \A k \in j + 1 .. Len(modes) : ~IsGround(modes[k])
                       PROVE  ~IsGround(modes[Len(modes)])
          BY <4>1 DEF InTheAir
        <5>2. CASE j = Len(modes)
          BY <5>1, <5>2 DEF IsAirborne, IsGround
        <5>3. CASE j # Len(modes)
          <6>1. Len(modes) \in j + 1 .. Len(modes)
            <7>1. Len(modes) \in Nat
              BY <2>0
            <7>2. j \in 1 .. Len(modes)
              BY <5>1
            <7> QED
              BY <5>3, <7>1, <7>2
          <6> QED
            BY <5>1, <6>1
        <5> QED
          BY <5>2, <5>3
      <4> QED
        BY <4>2, <4>3
    <3> QED
      BY <3>1, <3>2
  <2>5. /\ airborne' <=> IsAirborne(code) \/ (airborne /\ ~IsGround(code))
        /\ ended' = IF IsGround(code) /\ airborne THEN ended + 1 ELSE ended
    BY <1>4, <2>0, <2>3, <2>4 DEF ReadMode, DetectLanding, Remembers
  <2>6. Cardinality(Landings') = IF IsGround(code) /\ InTheAir THEN Cardinality(Landings) + 1
                                                              ELSE Cardinality(Landings)
    <3>1. IsFiniteSet(Landings)
      <4>1. IsFiniteSet(1 .. Len(modes))
        BY <2>0, FS_Interval
      <4>2. Landings \in SUBSET (1 .. Len(modes))
        BY <2>0 DEF Landings
      <4> QED
        BY <4>1, <4>2, FS_Subset
    <3>2. Cardinality(Landings \cup {Len(modes) + 1}) = Cardinality(Landings) + 1
      BY <2>2, <3>1, FS_AddElement
    <3> QED
      BY <2>2, <3>2
  <2>7. EveryLandingReported'
    BY <2>5, <2>6 DEF Remembers, EveryLandingReported, Landings
  <2>8. modes' # <<>>
    BY <2>0, <2>1, AppendProperties
  <2> QED
    BY <2>2, <2>5, <2>7, <2>8 DEF Remembers
<1> QED
  BY <1>1, <1>2, <1>3, <1>4, FieldFacts DEF TelemetryNext

\* detectLanding, told of changes only: one report for every landing in the
\* sequence of codes and none for anything else, for every sequence of codes.
THEOREM LandingsAreReported == TelemetrySpec => []EveryLandingReported
<1>1. TelemetryInit => Remembers
  <2> SUFFICES ASSUME TelemetryInit PROVE Remembers
    OBVIOUS
  <2>1. modes = <<>> /\ Len(modes) = 0 /\ DOMAIN modes = {}
    BY EmptySeq DEF TelemetryInit
  <2>2. {i \in DOMAIN modes : IsLanding(i)} = {} /\ ~InTheAir
    BY <2>1 DEF InTheAir
  <2> QED
    BY <2>2, FS_EmptySet DEF TelemetryInit, Remembers, EveryLandingReported
<1>2. Remembers => EveryLandingReported
  BY DEF Remembers
<1> QED
  BY <1>1, <1>2, RemembersStep, TelemetryTypeCorrect, PTL DEF TelemetrySpec

-----------------------------------------------------------------------------
(* Routing.                                                                *)

Managers == {"FLYTO", "PAYLOAD"}
Boxes    == {"FLYTO", "PAYLOAD", "TRACK", "DEVICE"}

Ids == {"FLYTO_RESULT_DATA_IND", "PAYLOAD_RESULT_DATA_IND", "FLYTO_PROGRESS_DATA_IND",
        "COMMON_REG_IND", "TRACK_STATE_DATA_IND", "PAYLOAD_GIMBAL_DATA_IND",
        "PAYLOAD_CAMERA_DATA_IND"}

Messages == [method : Methods \cup {"", "fly_to_point_progress"}, tid : Nat,
             drc_state : DrcStates \cup {NoState}]
Letter == [to : Boxes, id : Ids, msg : Messages]

\* What is in a module's mailbox.
In(m) == {mail[m][i] : i \in 1 .. Len(mail[m])}

ResultId(m) == IF m \in FlytoMethods THEN "FLYTO_RESULT_DATA_IND" ELSE "PAYLOAD_RESULT_DATA_IND"

\* A manager only gets replies under its own message id: to a request of this
\* service or of another client, with a method that was replied to.
Fits(m, s) ==
  /\ s.id = "FLYTO_RESULT_DATA_IND" => m = "FLYTO" /\ s.msg.tid \in answered \cup {NoTid}
  /\ s.id = "PAYLOAD_RESULT_DATA_IND" => m = "PAYLOAD" /\ s.msg.method \in heard

Posted == mail \in [Boxes -> Seq(Letter)]

Numbered ==
  /\ asked \in Seq(Methods) /\ Len(asked) <= MaxAsked
  /\ waiting \subseteq 1 .. Len(asked) /\ pending \subseteq waiting
  /\ completed \subseteq 1 .. Len(asked) /\ completed \cap waiting = {}
  /\ answered \subseteq 1 .. Len(asked) /\ heard \subseteq Methods
  /\ \A q, r \in pending : SameKey(q, r) => q = r

Addressed == \A m \in Managers : \A s \in In(m) : Fits(m, s)

OnItsWay ==
  \A r \in pending \cap answered : \E s \in In(Owner(asked[r])) : IsFor(Owner(asked[r]), s, r)

Replied ==
  \A r \in completed : IF asked[r] \in FlytoMethods THEN r \in answered
                                                   ELSE asked[r] \in heard

Displaced == \A r \in waiting \ pending : \E q \in (1 .. Len(asked)) \ {r} : SameKey(q, r)

RouteInv == Posted /\ Numbered /\ Addressed /\ OnItsWay /\ Replied /\ Displaced

\* The methods are of one controller each.
LEMMA MethodFacts ==
  /\ \A m \in Methods : Owner(m) \in Managers
  /\ \A m \in FlytoMethods : Owner(m) = "FLYTO" /\ m \notin PayloadMethods
  /\ \A m \in PayloadMethods : Owner(m) = "PAYLOAD" /\ m \notin FlytoMethods
  /\ Methods = FlytoMethods \cup PayloadMethods
  /\ "" \notin Methods /\ "fly_to_point_progress" \notin Methods
<1>1. \A m \in PayloadMethods : m \notin FlytoMethods
  BY DEF PayloadMethods, FlytoMethods
<1>2. "" \notin Methods /\ "fly_to_point_progress" \notin Methods
  BY DEF Methods, PayloadMethods, FlytoMethods
<1>3. \A m \in FlytoMethods : Owner(m) = "FLYTO"
  BY DEF Owner
<1>4. \A m \in PayloadMethods : Owner(m) = "PAYLOAD"
  BY <1>1 DEF Owner
<1>5. Methods = FlytoMethods \cup PayloadMethods
  BY DEF Methods
<1>6. \A m \in Methods : Owner(m) \in Managers
  BY <1>3, <1>4, <1>5 DEF Managers
<1> QED
  BY <1>1, <1>2, <1>3, <1>4, <1>5, <1>6, Zenon

\* pf_copy_msg appends to the mailboxes it is for.
LEMMA Posting ==
  ASSUME mail \in [Boxes -> Seq(Letter)], NEW sends \in SUBSET Letter, mail' = Delivered(sends)
  PROVE  /\ mail' \in [Boxes -> Seq(Letter)]
         /\ \A m \in Boxes :
              /\ In(m) \subseteq In(m)'
              /\ In(m)' \subseteq In(m) \cup {s \in sends : s.to = m}
              /\ (\E s \in sends : s.to = m) => \E s \in sends : s.to = m /\ s \in In(m)'
<1>1. ASSUME NEW m \in Boxes
      PROVE  \/ mail'[m] = mail[m] /\ ~\E s \in sends : s.to = m
             \/ \E s \in sends : s.to = m /\ mail'[m] = Append(mail[m], s)
  BY DEF Delivered
<1>2. ASSUME NEW m \in Boxes
      PROVE  /\ mail'[m] \in Seq(Letter)
             /\ In(m) \subseteq In(m)'
             /\ In(m)' \subseteq In(m) \cup {s \in sends : s.to = m}
             /\ (\E s \in sends : s.to = m) => \E s \in sends : s.to = m /\ s \in In(m)'
  <2>1. mail[m] \in Seq(Letter) /\ Len(mail[m]) \in Nat
    OBVIOUS
  <2>2. CASE mail'[m] = mail[m] /\ ~\E s \in sends : s.to = m
    BY <2>1, <2>2 DEF In
  <2>3. ASSUME NEW s \in sends, s.to = m, mail'[m] = Append(mail[m], s)
        PROVE  mail'[m] \in Seq(Letter) /\ In(m)' = In(m) \cup {s}
    <3>1. /\ mail'[m] \in Seq(Letter) /\ Len(mail'[m]) = Len(mail[m]) + 1
          /\ mail'[m][Len(mail[m]) + 1] = s
          /\ \A i \in 1 .. Len(mail[m]) : mail'[m][i] = mail[m][i]
      BY <2>1, <2>3, AppendProperties
    <3>2. 1 .. Len(mail'[m]) = 1 .. Len(mail[m]) \cup {Len(mail[m]) + 1}
      BY <2>1, <3>1
    <3> QED
      BY <3>1, <3>2 DEF In
  <2> QED
    BY <1>1, <2>2, <2>3
<1>3. mail' \in [Boxes -> Seq(Letter)]
  <2>1. mail' = [m \in Boxes |-> mail'[m]]
    BY DEF Delivered
  <2> QED
    BY <1>2, <2>1
<1> QED
  BY <1>2, <1>3

\* A module takes the first message of its own mailbox.
LEMMA Taking ==
  ASSUME mail \in [Boxes -> Seq(Letter)], NEW b \in Boxes, mail[b] # <<>>, Take(b)
  PROVE  /\ mail' \in [Boxes -> Seq(Letter)]
         /\ Head(mail[b]) \in In(b) /\ Head(mail[b]) \in Letter
         /\ In(b) \subseteq In(b)' \cup {Head(mail[b])}
         /\ \A m \in Boxes : In(m)' \subseteq In(m) /\ (m # b => In(m)' = In(m))
<1>1. mail[b] \in Seq(Letter) /\ Len(mail[b]) \in Nat \ {0}
  BY EmptySeq
<1>2. /\ Head(mail[b]) \in Letter /\ Head(mail[b]) = mail[b][1]
      /\ Tail(mail[b]) \in Seq(Letter) /\ Len(Tail(mail[b])) = Len(mail[b]) - 1
      /\ \A i \in 1 .. Len(mail[b]) - 1 : Tail(mail[b])[i] = mail[b][i + 1]
  <2>1. Head(mail[b]) = mail[b][1]
    BY <1>1
  <2> QED
    BY <1>1, <2>1, HeadTailProperties
<1>3. /\ mail' \in [Boxes -> Seq(Letter)] /\ mail'[b] = Tail(mail[b])
      /\ \A m \in Boxes : m # b => mail'[m] = mail[m]
  BY <1>2 DEF Take
<1>4. Len(mail'[b]) = Len(mail[b]) - 1
      /\ \A i \in 1 .. Len(mail[b]) - 1 : mail'[b][i] = mail[b][i + 1]
  BY <1>2, <1>3
<1>5. In(b)' \subseteq In(b)
  <2>1. ASSUME NEW i \in 1 .. Len(mail'[b]) PROVE mail'[b][i] \in In(b)
    <3>1. i + 1 \in 1 .. Len(mail[b]) /\ mail'[b][i] = mail[b][i + 1]
      BY <1>1, <1>4
    <3> QED
      BY <3>1 DEF In
  <2> QED
    BY <2>1 DEF In
<1>6. In(b) \subseteq In(b)' \cup {mail[b][1]}
  <2>1. ASSUME NEW i \in 1 .. Len(mail[b]), i # 1 PROVE mail[b][i] \in In(b)'
    <3>1. i - 1 \in 1 .. Len(mail[b]) - 1 /\ mail'[b][i - 1] = mail[b][i]
      BY <1>1, <1>4, <2>1
    <3> QED
      BY <1>4, <3>1 DEF In
  <2> QED
    BY <2>1 DEF In
<1>7. mail[b][1] \in In(b)
  BY <1>1 DEF In
<1>8. \A m \in Boxes : m # b => In(m)' = In(m)
  BY <1>3 DEF In
<1> QED
  BY <1>2, <1>3, <1>5, <1>6, <1>7, <1>8

\* The letter pf_copy_msg makes, and its three parts.
LEMMA SendFacts ==
  \A to \in Boxes, id \in Ids, msg \in Messages :
    /\ Send(to, id, msg) \subseteq Letter
    /\ \E s \in Send(to, id, msg) : s.to = to
    /\ \A s \in Send(to, id, msg) : s.to = to /\ s.id = id /\ s.msg = msg
<1> TAKE to \in Boxes, id \in Ids, msg \in Messages
<1> DEFINE s == [to |-> to, id |-> id, msg |-> msg]
<1>1. s \in Letter
  BY DEF Letter
<1>2. s.to = to /\ s.id = id /\ s.msg = msg
  OBVIOUS
<1>3. Send(to, id, msg) = {s}
  BY DEF Send
<1> HIDE DEF s
<1> QED
  BY <1>1, <1>2, <1>3

\* onRead: a reply gets under its own id to the manager that waits for it.
LEMMA ReplyRoute ==
  ASSUME NEW m \in Methods, NEW tid \in Nat, NEW kind \in {"services_reply", "drc_up"}, NEW sends,
         sends = OnRead(<<kind, dock_sn>>, [method |-> m, tid |-> tid, drc_state |-> NoState])
  PROVE  /\ sends \subseteq Letter
         /\ \E s \in sends : s.to = Owner(m)
         /\ \A s \in sends : /\ s.to = Owner(m) => s.id = ResultId(m)
                             /\ s.id = "FLYTO_RESULT_DATA_IND" => s.to = "FLYTO"
                             /\ s.id = "PAYLOAD_RESULT_DATA_IND" => s.to = "PAYLOAD"
                             /\ s.msg.method = m /\ s.msg.tid = tid
<1> DEFINE msg == [method |-> m, tid |-> tid, drc_state |-> NoState]
<1>1. msg.method = m /\ msg.tid = tid /\ msg \in Messages
  BY DEF Messages
<1>2. sends = ReplySends(msg)
  <2>1. <<kind, dock_sn>>[1] = kind /\ kind \in ByMethod
    BY DEF ByMethod
  <2> QED
    BY <2>1 DEF OnRead, ByMethod, Finds
<1> HIDE DEF msg
<1>3. {"FLYTO", "PAYLOAD"} \subseteq Boxes
      /\ {"FLYTO_RESULT_DATA_IND", "PAYLOAD_RESULT_DATA_IND"} \subseteq Ids
  BY DEF Boxes, Ids
<1>4. CASE m \in FlytoMethods
  <2> DEFINE toFlyto   == Send("FLYTO", "FLYTO_RESULT_DATA_IND", msg)
             toPayload == Send("PAYLOAD", "PAYLOAD_RESULT_DATA_IND", msg)
  <2>1. sends = toFlyto \cup toPayload
    <3>1. m \notin PayloadMethods /\ m # "fly_to_point_progress"
      BY <1>4, MethodFacts
    <3> QED
      BY <1>1, <1>2, <1>4, <3>1 DEF ReplySends
  <2>2. Owner(m) = "FLYTO" /\ ResultId(m) = "FLYTO_RESULT_DATA_IND"
    BY <1>4, MethodFacts DEF ResultId
  <2>3. /\ toFlyto \subseteq Letter /\ \E s \in toFlyto : s.to = "FLYTO"
        /\ \A s \in toFlyto : s.to = "FLYTO" /\ s.id = "FLYTO_RESULT_DATA_IND" /\ s.msg = msg
    BY <1>1, <1>3, SendFacts
  <2>4. /\ toPayload \subseteq Letter
        /\ \A s \in toPayload : /\ s.to = "PAYLOAD" /\ s.id = "PAYLOAD_RESULT_DATA_IND"
                                /\ s.msg = msg
    BY <1>1, <1>3, SendFacts
  <2> HIDE DEF toFlyto, toPayload
  <2>5. /\ sends \subseteq Letter /\ \E s \in sends : s.to = Owner(m)
        /\ \A s \in sends : s.msg.method = m /\ s.msg.tid = tid
    BY <1>1, <2>1, <2>2, <2>3, <2>4
  <2>6. \A s \in sends : /\ s.to = Owner(m) => s.id = ResultId(m)
                         /\ s.id = "FLYTO_RESULT_DATA_IND" => s.to = "FLYTO"
                         /\ s.id = "PAYLOAD_RESULT_DATA_IND" => s.to = "PAYLOAD"
    BY <2>1, <2>2, <2>3, <2>4
  <2> QED
    BY <2>5, <2>6
<1>5. CASE m \notin FlytoMethods
  <2>1. m \in PayloadMethods /\ m # "fly_to_point_progress"
    BY <1>5, MethodFacts
  <2>2. sends = Send("PAYLOAD", "PAYLOAD_RESULT_DATA_IND", msg)
    BY <1>1, <1>2, <1>5, <2>1 DEF ReplySends
  <2>3. Owner(m) = "PAYLOAD" /\ ResultId(m) = "PAYLOAD_RESULT_DATA_IND"
    BY <1>5, <2>1, MethodFacts DEF ResultId
  <2> DEFINE toPayload == Send("PAYLOAD", "PAYLOAD_RESULT_DATA_IND", msg)
  <2>4. /\ toPayload \subseteq Letter /\ \E s \in toPayload : s.to = "PAYLOAD"
        /\ \A s \in toPayload : /\ s.to = "PAYLOAD" /\ s.id = "PAYLOAD_RESULT_DATA_IND"
                                /\ s.msg = msg
    BY <1>1, <1>3, SendFacts
  <2>5. sends = toPayload
    BY <2>2
  <2> HIDE DEF toPayload
  <2> QED
    BY <1>1, <2>3, <2>4, <2>5
<1> QED
  BY <1>4, <1>5

\* No other message looks like a reply.
PlainIds == Ids \ {"FLYTO_RESULT_DATA_IND", "PAYLOAD_RESULT_DATA_IND"}
Plain(sends) == sends \subseteq Letter /\ \A s \in sends : s.id \in PlainIds

\* A letter under one of these ids is plain.
LEMMA PlainSend ==
  \A to \in Boxes, id \in PlainIds, msg \in Messages : Plain(Send(to, id, msg))
<1> TAKE to \in Boxes, id \in PlainIds, msg \in Messages
<1>1. id \in Ids
  BY DEF PlainIds
<1> QED
  BY <1>1, SendFacts DEF Plain

\* onRead makes plain letters of whatever has no method of a request.
LEMMA PlainRoute ==
  ASSUME NEW topic, NEW msg \in Messages, msg.method \in {"", "fly_to_point_progress"}
  PROVE  Plain(OnRead(topic, msg))
<1>1. msg.method \notin FlytoMethods /\ msg.method \notin PayloadMethods
  BY MethodFacts
<1>2. ReplySends(msg) = IF msg.method = "fly_to_point_progress"
                          THEN Send("FLYTO", "FLYTO_PROGRESS_DATA_IND", msg) ELSE {}
  BY <1>1 DEF ReplySends
<1>3. \/ OnRead(topic, msg) = {}
      \/ \E to \in Boxes, id \in PlainIds : OnRead(topic, msg) = Send(to, id, msg)
  <2>1. /\ {"FLYTO_PROGRESS_DATA_IND", "COMMON_REG_IND", "TRACK_STATE_DATA_IND",
            "PAYLOAD_GIMBAL_DATA_IND", "PAYLOAD_CAMERA_DATA_IND"} \subseteq PlainIds
        /\ {"FLYTO", "PAYLOAD", "TRACK", "DEVICE"} \subseteq Boxes
    BY DEF Boxes, Ids, PlainIds
  <2>2. OnRead(topic, msg) \in
          {ReplySends(msg), Send("TRACK", "COMMON_REG_IND", msg),
           Send("TRACK", "TRACK_STATE_DATA_IND", msg),
           Send("DEVICE", "COMMON_REG_IND", msg), Send("FLYTO", "COMMON_REG_IND", msg),
           Send("PAYLOAD", "PAYLOAD_GIMBAL_DATA_IND", msg),
           Send("PAYLOAD", "PAYLOAD_CAMERA_DATA_IND", msg), {}}
    BY DEF OnRead
  <2> QED
    BY <1>2, <2>1, <2>2
<1>4. Plain({})
  BY DEF Plain
<1> QED
  BY <1>3, <1>4, PlainSend

\* The same for the messages Publish chooses from.
LEMMA OtherRoute ==
  ASSUME NEW topic, NEW method \in {"", "fly_to_point_progress"},
         NEW state \in DrcStates \cup {NoState}, NEW sends,
         sends = OnRead(topic, [method |-> method, tid |-> NoTid, drc_state |-> state])
  PROVE  Plain(sends)
<1> DEFINE msg == [method |-> method, tid |-> NoTid, drc_state |-> state]
<1>1. msg.method = method /\ msg \in Messages
  BY DEF Messages, NoTid
<1>2. sends = OnRead(topic, msg)
  OBVIOUS
<1> HIDE DEF msg
<1> QED
  BY <1>1, <1>2, PlainRoute

\* The set of a mailbox changes with the mailbox alone.
LEMMA SameMail ==
  ASSUME mail' = mail
  PROVE  \A m : In(m)' = In(m)
BY DEF In

\* The numbers of the requests, and what stays of them when one is added.
LEMMA RequestFacts ==
  ASSUME Numbered
  PROVE  /\ Len(asked) \in Nat /\ DOMAIN asked = 1 .. Len(asked)
         /\ \A r \in 1 .. Len(asked) : asked[r] \in Methods /\ Owner(asked[r]) \in Managers
         /\ NoTid \notin 1 .. Len(asked)
<1>1. asked \in Seq(Methods)
  BY DEF Numbered
<1>2. /\ Len(asked) \in Nat /\ DOMAIN asked = 1 .. Len(asked)
      /\ \A r \in 1 .. Len(asked) : asked[r] \in Methods
  BY <1>1, LenProperties
<1>3. \A r \in 1 .. Len(asked) : Owner(asked[r]) \in Managers
  BY <1>2, MethodFacts, Zenon
<1>4. NoTid \notin 1 .. Len(asked)
  BY <1>2 DEF NoTid
<1> QED
  BY <1>2, <1>3, <1>4, Zenon

\* A new request is registered in place of one with its key, and unanswered.
LEMMA AskRoute ==
  ASSUME RouteInv, NEW m \in Methods, Ask(m)
  PROVE  RouteInv'
<1> USE DEF RouteInv
<1>a. Len(asked) \in Nat
  BY RequestFacts
<1>b. PICK n \in Nat : n = Len(asked)
  BY <1>a
<1>c. PICK new \in Nat : new = n + 1
  BY <1>b
<1>0. n \in Nat /\ new \in Nat /\ n = Len(asked) /\ new = n + 1
  BY <1>b, <1>c
<1>1. /\ n < MaxAsked /\ asked' = Append(asked, m) /\ waiting' = waiting \cup {new}
      /\ pending' = {q \in pending : asked[q] = m => m \in FlytoMethods} \cup {new}
      /\ UNCHANGED <<answered, heard, completed, mail>>
  BY <1>0 DEF Ask
<1>2. /\ n \in Nat /\ MaxAsked \in Nat /\ waiting \subseteq 1 .. n /\ pending \subseteq waiting
      /\ completed \subseteq 1 .. n /\ answered \subseteq 1 .. n /\ asked \in Seq(Methods)
  BY <1>0, RoutingAssumption DEF Numbered
<1>3. /\ asked' \in Seq(Methods) /\ Len(asked') = new /\ asked'[new] = m
      /\ \A i \in 1 .. n : asked'[i] = asked[i]
  BY <1>0, <1>1, <1>2, AppendProperties
<1>4. \A q, r \in 1 .. n : SameKey(q, r)' <=> SameKey(q, r)
  BY <1>3 DEF SameKey
<1>5. \A q \in 1 .. n : /\ SameKey(q, new)' <=> m \in PayloadMethods /\ asked[q] = m
                        /\ SameKey(new, q)' <=> m \in PayloadMethods /\ asked[q] = m
  BY <1>0, <1>3 DEF SameKey
<1>6. new \in 1 .. new /\ new \notin 1 .. n /\ 1 .. n \subseteq 1 .. new /\ new <= MaxAsked
  BY <1>0, <1>1, <1>2
<1>7. \A q \in pending' : q = new \/ (q \in pending /\ (asked[q] = m => m \in FlytoMethods))
  BY <1>1
<1>8. \A q, r \in pending' : SameKey(q, r)' => q = r
  <2> SUFFICES ASSUME NEW q \in pending', NEW r \in pending', SameKey(q, r)' PROVE q = r
    OBVIOUS
  <2>1. CASE q = new /\ r # new
    BY <1>2, <1>5, <1>7, <2>1, MethodFacts
  <2>2. CASE q # new /\ r = new
    BY <1>2, <1>5, <1>7, <2>2, MethodFacts
  <2>3. CASE q # new /\ r # new
    BY <1>2, <1>4, <1>7, <2>3 DEF Numbered
  <2> QED
    BY <2>1, <2>2, <2>3
<1>9. Numbered'
  <2>1. waiting' \subseteq 1 .. Len(asked') /\ pending' \subseteq waiting'
    BY <1>1, <1>2, <1>3, <1>6, <1>7
  <2>2. completed' \subseteq 1 .. Len(asked') /\ answered' \subseteq 1 .. Len(asked')
    BY <1>1, <1>2, <1>3, <1>6
  <2>3. completed' \cap waiting' = {}
    BY <1>1, <1>2, <1>6 DEF Numbered
  <2> QED
    BY <1>1, <1>3, <1>6, <1>8, <2>1, <2>2, <2>3 DEF Numbered
<1>10. Posted' /\ Addressed'
  BY <1>1, SameMail DEF Posted, Addressed, Fits
<1>11. Replied'
  <2>1. \A r \in completed : asked'[r] = asked[r]
    BY <1>2, <1>3
  <2> QED
    BY <1>1, <2>1 DEF Replied
<1>12. OnItsWay'
  <2>1. \A r \in pending' \cap answered' : r \in pending \cap answered /\ asked'[r] = asked[r]
    BY <1>1, <1>2, <1>3, <1>6, <1>7
  <2>2. ASSUME NEW r \in pending' \cap answered'
        PROVE  \E s \in In(Owner(asked[r]))' : IsFor(Owner(asked[r]), s, r)'
    <3>1. asked'[r] = asked[r] /\ r \in pending \cap answered
      BY <2>1
    <3>2. PICK s \in In(Owner(asked[r])) : IsFor(Owner(asked[r]), s, r)
      BY <3>1 DEF OnItsWay
    <3>3. IsFor(Owner(asked[r]), s, r)'
      BY <3>1, <3>2 DEF IsFor
    <3>4. s \in In(Owner(asked[r]))'
      BY <1>1, <3>1, <3>2 DEF In
    <3> QED
      BY <3>3, <3>4
  <2> QED
    BY <2>2 DEF OnItsWay
<1>13. Displaced'
  <2> SUFFICES ASSUME NEW r \in waiting', r \notin pending'
               PROVE  \E q \in (1 .. new) \ {r} : SameKey(q, r)'
    BY <1>3 DEF Displaced
  <2>1. r \in waiting /\ r \in 1 .. n
    BY <1>1, <1>2
  <2>2. CASE r \in pending
    <3>1. asked[r] = m /\ m \in PayloadMethods
      BY <1>1, <2>2, MethodFacts
    <3> QED
      BY <1>5, <1>6, <2>1, <3>1
  <2>3. CASE r \notin pending
    <3>1. PICK q \in (1 .. n) \ {r} : SameKey(q, r)
      BY <1>0, <2>1, <2>3 DEF Displaced
    <3> QED
      BY <1>4, <1>6, <2>1, <3>1
  <2> QED
    BY <2>2, <2>3
<1> QED
  BY <1>9, <1>10, <1>11, <1>12, <1>13

\* cleanup() takes what is registered under the key of the call that gives up,
\* which may be a later request with its method.
LEMMA GiveUpKeepsRoute ==
  ASSUME RouteInv, NEW r, GiveUp(r)
  PROVE  RouteInv'
<1> USE DEF RouteInv
<1>1. /\ r \in waiting /\ waiting' = waiting \ {r}
      /\ pending' = {q \in pending : ~SameKey(q, r)}
      /\ UNCHANGED <<asked, answered, heard, completed, mail>>
  BY DEF GiveUp
<1>2. \A p, q : SameKey(p, q)' <=> SameKey(p, q)
  BY <1>1 DEF SameKey
<1>3. pending' \subseteq pending /\ r \notin pending' /\ waiting' \subseteq waiting
  BY <1>1 DEF SameKey
<1>4. Numbered'
  <2>1. pending' \subseteq waiting'
    BY <1>1, <1>3 DEF Numbered
  <2>2. \A p, q \in pending' : SameKey(p, q)' => p = q
    BY <1>2, <1>3 DEF Numbered
  <2> QED
    BY <1>1, <1>3, <2>1, <2>2 DEF Numbered
<1>5. Posted' /\ Addressed' /\ Replied'
  BY <1>1, SameMail DEF Posted, Addressed, Fits, Replied
<1>6. OnItsWay'
  BY <1>1, <1>3, SameMail DEF OnItsWay, IsFor
<1>7. ASSUME NEW x \in waiting', x \notin pending'
      PROVE  \E q \in (1 .. Len(asked)) \ {x} : SameKey(q, x)
  <2>1. CASE x \in pending
    <3>1. SameKey(x, r) /\ x # r
      BY <1>1, <1>7, <2>1
    <3>2. SameKey(r, x) /\ r \in 1 .. Len(asked)
      BY <1>1, <3>1 DEF SameKey, Numbered
    <3> QED
      BY <3>1, <3>2
  <2>2. CASE x \notin pending
    BY <1>3, <1>7, <2>2 DEF Displaced
  <2> QED
    BY <2>1, <2>2
<1>8. Displaced'
  BY <1>1, <1>2, <1>7 DEF Displaced
<1> QED
  BY <1>4, <1>5, <1>6, <1>8

\* A reply is on its way to the manager of its method.
LEMMA Hearing ==
  ASSUME mail \in [Boxes -> Seq(Letter)], NEW m \in Methods, NEW tid \in Nat, Hear(m, tid)
  PROVE  /\ mail' \in [Boxes -> Seq(Letter)]
         /\ \A b \in Boxes : In(b) \subseteq In(b)'
         /\ \A b \in Boxes : \A s \in In(b)' :
              \/ s \in In(b)
              \/ /\ s.id = "FLYTO_RESULT_DATA_IND" => b = "FLYTO"
                 /\ s.id = "PAYLOAD_RESULT_DATA_IND" => b = "PAYLOAD"
                 /\ s.msg.method = m /\ s.msg.tid = tid
         /\ \E s \in In(Owner(m))' : s.id = ResultId(m) /\ s.msg.method = m /\ s.msg.tid = tid
<1> DEFINE kind == IF m \in FlytoMethods THEN "services_reply" ELSE "drc_up"
           sends == OnRead(<<kind, dock_sn>>,
                           [method |-> m, tid |-> tid, drc_state |-> NoState])
<1>1. mail' = Delivered(sends)
  BY DEF Hear
<1>2. kind \in {"services_reply", "drc_up"}
  OBVIOUS
<1> HIDE DEF kind
<1>3. /\ sends \subseteq Letter
      /\ \E s \in sends : s.to = Owner(m)
      /\ \A s \in sends : /\ s.to = Owner(m) => s.id = ResultId(m)
                          /\ s.id = "FLYTO_RESULT_DATA_IND" => s.to = "FLYTO"
                          /\ s.id = "PAYLOAD_RESULT_DATA_IND" => s.to = "PAYLOAD"
                          /\ s.msg.method = m /\ s.msg.tid = tid
  <2>1. sends = OnRead(<<kind, dock_sn>>, [method |-> m, tid |-> tid, drc_state |-> NoState])
    OBVIOUS
  <2> HIDE DEF sends
  <2> QED
    BY <1>2, <2>1, ReplyRoute
<1> HIDE DEF sends
<1>4. /\ mail' \in [Boxes -> Seq(Letter)]
      /\ \A b \in Boxes :
           /\ In(b) \subseteq In(b)'
           /\ In(b)' \subseteq In(b) \cup {s \in sends : s.to = b}
           /\ (\E s \in sends : s.to = b) => \E s \in sends : s.to = b /\ s \in In(b)'
  BY <1>1, <1>3, Posting
<1>5. Owner(m) \in Boxes
  BY MethodFacts DEF Managers, Boxes
<1>6. \E s \in In(Owner(m))' : s.id = ResultId(m) /\ s.msg.method = m /\ s.msg.tid = tid
  BY <1>3, <1>4, <1>5
<1>7. ASSUME NEW b \in Boxes, NEW s \in In(b)', s \notin In(b)
      PROVE  /\ s.id = "FLYTO_RESULT_DATA_IND" => b = "FLYTO"
             /\ s.id = "PAYLOAD_RESULT_DATA_IND" => b = "PAYLOAD"
             /\ s.msg.method = m /\ s.msg.tid = tid
  <2>1. s \in sends /\ s.to = b
    BY <1>4, <1>7
  <2> QED
    BY <1>3, <2>1
<1> QED
  BY <1>4, <1>6, <1>7

\* A reply, to a request or to another client, takes nothing from its way.
LEMMA HearKeepsRoute ==
  ASSUME RouteInv, NEW m \in Methods, NEW tid \in Nat, Hear(m, tid),
         UNCHANGED <<asked, waiting, pending, completed>>,
         \/ tid = NoTid /\ answered' = answered
         \/ tid \in 1 .. Len(asked) /\ asked[tid] = m /\ answered' = answered \cup {tid}
  PROVE  RouteInv'
<1> USE DEF RouteInv
<1>1. heard' = heard \cup {m} /\ answered \subseteq answered' /\ tid \in answered' \cup {NoTid}
  BY DEF Hear
<1>2. /\ mail' \in [Boxes -> Seq(Letter)]
      /\ \A b \in Boxes : In(b) \subseteq In(b)'
      /\ \A b \in Boxes : \A s \in In(b)' :
           \/ s \in In(b)
           \/ /\ s.id = "FLYTO_RESULT_DATA_IND" => b = "FLYTO"
              /\ s.id = "PAYLOAD_RESULT_DATA_IND" => b = "PAYLOAD"
              /\ s.msg.method = m /\ s.msg.tid = tid
      /\ \E s \in In(Owner(m))' : s.id = ResultId(m) /\ s.msg.method = m /\ s.msg.tid = tid
  BY Hearing DEF Posted
<1>3. Managers \subseteq Boxes
  BY DEF Managers, Boxes
<1>4. Posted'
  BY <1>2 DEF Posted
<1>5. Numbered'
  <2>1. \A q, r : SameKey(q, r)' <=> SameKey(q, r)
    BY DEF SameKey
  <2>2. answered' \subseteq 1 .. Len(asked)
    BY DEF Numbered
  <2> QED
    BY <1>1, <2>1, <2>2 DEF Numbered
<1>6. ASSUME NEW b \in Managers, NEW s \in In(b)' PROVE Fits(b, s)'
  <2>1. CASE s \in In(b)
    <3>1. Fits(b, s)
      BY <2>1 DEF Addressed
    <3> QED
      BY <1>1, <3>1 DEF Fits
  <2>2. CASE s \notin In(b)
    <3>1. /\ s.id = "FLYTO_RESULT_DATA_IND" => b = "FLYTO"
          /\ s.id = "PAYLOAD_RESULT_DATA_IND" => b = "PAYLOAD"
          /\ s.msg.method = m /\ s.msg.tid = tid
      BY <1>2, <1>3, <2>2
    <3> QED
      BY <1>1, <3>1 DEF Fits
  <2> QED
    BY <2>1, <2>2
<1>7. Addressed'
  BY <1>6 DEF Addressed
<1>8. ASSUME NEW r \in pending, r \in answered'
      PROVE  \E s \in In(Owner(asked[r]))' : IsFor(Owner(asked[r]), s, r)
  <2>1. r \in 1 .. Len(asked) /\ asked[r] \in Methods /\ Owner(asked[r]) \in Boxes
    BY <1>3, RequestFacts DEF Numbered
  <2>2. CASE r \in answered
    <3>1. \E s \in In(Owner(asked[r])) : IsFor(Owner(asked[r]), s, r)
      BY <2>2 DEF OnItsWay
    <3> QED
      BY <1>2, <2>1, <3>1
  <2>3. CASE r \notin answered
    <3>1. tid = r /\ asked[r] = m
      BY <1>8, <2>3
    <3>2. PICK s \in In(Owner(m))' : s.id = ResultId(m) /\ s.msg.method = m /\ s.msg.tid = tid
      BY <1>2
    <3>3. IsFor(Owner(asked[r]), s, r)
      BY <3>1, <3>2 DEF IsFor, ResultId
    <3> QED
      BY <3>1, <3>2, <3>3
  <2> QED
    BY <2>2, <2>3
<1>9. OnItsWay'
  <2>1. \A b, s, r : IsFor(b, s, r)' <=> IsFor(b, s, r)
    BY DEF IsFor
  <2> QED
    BY <1>8, <2>1 DEF OnItsWay
<1>10. Replied'
  BY <1>1 DEF Replied
<1>11. Displaced'
  BY DEF Displaced, SameKey
<1> QED
  BY <1>4, <1>5, <1>7, <1>9, <1>10, <1>11

\* The replies of the aircraft, to this service and to others.
LEMMA ReplyKeepsRoute ==
  ASSUME RouteInv
  PROVE  /\ \A r : Reply(r) => RouteInv'
         /\ \A m \in Methods : ForeignReply(m) => RouteInv'
<1>1. ASSUME NEW r, Reply(r) PROVE RouteInv'
  <2>1. /\ r \in 1 .. Len(asked) /\ answered' = answered \cup {r} /\ Hear(asked[r], r)
        /\ UNCHANGED <<asked, waiting, pending, completed>>
    BY <1>1, RequestFacts DEF Reply, RouteInv
  <2>2. asked[r] \in Methods /\ r \in Nat
    BY <2>1, RequestFacts DEF RouteInv
  <2> QED
    BY <2>1, <2>2, HearKeepsRoute
<1>2. ASSUME NEW m \in Methods, ForeignReply(m) PROVE RouteInv'
  <2>1. /\ answered' = answered /\ Hear(m, NoTid) /\ NoTid \in Nat
        /\ UNCHANGED <<asked, waiting, pending, completed>>
    BY <1>2 DEF ForeignReply, NoTid
  <2> QED
    BY <2>1, HearKeepsRoute
<1> QED
  BY <1>1, <1>2

\* What stays of the invariant when the requests stay and the managers' mailboxes
\* get plain letters at most.
LEMMA PlainKeepsRoute ==
  ASSUME RouteInv, UNCHANGED requestVars, mail' \in [Boxes -> Seq(Letter)],
         \A m \in Managers : /\ In(m) \subseteq In(m)'
                             /\ \A s \in In(m)' : s \in In(m) \/ s.id \in PlainIds
  PROVE  RouteInv'
<1> USE DEF RouteInv
<1>1. UNCHANGED <<asked, waiting, pending, answered, heard, completed>>
  BY DEF requestVars
<1>2. \A q, r : SameKey(q, r)' <=> SameKey(q, r)
  BY <1>1 DEF SameKey
<1>3. Posted' /\ Numbered' /\ Replied' /\ Displaced'
  BY <1>1, <1>2 DEF Posted, Numbered, Replied, Displaced
<1>4. ASSUME NEW m \in Managers, NEW s \in In(m)' PROVE Fits(m, s)'
  <2>1. CASE s \in In(m)
    BY <1>1, <2>1 DEF Addressed, Fits
  <2>2. CASE s.id \in PlainIds
    BY <2>2 DEF Fits, PlainIds
  <2> QED
    BY <1>4, <2>1, <2>2
<1>5. Addressed'
  BY <1>4 DEF Addressed
<1>6. \A r \in pending : Owner(asked[r]) \in Managers
  BY RequestFacts DEF Numbered
<1>7. OnItsWay'
  BY <1>1, <1>6 DEF OnItsWay, IsFor
<1> QED
  BY <1>3, <1>5, <1>7

\* No other message gets into the way.
LEMMA PublishKeepsRoute ==
  ASSUME RouteInv, NEW topic, Publish(topic)
  PROVE  RouteInv'
<1>1. UNCHANGED requestVars
  BY DEF Publish
<1>2. PICK method \in {"", "fly_to_point_progress"}, state \in DrcStates \cup {NoState} :
        mail' = Delivered(OnRead(topic, [method |-> method, tid |-> NoTid, drc_state |-> state]))
  BY DEF Publish
<1> DEFINE sends == OnRead(topic, [method |-> method, tid |-> NoTid, drc_state |-> state])
<1>3. sends \subseteq Letter /\ \A s \in sends : s.id \in PlainIds
  BY OtherRoute DEF Plain
<1>4. mail' = Delivered(sends)
  BY <1>2
<1> HIDE DEF sends
<1>5. /\ mail' \in [Boxes -> Seq(Letter)]
      /\ \A m \in Boxes : /\ In(m) \subseteq In(m)'
                          /\ In(m)' \subseteq In(m) \cup {s \in sends : s.to = m}
  <2>1. mail \in [Boxes -> Seq(Letter)]
    BY DEF RouteInv, Posted
  <2> QED
    BY <1>3, <1>4, <2>1, Posting
<1>6. Managers \subseteq Boxes
  BY DEF Managers, Boxes
<1> QED
  BY <1>1, <1>3, <1>5, <1>6, PlainKeepsRoute

\* A manager completes what its message is the reply of, and nothing else.
LEMMA HandleKeepsRoute ==
  ASSUME RouteInv, NEW m \in Managers, Handle(m)
  PROVE  RouteInv'
<1> USE DEF RouteInv
<1> DEFINE s == Head(mail[m])
           found == {r \in pending : IsFor(m, s, r)}
<1>1. /\ mail[m] # <<>> /\ Take(m) /\ UNCHANGED <<asked, answered, heard>>
      /\ pending' = pending \ found /\ waiting' = waiting \ found
      /\ completed' = completed \cup found
  BY DEF Handle
<1>2. Managers \subseteq Boxes
  BY DEF Managers, Boxes
<1>3. /\ mail' \in [Boxes -> Seq(Letter)]
      /\ s \in In(m)
      /\ In(m) \subseteq In(m)' \cup {s}
      /\ \A b \in Boxes : In(b)' \subseteq In(b) /\ (b # m => In(b)' = In(b))
  <2>1. mail \in [Boxes -> Seq(Letter)]
    BY DEF Posted
  <2> QED
    BY <1>1, <1>2, <2>1, Taking
<1>4. Fits(m, s)
  BY <1>3 DEF Addressed
<1>5. found \subseteq pending /\ \A r \in pending : r \in found <=> IsFor(m, s, r)
  OBVIOUS
<1> HIDE DEF s, found
<1>6. \A q, r : SameKey(q, r)' <=> SameKey(q, r)
  BY <1>1 DEF SameKey
<1>7. Numbered'
  <2>1. waiting' \subseteq waiting /\ pending' \subseteq pending /\ pending' \subseteq waiting'
    BY <1>1 DEF Numbered
  <2>2. completed' \subseteq 1 .. Len(asked) /\ completed' \cap waiting' = {}
    BY <1>1, <1>5 DEF Numbered
  <2> QED
    BY <1>1, <1>6, <2>1, <2>2 DEF Numbered
<1>8. Posted' /\ Addressed'
  BY <1>1, <1>2, <1>3 DEF Posted, Addressed, Fits
<1>9. ASSUME NEW r \in found
      PROVE  IF asked[r] \in FlytoMethods THEN r \in answered ELSE asked[r] \in heard
  <2>1. r \in 1 .. Len(asked) /\ asked[r] \in Methods /\ IsFor(m, s, r) /\ r # NoTid
    BY <1>5, RequestFacts DEF Numbered
  <2>2. Owner(asked[r]) = m
    BY <2>1 DEF IsFor
  <2>3. CASE asked[r] \in FlytoMethods
    <3>1. m = "FLYTO"
      BY <2>2, <2>3, MethodFacts
    <3>2. s.id = "FLYTO_RESULT_DATA_IND" /\ s.msg.tid = r
      BY <1>4, <2>1, <3>1 DEF IsFor, Fits
    <3> QED
      BY <1>4, <2>1, <2>3, <3>2 DEF Fits
  <2>4. CASE asked[r] \notin FlytoMethods
    <3>1. m = "PAYLOAD"
      BY <2>1, <2>2, <2>4, MethodFacts
    <3>2. s.id = "PAYLOAD_RESULT_DATA_IND" /\ s.msg.method = asked[r]
      BY <1>4, <2>1, <3>1 DEF IsFor, Fits
    <3> QED
      BY <1>4, <2>4, <3>2 DEF Fits
  <2> QED
    BY <2>3, <2>4
<1>10. Replied'
  BY <1>1, <1>9 DEF Replied
<1>11. ASSUME NEW r \in pending', r \in answered
      PROVE  \E t \in In(Owner(asked[r]))' : IsFor(Owner(asked[r]), t, r)
  <2>1. r \in pending /\ r \notin found /\ Owner(asked[r]) \in Boxes
    BY <1>1, <1>2, RequestFacts DEF Numbered
  <2>2. PICK t \in In(Owner(asked[r])) : IsFor(Owner(asked[r]), t, r)
    BY <1>11, <2>1 DEF OnItsWay
  <2>3. ~(Owner(asked[r]) = m /\ t = s)
    BY <1>5, <2>1, <2>2
  <2>4. t \in In(Owner(asked[r]))'
    <3>1. Owner(asked'[r]) = Owner(asked[r])
      BY <1>1
    <3>2. \A b \in Boxes : t \in In(b) /\ ~(b = m /\ t = s) => t \in In(b)'
      BY <1>3
    <3> QED
      BY <2>1, <2>2, <2>3, <3>1, <3>2
  <2> QED
    BY <2>2, <2>4
<1>12. OnItsWay'
  BY <1>1, <1>11 DEF OnItsWay, IsFor
<1>13. Displaced'
  BY <1>1, <1>6 DEF Displaced
<1> QED
  BY <1>7, <1>8, <1>10, <1>12, <1>13

\* A reply is neither for TRACK nor for DEVICE.
LEMMA OtherKeepsRoute ==
  ASSUME RouteInv, Track \/ ParseRcOsd \/ (\E i \in 1 .. DEVICE_THREAD_COUNT : StoreDrcState(i))
                   \/ UNCHANGED routingVars
  PROVE  RouteInv'
<1> USE DEF RouteInv
<1>1. UNCHANGED requestVars
  BY DEF Track, ParseRcOsd, StoreDrcState, routingVars
<1>2. mail \in [Boxes -> Seq(Letter)] /\ "TRACK" \in Boxes \ Managers /\ "DEVICE" \in Boxes \ Managers
      /\ Managers \subseteq Boxes
  BY DEF Posted, Boxes, Managers
<1>3. mail' \in [Boxes -> Seq(Letter)] /\ \A m \in Managers : In(m)' = In(m)
  <2>1. CASE Track
    <3>1. mail["TRACK"] # <<>> /\ Take("TRACK")
      BY <2>1 DEF Track
    <3> QED
      BY <1>2, <3>1, Taking
  <2>2. CASE ParseRcOsd
    <3>1. mail["DEVICE"] # <<>> /\ Take("DEVICE")
      BY <2>2 DEF ParseRcOsd
    <3> QED
      BY <1>2, <3>1, Taking
  <2>3. CASE mail' = mail
    BY <1>2, <2>3, SameMail
  <2>4. Track \/ ParseRcOsd \/ mail' = mail
    BY DEF StoreDrcState, routingVars
  <2> QED
    BY <2>1, <2>2, <2>3, <2>4
<1> QED
  BY <1>1, <1>3, PlainKeepsRoute

\* Every step keeps what the routing relies on.
LEMMA RouteInvariant == RoutingSpec => []RouteInv
<1>1. RoutingInit => RouteInv
  <2> SUFFICES ASSUME RoutingInit PROVE RouteInv
    OBVIOUS
  <2>1. /\ asked = <<>> /\ asked \in Seq(Methods) /\ Len(asked) = 0
        /\ waiting = {} /\ pending = {} /\ answered = {} /\ heard = {} /\ completed = {}
    BY EmptySeq DEF RoutingInit
  <2>2. mail \in [Boxes -> Seq(Letter)] /\ \A m \in Boxes : mail[m] = <<>>
    BY DEF RoutingInit, Boxes
  <2>3. \A m \in Managers : In(m) = {}
    BY <2>2 DEF In, Managers, Boxes
  <2>4. MaxAsked \in Nat
    BY RoutingAssumption
  <2>5. Numbered
    BY <2>1, <2>4 DEF Numbered
  <2> QED
    BY <2>1, <2>2, <2>3, <2>5 DEF RouteInv, Posted, Addressed, OnItsWay, Replied, Displaced
<1>2. RouteInv /\ [RoutingNext]_routingVars => RouteInv'
  <2> SUFFICES ASSUME RouteInv, [RoutingNext]_routingVars PROVE RouteInv'
    OBVIOUS
  <2>1. ASSUME NEW m \in DOMAIN mail, Handle(m) PROVE RouteInv'
    <3>1. m \in Managers
      BY <2>1 DEF Handle, Managers
    <3> QED
      BY <2>1, <3>1, HandleKeepsRoute
  <2> QED
    BY <2>1, AskRoute, GiveUpKeepsRoute, ReplyKeepsRoute, PublishKeepsRoute, OtherKeepsRoute
       DEF RoutingNext
<1> QED
  BY <1>1, <1>2, PTL DEF RoutingSpec

\* onRead, the message tables and the two managers, for any telemetry, any number
\* of requests with equal methods, timeouts and replies to other clients: a
\* request of flyto is completed by its own reply only, one of payload by a reply
\* with its method; no reply to a registered request gets lost on its way; and
\* only an equal method takes a waiting request out of the map.
THEOREM RepliesAreHandled == RoutingSpec => []RepliesFindRequests
<1>1. RouteInv => RepliesFindRequests
  <2> SUFFICES ASSUME RouteInv PROVE RepliesFindRequests
    OBVIOUS
  <2>1. /\ DOMAIN asked = 1 .. Len(asked)
        /\ \A r \in pending : Owner(asked[r]) \in Boxes
    BY RequestFacts DEF RouteInv, Numbered, Managers, Boxes
  <2>2. \A m \in Boxes : DOMAIN mail[m] = 1 .. Len(mail[m])
    BY LenProperties DEF RouteInv, Posted
  <2>3. ASSUME NEW r \in pending \cap answered
        PROVE  \E i \in DOMAIN mail[Owner(asked[r])] :
                 IsFor(Owner(asked[r]), mail[Owner(asked[r])][i], r)
    <3>1. PICK s \in In(Owner(asked[r])) : IsFor(Owner(asked[r]), s, r)
      BY DEF RouteInv, OnItsWay
    <3> QED
      BY <2>1, <2>2, <3>1 DEF In
  <2> QED
    BY <2>1, <2>3 DEF RouteInv, Replied, Displaced, RepliesFindRequests
<1> QED
  BY <1>1, RouteInvariant, PTL

\* What the invariant leaves open of the types: the drc_state values on their way.
StateTypes ==
  /\ arrived \in 0 .. MaxMessages
  /\ parsed \in Seq(DrcStates) /\ Len(parsed) <= DEVICE_THREAD_COUNT
  /\ drcState \in DrcStates \cup {0}

\* The pool of device threads has read at most one drc_state a thread.
LEMMA StateStep ==
  ASSUME RouteInv, StateTypes, [RoutingNext]_routingVars
  PROVE  StateTypes'
<1>1. MaxMessages \in Nat /\ DEVICE_THREAD_COUNT \in Nat
  BY RoutingAssumption
<1>2. ASSUME ParseRcOsd PROVE StateTypes'
  <2>1. mail["DEVICE"] \in Seq(Letter) /\ mail["DEVICE"] # <<>>
    BY <1>2 DEF ParseRcOsd, RouteInv, Posted, Boxes
  <2> DEFINE letter == Head(mail["DEVICE"])
  <2>2. letter \in Letter
    BY <2>1
  <2> DEFINE state == letter.msg.drc_state
  <2>3. state \in DrcStates \cup {NoState}
    BY <2>2 DEF Letter, Messages
  <2>4. /\ Len(parsed) < DEVICE_THREAD_COUNT
        /\ parsed' = IF state = NoState THEN parsed ELSE Append(parsed, state)
        /\ arrived' = arrived /\ drcState' = drcState
    BY <1>2 DEF ParseRcOsd
  <2> HIDE DEF state
  <2>5. parsed' \in Seq(DrcStates) /\ Len(parsed') <= DEVICE_THREAD_COUNT
    BY <1>1, <2>3, <2>4 DEF StateTypes
  <2> QED
    BY <2>4, <2>5 DEF StateTypes
<1>3. ASSUME NEW i, StoreDrcState(i) PROVE StateTypes'
  <2>1. /\ i \in 1 .. Len(parsed) /\ parsed \in Seq(DrcStates)
        /\ parsed' = SubSeq(parsed, 1, i - 1) \o SubSeq(parsed, i + 1, Len(parsed))
        /\ drcState' = parsed[i] /\ arrived' = arrived
    BY <1>3 DEF StoreDrcState, StateTypes
  <2>2. /\ SubSeq(parsed, 1, i - 1) \in Seq(DrcStates) /\ Len(SubSeq(parsed, 1, i - 1)) = i - 1
        /\ SubSeq(parsed, i + 1, Len(parsed)) \in Seq(DrcStates)
        /\ Len(SubSeq(parsed, i + 1, Len(parsed))) = Len(parsed) - i
    BY <2>1
  <2> DEFINE before == SubSeq(parsed, 1, i - 1)
             after  == SubSeq(parsed, i + 1, Len(parsed))
  <2>3. parsed' = before \o after
    BY <2>1
  <2>4. before \in Seq(DrcStates) /\ after \in Seq(DrcStates)
        /\ Len(before) = i - 1 /\ Len(after) = Len(parsed) - i
    BY <2>2
  <2> HIDE DEF before, after
  <2>5. parsed' \in Seq(DrcStates) /\ Len(parsed') = Len(before) + Len(after)
    BY <2>3, <2>4, ConcatProperties
  <2>6. parsed[i] \in DrcStates /\ i \in Nat /\ Len(parsed) \in Nat
    BY <2>1
  <2>7. Len(parsed') <= Len(parsed)
    BY <2>4, <2>5, <2>6
  <2>8. Len(parsed) <= DEVICE_THREAD_COUNT /\ Len(parsed') \in Nat
    BY <2>5 DEF StateTypes
  <2>9. Len(parsed') <= DEVICE_THREAD_COUNT
    BY <1>1, <2>6, <2>7, <2>8
  <2> QED
    BY <2>1, <2>5, <2>6, <2>9 DEF StateTypes
<1>4. ASSUME NEW topic, Publish(topic) \/ ForeignReply(topic) PROVE StateTypes'
  <2>1. arrived < MaxMessages /\ arrived' = arrived + 1 /\ UNCHANGED <<parsed, drcState>>
    BY <1>4 DEF Publish, ForeignReply
  <2>2. arrived' \in 0 .. MaxMessages
    BY <1>1, <2>1 DEF StateTypes
  <2> QED
    BY <2>1, <2>2 DEF StateTypes
<1>5. ASSUME UNCHANGED <<arrived, parsed, drcState>> PROVE StateTypes'
  BY <1>5 DEF StateTypes
<1> QED
  BY <1>2, <1>3, <1>4, <1>5 DEF RoutingNext, Ask, GiveUp, Reply, Handle, Track, routingVars

\* Types of the routing: the managers hold requests that wait, one a key, and the
\* device threads at most one drc_state each.
THEOREM RoutingTypeCorrect == RoutingSpec => []RoutingTypeOK
<1>1. RoutingInit => StateTypes
  BY RoutingAssumption DEF RoutingInit, StateTypes
<1>2. RouteInv /\ StateTypes => RoutingTypeOK
  <2> SUFFICES ASSUME RouteInv, StateTypes PROVE RoutingTypeOK
    OBVIOUS
  <2>1. DOMAIN asked = 1 .. Len(asked)
    BY LenProperties DEF RouteInv, Numbered
  <2> QED
    BY <2>1 DEF RouteInv, Posted, Numbered, StateTypes, RoutingTypeOK, Boxes
<1>3. RouteInv /\ StateTypes /\ [RoutingNext]_routingVars => StateTypes'
  BY StateStep
<1> QED
  BY <1>1, <1>2, <1>3, RouteInvariant, PTL DEF RoutingSpec

-----------------------------------------------------------------------------
(* The obstacle map.                                                       *)

\* The requests are in whole metres, and the constants have their types.
LEMMA MapFacts ==
  /\ block_size \in Nat \ {0} /\ dis_xy \in Nat \ {0} /\ dis_z \in Nat
  /\ Lengths \subseteq Nat /\ Altitudes \subseteq Int
BY MapAssumption

\* The areas of the file that was read.
Area == [blocks : SUBSET Blocks, height_limit : Int]

LEMMA FileFacts ==
  ASSUME map \in MapFiles
  PROVE  /\ map.areas \in Seq(Area) /\ Len(map.areas) \in Nat
         /\ DOMAIN map.areas = 1 .. Len(map.areas)
         /\ \A k \in 1 .. Len(map.areas) : map.areas[k].blocks \subseteq Blocks
<1>1. map.areas \in Seq(Area)
  BY MapAssumption DEF Area
<1>2. Len(map.areas) \in Nat /\ DOMAIN map.areas = 1 .. Len(map.areas)
  BY <1>1, LenProperties
<1>3. ASSUME NEW k \in 1 .. Len(map.areas)
      PROVE  map.areas[k].blocks \subseteq Blocks
  <2>1. map.areas[k] \in Area
    BY <1>1, ElementOfSeq
  <2> QED
    BY <2>1 DEF Area
<1> QED
  BY <1>1, <1>2, <1>3

\* A block is left with an area it lies in, and if no block lies in two, with
\* every area it lies in.
InItsArea ==
  \A b \in Blocks : resdiction[b] # 0 => b \in map.areas[resdiction[b]].blocks

OneArea ==
  Disjoint => \A k \in 1 .. applied : \A b \in map.areas[k].blocks : resdiction[b] = k

ReadWhole == stage # "load" => map.errors \/ applied = Len(map.areas)

Requested ==
  /\ request.x \in Int /\ request.y \in Int /\ request.z \in Int
  /\ request.angle \in Angles /\ request.length \in Nat

\* No block near the first part of the line is too high or unknown.
Clear(reach) == \A b \in Corridor(reach) : ~Occupied(b, request.z)

\* The steps of the check leave nothing out.
StepsTell ==
  /\ stage = "line" => curLen = FirstLen(request.length)
                       \/ (curLen > FirstLen(request.length) /\ Clear(curLen))
  /\ stage = "done" /\ safe_dis > 0 => Clear(safe_dis)
  /\ stage = "done" /\ ret = "over" => safe_dis >= request.length

AreaInv == InItsArea /\ OneArea /\ ReadWhole
LineInv == Requested /\ StepsTell
MapInv  == MapTypeOK /\ AreaInv /\ LineInv

\* Division is monotone, and the cast towards zero is too.
LEMMA DivisionMonotone ==
  ASSUME NEW a \in Nat, NEW b \in Nat, a <= b, NEW d \in Nat \ {0}
  PROVE  a \div d \in Nat /\ b \div d \in Nat /\ a \div d <= b \div d
<1> DEFINE q == a \div d
           r == b \div d
<1>1. q \in Nat /\ r \in Nat /\ d * q <= a /\ b < d * r + d
  OBVIOUS
<1> HIDE DEF q, r
<1>2. ASSUME q > r PROVE FALSE
  <2>1. q >= r + 1
    BY <1>1, <1>2
  <2>2. PICK k \in Nat : q = (r + 1) + k
    <3>1. q - (r + 1) \in Nat /\ q = (r + 1) + (q - (r + 1))
      BY <1>1, <2>1
    <3> QED
      BY <3>1
  <2>3. d * q = d * r + d + d * k /\ d * k >= 0
    BY <1>1, <2>2
  <2>4. d * q \in Nat /\ d * r \in Nat /\ d * k \in Nat
    BY <1>1, <2>2
  <2> QED
    BY <1>1, <2>3, <2>4
<1> QED
  BY <1>1, <1>2 DEF q, r

LEMMA CastMonotone ==
  ASSUME NEW m \in Int, NEW p \in Nat, NEW n \in Int, m <= p, p <= n
  PROVE  /\ Quotient(m, block_size) <= p \div block_size
         /\ p \div block_size <= Quotient(n, block_size)
         /\ p \div block_size \in Nat
         /\ Quotient(m, block_size) \in Int /\ Quotient(n, block_size) \in Int
<1>1. block_size \in Nat \ {0}
  BY MapFacts
<1>2. n \in Nat /\ p \div block_size <= n \div block_size /\ p \div block_size \in Nat
      /\ n \div block_size \in Nat
  <2>1. n \in Nat
    OBVIOUS
  <2> QED
    BY <1>1, <2>1, DivisionMonotone
<1>3. Quotient(n, block_size) = n \div block_size
  BY <1>2 DEF Quotient
<1>4. Quotient(m, block_size) \in Int /\ Quotient(m, block_size) <= p \div block_size
  <2>1. CASE m >= 0
    <3>1. m \in Nat
      BY <2>1
    <3>2. m \div block_size <= p \div block_size /\ m \div block_size \in Nat
      BY <1>1, <3>1, DivisionMonotone
    <3> QED
      BY <1>2, <2>1, <3>2 DEF Quotient
  <2>2. CASE ~(m >= 0)
    <3>1. -m \in Nat
      BY <2>2
    <3>2. (-m) \div block_size \in Nat
      BY <1>1, <3>1, DivisionMonotone
    <3>3. Quotient(m, block_size) = -((-m) \div block_size)
      BY <2>2 DEF Quotient
    <3> QED
      BY <1>2, <3>2, <3>3
  <2> QED
    BY <2>1, <2>2
<1> QED
  BY <1>2, <1>3, <1>4

\* The directions are those of the axes.
LEMMA Axes ==
  ASSUME NEW angle \in Angles
  PROVE  <<Cos(angle), Sin(angle)>> \in {<<1, 0>>, <<0, 1>>, <<-1, 0>>, <<0, -1>>}
<1>1. CASE angle = 0
  BY <1>1 DEF Cos, Sin
<1>2. CASE angle = 90
  BY <1>2 DEF Cos, Sin
<1>3. CASE angle = 180
  BY <1>3 DEF Cos, Sin
<1>4. CASE angle = 270
  BY <1>4 DEF Cos, Sin
<1> QED
  BY <1>1, <1>2, <1>3, <1>4 DEF Angles

\* A position near a point is in a block around it.
LEMMA NearIsAround ==
  ASSUME NEW v \in Int, NEW w \in v - dis_xy .. v + dis_xy, w >= 0
  PROVE  LowestOf(v) <= w \div block_size /\ w \div block_size <= HighestOf(v)
<1>1. dis_xy \in Nat
  BY MapFacts
<1>2. w \in Nat /\ v - dis_xy \in Int /\ v + dis_xy \in Int /\ v - dis_xy <= w /\ w <= v + dis_xy
  BY <1>1
<1> QED
  BY <1>2, CastMonotone DEF LowestOf, HighestOf

\* One step further along an axis: what the flight covers there is near the
\* point of the step or was covered before.
LEMMA OneStep ==
  ASSUME NEW from \in Int, NEW t \in {-1, 0, 1}, NEW p \in Nat,
         NEW w \in Swept(from, t, p + dis_xy)
  PROVE  \/ w \in (from + p * t) - dis_xy .. (from + p * t) + dis_xy
         \/ p > dis_xy /\ t # 0 /\ w \in Swept(from, t, p)
<1>1. dis_xy \in Nat
  BY MapFacts
<1>2. CASE t = 0
  <2>1. w \in from - dis_xy .. from + dis_xy /\ from + p * t = from
    BY <1>2 DEF Swept
  <2> QED
    BY <2>1
<1>3. CASE t = 1
  <2>1. PICK d \in 0 .. p + dis_xy : w = from + d
    BY <1>3 DEF Swept
  <2>2. from + p * t = from + p
    BY <1>3
  <2>3. CASE d <= p /\ p > dis_xy
    BY <1>3, <2>1, <2>3 DEF Swept
  <2>4. CASE ~(d <= p /\ p > dis_xy)
    <3>1. w \in (from + p) - dis_xy .. (from + p) + dis_xy
      BY <1>1, <2>1, <2>4
    <3> QED
      BY <2>2, <3>1
  <2> QED
    BY <2>3, <2>4
<1>4. CASE t = -1
  <2>1. PICK d \in 0 .. p + dis_xy : w = from - d
    <3>1. PICK d \in 0 .. p + dis_xy : w = from + d * t
      BY <1>4 DEF Swept
    <3>2. d * t = -d
      BY <1>4
    <3> QED
      BY <3>1, <3>2
  <2>2. from + p * t = from - p
    BY <1>4
  <2>3. CASE d <= p /\ p > dis_xy
    <3>1. from + d * t = from - d /\ d \in 0 .. p
      BY <1>4, <2>3
    <3>2. w \in Swept(from, t, p)
      BY <1>4, <2>1, <3>1 DEF Swept
    <3> QED
      BY <1>4, <2>3, <3>2
  <2>4. CASE ~(d <= p /\ p > dis_xy)
    <3>1. w \in (from - p) - dis_xy .. (from - p) + dis_xy
      BY <1>1, <2>1, <2>4
    <3> QED
      BY <2>2, <3>1
  <2> QED
    BY <2>3, <2>4
<1> QED
  BY <1>2, <1>3, <1>4

\* A block of the corridor is around the point of the last step or was in the
\* corridor before.
LEMMA StepCovers ==
  ASSUME Requested, NEW p \in Nat, NEW b \in Corridor(p + dis_xy)
  PROVE  \/ b \in Around(request.x + p * Cos(request.angle), request.y + p * Sin(request.angle))
         \/ p > dis_xy /\ b \in Corridor(p)
<1> DEFINE c == Cos(request.angle)
           s == Sin(request.angle)
           vx == request.x + p * c
           vy == request.y + p * s
<1>1. /\ c \in {-1, 0, 1} /\ s \in {-1, 0, 1} /\ (c = 0 \/ s = 0)
      /\ request.x \in Int /\ request.y \in Int
  BY Axes DEF Requested
<1>2. PICK wx \in Swept(request.x, c, p + dis_xy) : wx >= 0 /\ wx \div block_size = b[1]
  BY DEF Corridor, Meets
<1>3. PICK wy \in Swept(request.y, s, p + dis_xy) : wy >= 0 /\ wy \div block_size = b[2]
  BY DEF Corridor, Meets
<1>b. b \in Blocks
  BY DEF Corridor
<1> HIDE DEF c, s
<1>4. vx \in Int /\ vy \in Int
  BY <1>1
<1>5. \/ wx \in vx - dis_xy .. vx + dis_xy
      \/ p > dis_xy /\ c # 0 /\ wx \in Swept(request.x, c, p)
  BY <1>1, OneStep
<1>6. \/ wy \in vy - dis_xy .. vy + dis_xy
      \/ p > dis_xy /\ s # 0 /\ wy \in Swept(request.y, s, p)
  BY <1>1, OneStep
<1> HIDE DEF vx, vy
<1>7. CASE wx \in vx - dis_xy .. vx + dis_xy /\ wy \in vy - dis_xy .. vy + dis_xy
  <2>1. LowestOf(vx) <= b[1] /\ b[1] <= HighestOf(vx)
    BY <1>2, <1>4, <1>7, NearIsAround
  <2>2. LowestOf(vy) <= b[2] /\ b[2] <= HighestOf(vy)
    BY <1>3, <1>4, <1>7, NearIsAround
  <2>3. b \in Around(vx, vy)
    BY <1>b, <2>1, <2>2 DEF Around
  <2> QED
    BY <2>3 DEF vx, vy, c, s
<1>8. CASE p > dis_xy /\ c # 0 /\ wx \in Swept(request.x, c, p)
  <2>1. s = 0
    BY <1>1, <1>8
  <2>2. wy \in Swept(request.y, s, p)
    BY <2>1 DEF Swept
  <2>3. b \in Corridor(p)
    BY <1>b, <1>2, <1>3, <1>8, <2>2 DEF Corridor, Meets, c, s
  <2> QED
    BY <1>8, <2>3
<1>9. CASE p > dis_xy /\ s # 0 /\ wy \in Swept(request.y, s, p)
  <2>1. c = 0
    BY <1>1, <1>9
  <2>2. wx \in Swept(request.x, c, p)
    BY <2>1 DEF Swept
  <2>3. b \in Corridor(p)
    BY <1>b, <1>2, <1>3, <1>9, <2>2 DEF Corridor, Meets, c, s
  <2> QED
    BY <1>9, <2>3
<1> QED
  BY <1>5, <1>6, <1>7, <1>8, <1>9

\* A longer part of the line takes in a shorter one.
LEMMA CorridorGrows ==
  ASSUME NEW m \in Nat, NEW n \in Nat, m <= n
  PROVE  Corridor(m) \subseteq Corridor(n)
<1>1. \A d \in 0 .. m : d \in 0 .. n
  OBVIOUS
<1>2. \A from, t : \A w \in Swept(from, t, m) : w \in Swept(from, t, n)
  BY <1>1 DEF Swept
<1>3. \A from, t, i : Meets(Swept(from, t, m), i) => Meets(Swept(from, t, n), i)
  BY <1>2 DEF Meets
<1> QED
  BY <1>3 DEF Corridor

\* The length the check begins with.
LEMMA FirstStep ==
  ASSUME NEW length \in Nat
  PROVE  FirstLen(length) \in Nat /\ FirstLen(length) <= length /\ FirstLen(length) <= dis_xy
BY MapFacts DEF FirstLen

\* What the check looks at is the same before and after a step that leaves map,
\* areas and request alone.
MapSame == UNCHANGED <<map, resdiction, applied, request>>

LEMMA SameCorridor ==
  ASSUME MapSame
  PROVE  /\ \A n : Corridor(n)' = Corridor(n)
         /\ \A b, z : Occupied(b, z)' = Occupied(b, z)
         /\ \A n : Clear(n)' = Clear(n)
         /\ Requested' = Requested /\ Disjoint' = Disjoint
         /\ InItsArea' = InItsArea /\ OneArea' = OneArea
BY DEF MapSame, Corridor, Meets, Swept, Occupied, Limits, Clear, Requested, Disjoint, InItsArea, OneArea

LEMMA MapTypesStep == MapTypeOK /\ Requested /\ [MapNext]_mapVars => MapTypeOK'
<1> SUFFICES ASSUME MapTypeOK, Requested, [MapNext]_mapVars PROVE MapTypeOK'
  OBVIOUS
<1>0. map \in MapFiles /\ dis_xy \in Nat /\ curLen \in Nat /\ safe_dis \in Nat
  BY MapFacts DEF MapTypeOK
<1>1. CASE SetArea
  <2>1. /\ applied \in Nat /\ applied < Len(map.areas) /\ Len(map.areas) \in Nat
        /\ resdiction \in [Blocks -> 0 .. applied]
    BY <1>0, <1>1, FileFacts DEF MapTypeOK, SetArea
  <2>2. \A b \in Blocks : resdiction[b] \in 0 .. applied + 1 /\ applied + 1 \in 0 .. applied + 1
    BY <2>1
  <2>3. /\ applied' = applied + 1 /\ map' = map
        /\ resdiction' = [b \in Blocks |->
             IF b \in map.areas[applied + 1].blocks /\ TakesPlace(applied + 1, resdiction[b])
             THEN applied + 1 ELSE resdiction[b]]
    BY <1>1 DEF SetArea
  <2>4. resdiction' \in [Blocks -> 0 .. applied']
    BY <2>2, <2>3
  <2>5. applied' \in 0 .. Len(map'.areas)
    BY <2>1, <2>3
  <2>6. UNCHANGED <<stage, map, request, curLen, ret, safe_dis>>
    BY <1>1 DEF SetArea
  <2> QED
    BY <2>4, <2>5, <2>6 DEF MapTypeOK
<1>2. CASE GetMapInfo
  BY <1>2 DEF MapTypeOK, GetMapInfo
<1>3. ASSUME NEW p \in Starts, NEW z \in Altitudes, NEW angle \in Angles, NEW length \in Lengths,
             AskLine(p[1], p[2], z, angle, length)
      PROVE  MapTypeOK'
  <2>1. FirstLen(length) \in Nat
    BY MapFacts, FirstStep
  <2> QED
    BY <1>3, <2>1 DEF MapTypeOK, AskLine
<1>4. CASE GoOn
  <2>1. curLen' \in Nat /\ UNCHANGED <<stage, map, resdiction, applied, ret, safe_dis>>
    BY <1>0, <1>4 DEF GoOn
  <2> QED
    BY <2>1 DEF MapTypeOK
<1>5. CASE Stop
  <2>1. safe_dis' \in Nat /\ UNCHANGED <<map, resdiction, applied, curLen>> /\ stage' = "done"
    BY <1>0, <1>5 DEF Stop
  <2>2. ret' \in {"error", "block", "over"}
    BY <1>5 DEF Stop, Here, CheckBlockAround
  <2> QED
    BY <2>1, <2>2 DEF MapTypeOK
<1>6. CASE Over
  BY <1>6 DEF MapTypeOK, Over
<1>7. CASE UNCHANGED mapVars
  BY <1>7 DEF MapTypeOK, mapVars
<1> QED
  BY <1>1, <1>2, <1>3, <1>4, <1>5, <1>6, <1>7 DEF MapNext

LEMMA AreasStep == MapTypeOK /\ AreaInv /\ [MapNext]_mapVars => AreaInv'
<1> SUFFICES ASSUME MapTypeOK, AreaInv, [MapNext]_mapVars PROVE AreaInv'
  OBVIOUS
<1>1. CASE SetArea
  <2> DEFINE n == applied + 1
  <2>1. /\ applied \in Nat /\ n \in 1 .. Len(map.areas) /\ Len(map.areas) \in Nat
        /\ DOMAIN map.areas = 1 .. Len(map.areas)
        /\ resdiction \in [Blocks -> 0 .. applied] /\ applied < n
        /\ \A k \in 1 .. Len(map.areas) : map.areas[k].blocks \subseteq Blocks
    BY <1>1, FileFacts DEF MapTypeOK, SetArea
  <2>2. /\ applied' = n /\ map' = map /\ stage = "load" /\ stage' = "load"
        /\ resdiction' = [b \in Blocks |->
             IF b \in map.areas[n].blocks /\ TakesPlace(n, resdiction[b]) THEN n ELSE resdiction[b]]
    BY <1>1 DEF SetArea
  <2> HIDE DEF n
  <2>3. \A b \in Blocks : resdiction'[b] =
          IF b \in map.areas[n].blocks /\ TakesPlace(n, resdiction[b]) THEN n ELSE resdiction[b]
    BY <2>2
  <2>4. InItsArea'
    <3> SUFFICES ASSUME NEW b \in Blocks, resdiction'[b] # 0
                 PROVE  b \in map.areas[resdiction'[b]].blocks
      BY <2>2 DEF InItsArea
    <3> QED
      BY <2>3 DEF AreaInv, InItsArea
  <2>5. OneArea'
    <3> SUFFICES ASSUME Disjoint, NEW k \in 1 .. n, NEW b \in map.areas[k].blocks
                 PROVE  resdiction'[b] = k
      BY <2>2 DEF OneArea, Disjoint
    <3>1. k \in DOMAIN map.areas /\ n \in DOMAIN map.areas /\ b \in Blocks
      BY <2>1
    <3>2. CASE k = n
      <4>1. resdiction[b] = 0
        <5>1. resdiction[b] \in 0 .. applied
          BY <2>1, <3>1
        <5>2. ASSUME resdiction[b] # 0 PROVE FALSE
          <6>1. b \in map.areas[resdiction[b]].blocks
            BY <3>1, <5>2 DEF AreaInv, InItsArea
          <6>2. resdiction[b] \in DOMAIN map.areas /\ resdiction[b] # n
            BY <2>1, <5>1, <5>2
          <6> QED
            BY <3>1, <3>2, <6>1, <6>2 DEF Disjoint
        <5> QED
          BY <5>2
      <4>2. TakesPlace(n, resdiction[b])
        BY <4>1 DEF TakesPlace
      <4> QED
        BY <2>3, <3>1, <3>2, <4>2
    <3>3. CASE k # n
      <4>1. k \in 1 .. applied
        BY <2>1, <3>3 DEF n
      <4>2. resdiction[b] = k
        BY <4>1 DEF AreaInv, OneArea
      <4>3. b \notin map.areas[n].blocks
        BY <3>1, <3>3 DEF Disjoint
      <4> QED
        BY <2>3, <3>1, <4>2, <4>3
    <3> QED
      BY <3>2, <3>3
  <2> QED
    BY <2>2, <2>4, <2>5 DEF AreaInv, ReadWhole
<1>2. CASE GetMapInfo
  BY <1>2, SameCorridor DEF AreaInv, GetMapInfo, MapSame, ReadWhole, InItsArea, OneArea, Disjoint
<1>3. CASE UNCHANGED <<map, resdiction, applied>> /\ stage # "load"
  BY <1>3 DEF AreaInv, ReadWhole, InItsArea, OneArea, Disjoint
<1>4. CASE UNCHANGED mapVars
  BY <1>4 DEF AreaInv, ReadWhole, InItsArea, OneArea, Disjoint, mapVars
<1> QED
  BY <1>1, <1>2, <1>3, <1>4 DEF MapNext, AskLine, GoOn, Stop, Over

LEMMA LineStep == MapTypeOK /\ LineInv /\ [MapNext]_mapVars => LineInv'
<1> SUFFICES ASSUME MapTypeOK, LineInv, [MapNext]_mapVars PROVE LineInv'
  OBVIOUS
<1>0. /\ dis_xy \in Nat \ {0} /\ curLen \in Nat /\ safe_dis \in Nat
      /\ Requested /\ request.length \in Nat
      /\ FirstLen(request.length) \in Nat /\ FirstLen(request.length) <= request.length
      /\ FirstLen(request.length) <= dis_xy
  BY MapFacts, FirstStep DEF MapTypeOK, LineInv, Requested
<1>1. CASE SetArea \/ GetMapInfo
  <2>1. UNCHANGED request /\ stage' \in {"load", "ready"}
    BY <1>1 DEF SetArea, GetMapInfo
  <2> QED
    BY <2>1 DEF LineInv, Requested, StepsTell
<1>2. ASSUME NEW p \in Starts, NEW z \in Altitudes, NEW angle \in Angles, NEW length \in Lengths,
             AskLine(p[1], p[2], z, angle, length)
      PROVE  LineInv'
  <2>1. p[1] \in Int /\ p[2] \in Int /\ z \in Int /\ length \in Nat
    BY MapAssumption
  <2>2. /\ request' = [x |-> p[1], y |-> p[2], z |-> z, angle |-> angle, length |-> length]
        /\ curLen' = FirstLen(length) /\ stage' = "line"
    BY <1>2 DEF AskLine
  <2>3. Requested'
    BY <2>1, <2>2 DEF Requested
  <2>4. StepsTell'
    BY <2>2 DEF StepsTell, FirstLen
  <2> QED
    BY <2>3, <2>4 DEF LineInv
<1>3. CASE GoOn
  <2>1. /\ stage = "line" /\ curLen <= request.length /\ Here = "over"
        /\ curLen' = curLen + dis_xy /\ MapSame /\ stage' = "line"
    BY <1>3 DEF GoOn, MapSame
  <2>2. Requested'
    BY <1>0, <2>1, SameCorridor
  <2>3. \A b \in Around(request.x + curLen * Cos(request.angle),
                        request.y + curLen * Sin(request.angle)) : ~Occupied(b, request.z)
    BY <2>1 DEF Here, CheckBlockAround
  <2>4. Clear(curLen + dis_xy)
    <3> SUFFICES ASSUME NEW b \in Corridor(curLen + dis_xy)
                 PROVE  ~Occupied(b, request.z)
      BY DEF Clear
    <3>1. CASE b \in Around(request.x + curLen * Cos(request.angle),
                            request.y + curLen * Sin(request.angle))
      BY <2>3, <3>1
    <3>2. CASE curLen > dis_xy /\ b \in Corridor(curLen)
      <4>1. curLen > FirstLen(request.length)
        BY <1>0, <3>2
      <4>2. Clear(curLen)
        BY <1>0, <2>1, <4>1 DEF LineInv, StepsTell
      <4> QED
        BY <3>2, <4>2 DEF Clear
    <3> QED
      BY <1>0, <3>1, <3>2, StepCovers
  <2>5. Clear(curLen')
    BY <2>1, <2>4
  <2>6. curLen' > FirstLen(request.length)
    BY <1>0, <2>1 DEF LineInv, StepsTell
  <2>7. FirstLen(request.length)' = FirstLen(request.length)
    BY <2>1 DEF MapSame, FirstLen
  <2>8. StepsTell'
    BY <2>1, <2>5, <2>6, <2>7, SameCorridor DEF StepsTell
  <2> QED
    BY <2>2, <2>8 DEF LineInv
<1>4. CASE Stop
  <2>1. /\ stage = "line" /\ MapSame /\ stage' = "done" /\ ret' = Here /\ Here # "over"
        /\ safe_dis' = IF curLen < dis_xy THEN 0 ELSE curLen - dis_xy
    BY <1>4 DEF Stop, MapSame
  <2>2. Requested'
    BY <1>0, <2>1, SameCorridor
  <2>3. ASSUME safe_dis' > 0 PROVE Clear(safe_dis')
    <3>1. curLen > dis_xy /\ safe_dis' = curLen - dis_xy /\ safe_dis' \in Nat /\ safe_dis' <= curLen
      BY <1>0, <2>1, <2>3
    <3>2. curLen # FirstLen(request.length)
      BY <1>0, <3>1
    <3>3. Clear(curLen)
      BY <2>1, <3>2 DEF LineInv, StepsTell
    <3> QED
      BY <1>0, <3>1, <3>3, CorridorGrows DEF Clear
  <2>4. StepsTell'
    BY <2>1, <2>3, SameCorridor DEF StepsTell
  <2> QED
    BY <2>2, <2>4 DEF LineInv
<1>5. CASE Over
  <2>1. /\ stage = "line" /\ MapSame /\ stage' = "done" /\ curLen > request.length
        /\ safe_dis' = curLen
    BY <1>5 DEF Over, MapSame
  <2>2. Requested'
    BY <1>0, <2>1, SameCorridor
  <2>3. curLen # FirstLen(request.length)
    BY <1>0, <2>1
  <2>4. Clear(curLen)
    BY <2>1, <2>3 DEF LineInv, StepsTell
  <2>5. safe_dis' >= request'.length
    BY <1>0, <2>1 DEF MapSame
  <2>6. StepsTell'
    BY <2>1, <2>4, <2>5, SameCorridor DEF StepsTell
  <2> QED
    BY <2>2, <2>6 DEF LineInv
<1>6. CASE UNCHANGED mapVars
  <2>1. MapSame /\ UNCHANGED <<stage, curLen, ret, safe_dis>>
    BY <1>6 DEF mapVars, MapSame
  <2>2. Requested'
    BY <1>0, <2>1, SameCorridor
  <2>3. StepsTell'
    BY <2>1, SameCorridor DEF LineInv, StepsTell, FirstLen, MapSame
  <2> QED
    BY <2>2, <2>3 DEF LineInv
<1> QED
  BY <1>1, <1>2, <1>3, <1>4, <1>5, <1>6 DEF MapNext

LEMMA MapStarts == MapInit => MapInv
<1> SUFFICES ASSUME MapInit PROVE MapInv
  OBVIOUS
<1>1. map \in MapFiles /\ Len(map.areas) \in Nat
  BY FileFacts DEF MapInit
<1>2. MapTypeOK
  BY <1>1 DEF MapInit, MapTypeOK
<1>3. AreaInv
  BY DEF MapInit, AreaInv, InItsArea, OneArea, ReadWhole
<1>4. LineInv
  BY DEF MapInit, NoRequest, LineInv, Requested, StepsTell, Angles
<1> QED
  BY <1>2, <1>3, <1>4 DEF MapInv

\* The invariant of the obstacle map.
LEMMA MapInvariant == MapSpec => []MapInv
<1>1. MapInv /\ [MapNext]_mapVars => MapInv'
  BY MapTypesStep, AreasStep, LineStep DEF MapInv, LineInv
<1> QED
  BY <1>1, MapStarts, PTL DEF MapSpec

\* Types of the obstacle map while set_map_block_area assigns the areas and
\* check_block_around_line walks along a line.
THEOREM MapTypeCorrect == MapSpec => []MapTypeOK
BY MapInvariant, PTL DEF MapInv

\* check_block_around_line: the route that is called free, and the part of any
\* other that is called safe, keeps its distance from all that is too high or
\* not known, and from no-fly areas if the areas do not overlap.
THEOREM FreeRoutesAreFree == MapSpec => []SafeIsFree
<1>1. MapInv => SafeIsFree
  <2> SUFFICES ASSUME MapInv, stage = "done"
               PROVE  /\ ret = "over" => safe_dis >= request.length
                      /\ safe_dis > 0 => \A b \in Corridor(safe_dis) :
                           /\ map.zmax[b] # UnknownHeight
                           /\ map.zmax[b] <= request.z - dis_z
                           /\ Disjoint /\ ~map.errors => ~InArea(b, {RESTRICT_NO_FLY})
    BY DEF SafeIsFree
  <2>1. ret = "over" => safe_dis >= request.length
    BY DEF MapInv, LineInv, StepsTell
  <2>2. ASSUME safe_dis > 0, NEW b \in Corridor(safe_dis)
        PROVE  /\ map.zmax[b] # UnknownHeight
               /\ map.zmax[b] <= request.z - dis_z
               /\ Disjoint /\ ~map.errors => ~InArea(b, {RESTRICT_NO_FLY})
    <3>1. ~Occupied(b, request.z)
      BY <2>2 DEF MapInv, LineInv, StepsTell, Clear
    <3>2. map \in MapFiles /\ b \in Blocks /\ map.zmax[b] \in Int /\ request.z \in Int /\ dis_z \in Nat
      BY MapAssumption DEF MapInv, MapTypeOK, LineInv, Requested, Corridor
    <3>3. map.zmax[b] # UnknownHeight /\ ~(map.zmax[b] > request.z - dis_z)
      BY <3>1 DEF Occupied
    <3>4. ASSUME Disjoint, ~map.errors, InArea(b, {RESTRICT_NO_FLY})
          PROVE  FALSE
      <4>1. PICK k \in DOMAIN map.areas :
              b \in map.areas[k].blocks /\ map.areas[k].height_limit = RESTRICT_NO_FLY
        BY <3>4 DEF InArea
      <4>2. k \in 1 .. applied /\ k # 0
        BY <3>2, <3>4, FileFacts DEF MapInv, AreaInv, ReadWhole
      <4>3. resdiction[b] = k
        BY <3>4, <4>1, <4>2 DEF MapInv, AreaInv, OneArea
      <4>4. RESTRICT_NO_FLY \in Limits(b)
        BY <4>1, <4>2, <4>3 DEF Limits
      <4> QED
        BY <3>1, <4>4 DEF Occupied
    <3> QED
      BY <3>2, <3>3, <3>4
  <2> QED
    BY <2>1, <2>2
<1> QED
  BY <1>1, MapInvariant, PTL

-----------------------------------------------------------------------------
(* The composition.                                                        *)

\* Each part of MCShared runs by its own specification.
THEOREM SharedPartsKeepTheirSpecs ==
  SharedSpec => Spec /\ TelemetrySpec /\ RoutingSpec /\ StartupSpec /\ MapSpec
<1>1. SharedInit => Init /\ TelemetryInit /\ RoutingInit /\ StartupInit /\ MapInit
  BY DEF SharedInit
<1>2. [SharedNext]_sharedVars =>
        /\ [Next]_memVars /\ [TelemetryNext]_telemetryVars /\ [RoutingNext]_routingVars
        /\ [StartupNext]_startVars /\ [MapNext]_mapVars
  BY DEF SharedNext, sharedVars, tv, bv, rv, sv
<1> QED
  BY <1>1, <1>2, PTL DEF SharedSpec, Spec, TelemetrySpec, RoutingSpec, StartupSpec, MapSpec

\* The memory pools of the composition are an allocator too.
THEOREM SharedPoolsAllocate == SharedSpec => AllocatorSpec
BY SharedPartsKeepTheirSpecs, PoolsImplementAllocator, PTL

\* Types of the parts, in the composition.
THEOREM SharedTypeCorrect == SharedSpec => []SharedTypeOK
<1>1. SharedTypeOK <=> TypeOK /\ TelemetryTypeOK /\ MapTypeOK /\ RoutingTypeOK /\ StartupTypeOK
  BY DEF SharedTypeOK
<1> QED
  BY <1>1, SharedPartsKeepTheirSpecs, TypeCorrect, TelemetryTypeCorrect, MapTypeCorrect,
     RoutingTypeCorrect, StartupTypeCorrect, PTL
=============================================================================
