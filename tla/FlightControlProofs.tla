-------------------------- MODULE FlightControlProofs --------------------------
(***************************************************************************)
(* FlytoController for any commands, directions, pool size and modes of    *)
(* the aircraft.  Types and the trans_ids of the reports need nothing more;*)
(* what is promised of the stick is proved of every behaviour in which no  *)
(* two commands for the stick are in hand at once, whatever else is        *)
(* handled beside them.  flight_threads shows what two of them do.         *)
(***************************************************************************)
EXTENDS FlightControl, FiniteSetTheorems, SequenceTheorems, TLAPS

(* Types, and why the code's dereferences are safe: a continuous thread has*)
(* parameters, made before it was started.                                 *)
HandlerTypes ==
  /\ pc \in [Handlers -> Places]
  /\ verdict \in [Handlers -> BOOLEAN]
  /\ kind \in [Commands -> Kinds \cup {"unread"}]
  /\ mode \in {"IDLE", "FLYTO_MODE"}
  /\ transId \in Commands \cup {None}

TransTypes ==
  /\ turn \in [Commands -> Nat]
  /\ report \in [of : Commands \cup {None}, transId : Commands \cup {None}]

MoveTypes ==
  /\ params \in Commands \cup {None}
  /\ active \subseteq Commands
  /\ offset \in [Commands -> Commands \cup {None}]
  /\ thread \in Commands \cup {None}
  /\ joined \subseteq Commands
  /\ loop \in [Commands -> LoopPlaces]
  /\ entered \subseteq Commands
  /\ crashed \in BOOLEAN
  /\ \A c \in Commands : pc[c] = "spawn" \/ loop[c] # "none" => params # None

FlightTypes ==
  /\ flyto \in [id : Commands \cup {None}, status : Outcomes \cup {"", "sent", "ok"}]
  /\ inProgress \subseteq Commands
  /\ flown \in Seq(Commands)

AircraftTypes ==
  /\ stick \in Commands \cup {None}
  /\ uavMode \in UavModes
  /\ late \in 0 .. 2

TypeInv == HandlerTypes /\ TransTypes /\ MoveTypes /\ FlightTypes /\ AircraftTypes

Replied == {"status", "result", "finish", "done"}

(* Where a handler of each kind may be, and when it has succeeded.         *)
PlaceOfKind ==
  \A c \in Commands :
    /\ pc[c] \in {"moving"} => kind[c] = "timed"
    /\ pc[c] \in {"update", "previous", "params", "spawn"} => kind[c] = "continuous"
    /\ pc[c] \in {"joinable", "centre"} => kind[c] = "stop"
    /\ pc[c] = "joining" => kind[c] \in {"stop", "continuous"}
    /\ pc[c] \in {"queried", "sending", "waiting"} => kind[c] = "flytoPoint"
    /\ pc[c] # "arriving"
    /\ pc[c] = "new" => kind[c] = "unread"
    /\ verdict[c] => pc[c] \in Replied

(* s_transId is that of the last command accepted, and what is reported    *)
(* belongs to a command that was accepted before it, or to none.           *)
TurnInv ==
  /\ \A c \in Commands :
       /\ pc[c] = "new" => turn[c] = 0
       /\ kind[c] # "unread" => turn[c] > 0
       /\ turn[c] > 0 => transId # None /\ turn[c] <= turn[transId]
  /\ transId # None => turn[transId] > 0
  /\ \A i \in 1 .. Len(flown) : turn[flown[i]] > 0
  /\ \A e \in Events : pc[e] # "new" => turn[e.id] > 0
  /\ report.of # None => pc[report.of] # "new"
  /\ report.transId # None => pc[report.transId] # "new"
  /\ ReportsNameNoEarlier

(* No thread is left behind: one that runs is the one m_continuousMoveThread*)
(* points to, and nobody has joined it.                                    *)
OneThread ==
  /\ ~crashed
  /\ \A t \in Commands :
       /\ loop[t] # "none" => (t = thread \/ t \in joined) /\ pc[t] \in Replied
       /\ t \in joined => loop[t] = "ended"
       /\ t = thread => loop[t] # "none"
  /\ \A c \in Commands :
       /\ pc[c] = "joining" => Joinable
       /\ pc[c] \in {"params", "spawn", "centre"} => ~Joinable

(* A stop that no command came after has no move beside it, and no thread.  *)
StopAlone ==
  \A c, d \in Commands :
    kind[c] = "stop" /\ transId = c /\ pc[c] \in Replied => ~HasStick(d)

StopInv ==
  \A c \in Commands :
    kind[c] = "stop" /\ transId = c /\ pc[c] \in Replied
      => ~Joinable /\ (verdict[c] => stick = None)

(* The stick that is still sent after a takeover was decided on before it. *)
TakeoverInv ==
  /\ TakeoverRespected
  /\ ManualControl => late = 0
  /\ \A t \in Commands : loop[t] = "send" /\ TakenOver(t) => late = 0

MoveInv == OneThread /\ StopAlone /\ StopInv /\ TakeoverInv

(* Where the handlers are, their kinds and verdicts.                      *)
LEMMA HandlerTypesKept ==
  ASSUME HandlerTypes, [Next]_vars
  PROVE  HandlerTypes'
<1> USE FlightAssumption DEF HandlerTypes, Handlers, Places, Goto, commandVars, transVars
<1>1. ASSUME NEW c \in Commands,
             Accept(c) \/ Undecodable(c) \/ Start(c) \/ RequestReturns(c) \/ Refuse(c)
      PROVE  HandlerTypes'
  <2>1. CASE Accept(c)
    BY <2>1 DEF Accept, Called
  <2>2. CASE Undecodable(c)
    BY <2>2 DEF Undecodable
  <2>3. CASE Start(c)
    BY <2>3 DEF Start
  <2>4. CASE RequestReturns(c)
    BY <2>4 DEF RequestReturns, Succeed, Fail
  <2>5. CASE Refuse(c)
    BY <2>5 DEF Refuse, Fail
  <2>6. QED
    BY <1>1, <2>1, <2>2, <2>3, <2>4, <2>5
<1>2. ASSUME NEW c \in Commands, TimedCycle(c) \/ TimedEnds(c) \/ TimedBreaks(c)
      PROVE  HandlerTypes'
  BY <1>2 DEF TimedCycle, TimedEnds, TimedBreaks, Timed, Succeed, Fail
<1>3. ASSUME NEW c \in Commands, ContinuousSteps(c)
      PROVE  HandlerTypes'
  BY <1>3 DEF ContinuousSteps, Compare, UpdateOffset, StopPrevious, NewParams, Spawn, Succeed
<1>4. ASSUME NEW c \in Commands, StopSteps(c)
      PROVE  HandlerTypes'
  BY <1>4 DEF StopSteps, Deactivate, AskJoinable, Join, Centre, CentreFails, Succeed, Fail
<1>5. ASSUME NEW c \in Commands, Query(c) \/ Blocked(c) \/ Clear(c) \/ SendFlight(c)
      PROVE  HandlerTypes'
  BY <1>5 DEF Query, Blocked, Clear, SendFlight, Fail
<1>6. ASSUME NEW t \in Commands, Loop(t)
      PROVE  HandlerTypes'
  BY <1>6 DEF Loop, LoopTest, LoopMode, LoopLeaves, LoopAircraft, LoopSend, LoopSendFails
<1>7. ASSUME NEW e \in Events, Emit(e) \/ Malformed(e) \/ Progress(e)
      PROVE  HandlerTypes'
  BY <1>7 DEF Emit, Malformed, Progress
<1>8. ASSUME NEW h \in Handlers, Report(h)
      PROVE  HandlerTypes'
  BY <1>8 DEF Report, ReportStatus, ReportResult, Finish
<1>9. CASE Osd \/ UNCHANGED vars
  BY <1>9 DEF Osd, vars
<1>10. QED
  BY <1>1, <1>2, <1>3, <1>4, <1>5, <1>6, <1>7, <1>8, <1>9 DEF Next, Command

(* s_transId when a command is accepted, and what is reported.            *)
LEMMA TransTypesKept ==
  ASSUME HandlerTypes, TransTypes, [Next]_vars
  PROVE  TransTypes'
<1>a. ASSUME UNCHANGED <<turn, report>>
      PROVE  TransTypes'
  BY <1>a DEF TransTypes
<1> USE DEF transVars, commandVars
<1>1. ASSUME NEW c \in Commands, Accept(c)
      PROVE  TransTypes'
  <2>1. transId # None => turn[transId] \in Nat
    BY DEF HandlerTypes, TransTypes
  <2>2. QED
    BY <1>1, <2>1 DEF Accept, Called, TransTypes
<1>2. ASSUME NEW c \in Commands, Command(c) \/ Undecodable(c) \/ Loop(c)
      PROVE  UNCHANGED <<turn, report>>
  <2>1. CASE Start(c) \/ RequestReturns(c) \/ Refuse(c) \/ Undecodable(c)
    BY <2>1 DEF Start, RequestReturns, Refuse, Undecodable
  <2>2. CASE TimedCycle(c) \/ TimedEnds(c) \/ TimedBreaks(c)
    BY <2>2 DEF TimedCycle, TimedEnds, TimedBreaks
  <2>3. CASE ContinuousSteps(c)
    BY <2>3 DEF ContinuousSteps, Compare, UpdateOffset, StopPrevious, NewParams, Spawn
  <2>4. CASE StopSteps(c)
    BY <2>4 DEF StopSteps, Deactivate, AskJoinable, Join, Centre, CentreFails
  <2>5. CASE Query(c) \/ Blocked(c) \/ Clear(c) \/ SendFlight(c)
    BY <2>5 DEF Query, Blocked, Clear, SendFlight
  <2>6. CASE Loop(c)
    BY <2>6 DEF Loop, LoopTest, LoopMode, LoopLeaves, LoopAircraft, LoopSend, LoopSendFails
  <2>7. QED
    BY <1>2, <2>1, <2>2, <2>3, <2>4, <2>5, <2>6 DEF Command
<1>3. ASSUME NEW e \in Events, Emit(e) \/ Malformed(e) \/ Progress(e)
      PROVE  UNCHANGED <<turn, report>>
  BY <1>3 DEF Emit, Malformed, Progress
<1>4. ASSUME NEW h \in Handlers, Report(h)
      PROVE  TransTypes'
  <2>1. Subject(h) \in Commands
    BY DEF Subject, Handlers, Events
  <2>2. transId \in Commands \cup {None} /\ turn \in [Commands -> Nat]
    BY DEF HandlerTypes, TransTypes
  <2>3. turn' = turn /\ report' \in {report, [of |-> Subject(h), transId |-> transId]}
    BY <1>4 DEF Report, ReportStatus, ReportResult, Finish
  <2>4. QED
    BY <2>1, <2>2, <2>3 DEF TransTypes
<1>5. CASE Osd \/ UNCHANGED vars
  BY <1>5, <1>a DEF Osd, vars
<1>6. QED
  BY <1>1, <1>2, <1>3, <1>4, <1>5, <1>a DEF Next

(* The state of continuous moves; NewParams comes before Spawn.           *)
LEMMA MoveTypesKept ==
  ASSUME HandlerTypes, MoveTypes, [Next]_vars
  PROVE  MoveTypes'
<1> USE FlightAssumption DEF HandlerTypes, MoveTypes, Handlers, LoopPlaces, Goto, LoopTo,
        moveVars, commandVars, At, In
<1>1. ASSUME NEW c \in Commands,
             Accept(c) \/ Undecodable(c) \/ Start(c) \/ RequestReturns(c) \/ Refuse(c)
      PROVE  MoveTypes'
  BY <1>1 DEF Accept, Called, Undecodable, Start, RequestReturns, Refuse, Succeed, Fail
<1>2. ASSUME NEW c \in Commands, TimedCycle(c) \/ TimedEnds(c) \/ TimedBreaks(c)
      PROVE  MoveTypes'
  BY <1>2 DEF TimedCycle, TimedEnds, TimedBreaks, Timed, Succeed, Fail
<1>3. ASSUME NEW c \in Commands, ContinuousSteps(c)
      PROVE  MoveTypes'
  <2>1. CASE Compare(c)
    BY <2>1 DEF Compare
  <2>2. CASE UpdateOffset(c)
    BY <2>2 DEF UpdateOffset, Succeed
  <2>3. CASE StopPrevious(c)
    BY <2>3 DEF StopPrevious
  <2>4. CASE NewParams(c)
    BY <2>4 DEF NewParams
  <2>5. CASE Spawn(c)
    BY <2>5 DEF Spawn, Succeed, Joinable
  <2>6. QED
    BY <1>3, <2>1, <2>2, <2>3, <2>4, <2>5 DEF ContinuousSteps
<1>4. ASSUME NEW c \in Commands, StopSteps(c)
      PROVE  MoveTypes'
  <2>1. CASE Deactivate(c)
    BY <2>1 DEF Deactivate
  <2>2. CASE AskJoinable(c)
    BY <2>2 DEF AskJoinable
  <2>3. CASE Join(c)
    BY <2>3 DEF Join, JoinThrows, Joinable
  <2>4. CASE Centre(c)
    BY <2>4 DEF Centre, Succeed
  <2>5. CASE CentreFails(c)
    BY <2>5 DEF CentreFails, Fail
  <2>6. QED
    BY <1>4, <2>1, <2>2, <2>3, <2>4, <2>5 DEF StopSteps
<1>5. ASSUME NEW c \in Commands, Query(c) \/ Blocked(c) \/ Clear(c) \/ SendFlight(c)
      PROVE  MoveTypes'
  BY <1>5 DEF Query, Blocked, Clear, SendFlight, Fail
<1>6. ASSUME NEW t \in Commands, Loop(t)
      PROVE  MoveTypes'
  BY <1>6 DEF Loop, LoopTest, LoopMode, LoopLeaves, LoopAircraft, LoopSend, LoopSendFails
<1>7. ASSUME NEW e \in Events, Emit(e) \/ Malformed(e) \/ Progress(e)
      PROVE  MoveTypes'
  BY <1>7 DEF Emit, Malformed, Progress
<1>8. ASSUME NEW h \in Handlers, Report(h)
      PROVE  MoveTypes'
  BY <1>8 DEF Report, ReportStatus, ReportResult, Finish
<1>9. CASE Osd \/ UNCHANGED vars
  BY <1>9 DEF Osd, vars
<1>10. QED
  BY <1>1, <1>2, <1>3, <1>4, <1>5, <1>6, <1>7, <1>8, <1>9 DEF Next, Command

(* The steps that send a flight, or learn from it.                        *)
LEMMA PointKeepsFlightTypes ==
  ASSUME FlightTypes,
         \/ \E c \in Commands : Query(c) \/ SendFlight(c)
         \/ \E e \in Events : Progress(e)
  PROVE  FlightTypes'
<1>1. ASSUME NEW c \in Commands, Query(c)
      PROVE  FlightTypes'
  BY <1>1 DEF Query, FlightTypes
<1>2. ASSUME NEW c \in Commands, SendFlight(c)
      PROVE  FlightTypes'
  <2>1. flown \in Seq(Commands)
    BY DEF FlightTypes
  <2>2. flown' \in {flown, Append(flown, c)}
    BY <1>2 DEF SendFlight
  <2>3. flown' \in Seq(Commands)
    BY <2>1, <2>2
  <2>4. QED
    BY <1>2, <2>3 DEF SendFlight, FlightTypes
<1>3. ASSUME NEW e \in Events, Progress(e)
      PROVE  FlightTypes'
  <2>1. e.id \in Commands /\ e.status \in Outcomes
    BY DEF Events
  <2>2. PICK i \in {e.id, flyto.id}, s \in {e.status, ""} : flyto' = [id |-> i, status |-> s]
    BY <1>3 DEF Progress
  <2>3. flyto.id \in Commands \cup {None}
    BY DEF FlightTypes
  <2>4. i \in Commands \cup {None} /\ s \in Outcomes \cup {"", "sent", "ok"}
    BY <2>1, <2>3
  <2>5. flyto' \in [id : Commands \cup {None}, status : Outcomes \cup {"", "sent", "ok"}]
    BY <2>2, <2>4
  <2>6. QED
    BY <1>3, <2>5 DEF Progress, FlightTypes
<1>4. QED
  BY <1>1, <1>2, <1>3

(* The cached fly-to status and the flights sent.                          *)
LEMMA FlightTypesKept ==
  ASSUME FlightTypes, [Next]_vars
  PROVE  FlightTypes'
<1> USE FlightAssumption DEF FlightTypes, flightVars
<1>1. ASSUME NEW c \in Commands,
             Accept(c) \/ Undecodable(c) \/ Start(c) \/ RequestReturns(c) \/ Refuse(c)
      PROVE  FlightTypes'
  <2>1. CASE Accept(c)
    BY <2>1 DEF Accept, Called
  <2>2. CASE Undecodable(c)
    BY <2>2 DEF Undecodable
  <2>3. CASE Start(c)
    BY <2>3 DEF Start
  <2>4. CASE RequestReturns(c)
    BY <2>4 DEF RequestReturns, Succeed, Fail
  <2>5. CASE Refuse(c)
    BY <2>5 DEF Refuse, Fail
  <2>6. QED
    BY <1>1, <2>1, <2>2, <2>3, <2>4, <2>5
<1>2. ASSUME NEW c \in Commands, TimedCycle(c) \/ TimedEnds(c) \/ TimedBreaks(c)
      PROVE  FlightTypes'
  <2>1. CASE TimedCycle(c)
    BY <2>1 DEF TimedCycle
  <2>2. CASE TimedEnds(c)
    BY <2>2 DEF TimedEnds, Succeed
  <2>3. CASE TimedBreaks(c)
    BY <2>3 DEF TimedBreaks, Fail
  <2>4. QED
    BY <1>2, <2>1, <2>2, <2>3
<1>3. ASSUME NEW c \in Commands, ContinuousSteps(c)
      PROVE  FlightTypes'
  <2>1. CASE Compare(c)
    BY <2>1 DEF Compare
  <2>2. CASE UpdateOffset(c)
    BY <2>2 DEF UpdateOffset, Succeed
  <2>3. CASE StopPrevious(c)
    BY <2>3 DEF StopPrevious
  <2>4. CASE NewParams(c)
    BY <2>4 DEF NewParams
  <2>5. CASE Spawn(c)
    BY <2>5 DEF Spawn, Succeed
  <2>6. QED
    BY <1>3, <2>1, <2>2, <2>3, <2>4, <2>5 DEF ContinuousSteps
<1>4. ASSUME NEW c \in Commands, StopSteps(c)
      PROVE  FlightTypes'
  <2>1. CASE Deactivate(c)
    BY <2>1 DEF Deactivate
  <2>2. CASE AskJoinable(c)
    BY <2>2 DEF AskJoinable
  <2>3. CASE Join(c)
    BY <2>3 DEF Join
  <2>4. CASE Centre(c)
    BY <2>4 DEF Centre, Succeed
  <2>5. CASE CentreFails(c)
    BY <2>5 DEF CentreFails, Fail
  <2>6. QED
    BY <1>4, <2>1, <2>2, <2>3, <2>4, <2>5 DEF StopSteps
<1>5. ASSUME NEW c \in Commands, Query(c) \/ Blocked(c) \/ Clear(c) \/ SendFlight(c)
      PROVE  FlightTypes'
  <2>1. CASE Query(c)
    BY <2>1, PointKeepsFlightTypes
  <2>2. CASE Blocked(c)
    BY <2>2 DEF Blocked, Fail
  <2>3. CASE Clear(c)
    BY <2>3 DEF Clear
  <2>4. CASE SendFlight(c)
    BY <2>4, PointKeepsFlightTypes
  <2>5. QED
    BY <1>5, <2>1, <2>2, <2>3, <2>4
<1>6. ASSUME NEW t \in Commands, Loop(t)
      PROVE  FlightTypes'
  BY <1>6 DEF Loop, LoopTest, LoopMode, LoopLeaves, LoopAircraft, LoopSend, LoopSendFails
<1>7. ASSUME NEW e \in Events, Emit(e) \/ Malformed(e) \/ Progress(e)
      PROVE  FlightTypes'
  <2>1. CASE Emit(e) \/ Malformed(e)
    BY <2>1 DEF Emit, Malformed
  <2>2. CASE Progress(e)
    BY <2>2, PointKeepsFlightTypes
  <2>3. QED
    BY <1>7, <2>1, <2>2
<1>8. ASSUME NEW h \in Handlers, Report(h)
      PROVE  FlightTypes'
  <2>1. CASE ReportStatus(h)
    BY <2>1 DEF ReportStatus
  <2>2. CASE ReportResult(h)
    BY <2>2 DEF ReportResult
  <2>3. CASE Finish(h)
    BY <2>3 DEF Finish
  <2>4. QED
    BY <1>8, <2>1, <2>2, <2>3 DEF Report
<1>9. CASE Osd \/ UNCHANGED vars
  <2>1. CASE Osd
    BY <2>1 DEF Osd
  <2>2. CASE UNCHANGED vars
    BY <2>2 DEF vars
  <2>3. QED
    BY <1>9, <2>1, <2>2
<1>10. QED
  BY <1>1, <1>2, <1>3, <1>4, <1>5, <1>6, <1>7, <1>8, <1>9 DEF Next, Command

(* The stick: a thread always has an offset to send.                      *)
LEMMA AircraftTypesKept ==
  ASSUME MoveTypes, AircraftTypes, [Next]_vars
  PROVE  AircraftTypes'
<1> USE FlightAssumption DEF MoveTypes, AircraftTypes, aircraftVars, In
<1>1. ASSUME NEW c \in Commands,
             Accept(c) \/ Undecodable(c) \/ Start(c) \/ RequestReturns(c) \/ Refuse(c)
      PROVE  AircraftTypes'
  BY <1>1 DEF Accept, Called, Undecodable, Start, RequestReturns, Refuse, Succeed, Fail
<1>2. ASSUME NEW c \in Commands, TimedCycle(c) \/ TimedEnds(c) \/ TimedBreaks(c)
      PROVE  AircraftTypes'
  BY <1>2 DEF TimedCycle, TimedEnds, TimedBreaks, Timed, Succeed, Fail
<1>3. ASSUME NEW c \in Commands, ContinuousSteps(c)
      PROVE  AircraftTypes'
  BY <1>3 DEF ContinuousSteps, Compare, UpdateOffset, StopPrevious, NewParams, Spawn, Succeed
<1>4. ASSUME NEW c \in Commands, StopSteps(c)
      PROVE  AircraftTypes'
  BY <1>4 DEF StopSteps, Deactivate, AskJoinable, Join, Centre, CentreFails, Succeed, Fail
<1>5. ASSUME NEW c \in Commands, Query(c) \/ Blocked(c) \/ Clear(c) \/ SendFlight(c)
      PROVE  AircraftTypes'
  BY <1>5 DEF Query, Blocked, Clear, SendFlight, Fail
<1>6. ASSUME NEW t \in Commands, Loop(t)
      PROVE  AircraftTypes'
  BY <1>6 DEF Loop, LoopTest, LoopMode, LoopLeaves, LoopAircraft, LoopSend, LoopSendFails
<1>7. ASSUME NEW e \in Events, Emit(e) \/ Malformed(e) \/ Progress(e)
      PROVE  AircraftTypes'
  BY <1>7 DEF Emit, Malformed, Progress
<1>8. ASSUME NEW h \in Handlers, Report(h)
      PROVE  AircraftTypes'
  BY <1>8 DEF Report, ReportStatus, ReportResult, Finish
<1>9. CASE Osd \/ UNCHANGED vars
  BY <1>9 DEF Osd, vars
<1>10. QED
  BY <1>1, <1>2, <1>3, <1>4, <1>5, <1>6, <1>7, <1>8, <1>9 DEF Next, Command

(* FlytoController: every variable has its type, for any platform.         *)
THEOREM TypeInvariant == Spec => []TypeInv
<1>1. Init => TypeInv
  <2> SUFFICES ASSUME Init
               PROVE  TypeInv
    OBVIOUS
  <2>1. HandlerTypes
    BY DEF Init, HandlerTypes, Places
  <2>6. TransTypes
    BY DEF Init, TransTypes
  <2>2. MoveTypes
    BY DEF Init, MoveTypes, LoopPlaces, Handlers
  <2>3. FlightTypes
    <3>1. flyto = [id |-> None, status |-> ""] /\ flown = <<>> /\ inProgress = {}
      BY DEF Init
    <3>2. flown \in Seq(Commands)
      BY <3>1, EmptySeq
    <3>3. QED
      BY <3>1, <3>2 DEF FlightTypes
  <2>4. AircraftTypes
    <3>1. stick = None /\ uavMode \in UavModes /\ late = 0
      BY DEF Init
    <3>2. QED
      BY <3>1 DEF AircraftTypes
  <2>5. QED
    BY <2>1, <2>2, <2>3, <2>4, <2>6 DEF TypeInv
<1>2. TypeInv /\ [Next]_vars => TypeInv'
  BY HandlerTypesKept, TransTypesKept, MoveTypesKept, FlightTypesKept, AircraftTypesKept
     DEF TypeInv
<1>3. QED
  BY <1>1, <1>2, PTL DEF Spec

(* TypeOK of FlightControl.                                                *)
THEOREM TypeCorrect == Spec => []TypeOK
<1>1. TypeInv => TypeOK
  <2> SUFFICES ASSUME TypeInv
               PROVE  TypeOK
    OBVIOUS
  <2>1. flyto.id \in Commands \cup {None} /\ flyto.status \in Outcomes \cup {"", "sent", "ok"}
    BY DEF TypeInv, FlightTypes
  <2>2. QED
    BY <2>1 DEF TypeInv, TypeOK, HandlerTypes, TransTypes, MoveTypes, FlightTypes, AircraftTypes
<1>2. QED
  BY <1>1, TypeInvariant, PTL

(* An event is handled without a command, its thread or the stick.        *)
LEMMA EventSteps ==
  ASSUME HandlerTypes, NEW e \in Events, Emit(e) \/ Malformed(e) \/ Progress(e)
  PROVE  /\ UNCHANGED <<verdict, kind, transVars, report, mode, moveVars, aircraftVars>>
         /\ \A c \in Commands : pc'[c] = pc[c]
<1>1. e \notin Commands /\ e \in Handlers /\ pc \in [Handlers -> Places]
  BY FlightAssumption DEF Handlers, HandlerTypes
<1>2. PICK place \in Places : pc' = [pc EXCEPT ![e] = place]
  BY DEF Emit, Malformed, Progress, Goto, Places
<1>3. \A c \in Commands : pc'[c] = pc[c]
  BY <1>1, <1>2 DEF Handlers
<1>4. QED
  BY <1>3 DEF Emit, Malformed, Progress

(* A handler is where its kind leads; success comes at its end.           *)
LEMMA PlaceOfKindKept ==
  ASSUME HandlerTypes, PlaceOfKind, [Next]_vars
  PROVE  PlaceOfKind'
<1> USE FlightAssumption DEF HandlerTypes, PlaceOfKind, Handlers, Replied, Goto, commandVars, At
<1>1. ASSUME NEW c \in Commands,
             Accept(c) \/ Undecodable(c) \/ Start(c) \/ RequestReturns(c) \/ Refuse(c)
      PROVE  PlaceOfKind'
  <2>1. CASE Accept(c)
    BY <2>1 DEF Accept, Called
  <2>2. CASE Undecodable(c)
    BY <2>2 DEF Undecodable
  <2>3. CASE Start(c)
    BY <2>3 DEF Start
  <2>4. CASE RequestReturns(c)
    BY <2>4 DEF RequestReturns, Succeed, Fail
  <2>5. CASE Refuse(c)
    BY <2>5 DEF Refuse, Fail
  <2>6. QED
    BY <1>1, <2>1, <2>2, <2>3, <2>4, <2>5
<1>2. ASSUME NEW c \in Commands, TimedCycle(c) \/ TimedEnds(c) \/ TimedBreaks(c)
      PROVE  PlaceOfKind'
  BY <1>2 DEF TimedCycle, TimedEnds, TimedBreaks, Timed, Succeed, Fail
<1>3. ASSUME NEW c \in Commands, ContinuousSteps(c)
      PROVE  PlaceOfKind'
  BY <1>3 DEF ContinuousSteps, Compare, UpdateOffset, StopPrevious, NewParams, Spawn, Succeed
<1>4. ASSUME NEW c \in Commands, StopSteps(c)
      PROVE  PlaceOfKind'
  <2>1. CASE Deactivate(c)
    BY <2>1 DEF Deactivate
  <2>2. CASE AskJoinable(c)
    BY <2>2 DEF AskJoinable
  <2>3. CASE Join(c)
    BY <2>3 DEF Join
  <2>4. CASE Centre(c)
    BY <2>4 DEF Centre, Succeed
  <2>5. CASE CentreFails(c)
    BY <2>5 DEF CentreFails, Fail
  <2>6. QED
    BY <1>4, <2>1, <2>2, <2>3, <2>4, <2>5 DEF StopSteps
<1>5. ASSUME NEW c \in Commands, Query(c) \/ Blocked(c) \/ Clear(c) \/ SendFlight(c)
      PROVE  PlaceOfKind'
  BY <1>5 DEF Query, Blocked, Clear, SendFlight, Fail
<1>6. ASSUME NEW t \in Commands, Loop(t)
      PROVE  PlaceOfKind'
  BY <1>6 DEF Loop, LoopTest, LoopMode, LoopLeaves, LoopAircraft, LoopSend, LoopSendFails
<1>7. ASSUME NEW e \in Events, Emit(e) \/ Malformed(e) \/ Progress(e)
      PROVE  PlaceOfKind'
  BY <1>7, EventSteps
<1>8. ASSUME NEW h \in Handlers, Report(h)
      PROVE  PlaceOfKind'
  BY <1>8 DEF Report, ReportStatus, ReportResult, Finish
<1>9. CASE Osd \/ UNCHANGED vars
  BY <1>9 DEF Osd, vars
<1>10. QED
  BY <1>1, <1>2, <1>3, <1>4, <1>5, <1>6, <1>7, <1>8, <1>9 DEF Next, Command

(* updateTransId comes before anything that is sent or reported.           *)
LEMMA TurnKept ==
  ASSUME HandlerTypes, TransTypes, FlightTypes, PlaceOfKind, TurnInv, [Next]_vars
  PROVE  TurnInv'
<1>0. /\ Commands \cap Events = {} /\ None \notin Commands /\ Handlers = Commands \cup Events
      /\ \A e \in Events : e.id \in Commands
      /\ pc \in [Handlers -> Places] /\ turn \in [Commands -> Nat]
      /\ transId \in Commands \cup {None}
      /\ report \in [of : Commands \cup {None}, transId : Commands \cup {None}]
  BY FlightAssumption DEF Handlers, Events, HandlerTypes, TransTypes
<1>a. ASSUME UNCHANGED <<transVars, kind, report, flown>>,
             \A h \in Handlers : pc'[h] = "new" <=> pc[h] = "new"
      PROVE  TurnInv'
  BY <1>0, <1>a DEF TurnInv, transVars, ReportsNameNoEarlier
<1> USE DEF Goto, At
<1>1. ASSUME NEW c \in Commands, Accept(c)
      PROVE  TurnInv'
  <2>1. /\ transId' = c /\ pc[c] = "new" /\ turn[c] = 0 /\ UNCHANGED <<report, flown>>
        /\ turn' = [turn EXCEPT ![c] = IF transId = None THEN 1 ELSE turn[transId] + 1]
    BY <1>1 DEF Accept, Called, TurnInv, flightVars
  <2>2. PICK k \in Kinds : /\ kind' = [kind EXCEPT ![c] = k]
                           /\ pc' = [pc EXCEPT ![c] = IF k = "invalid" THEN "status"
                                                       ELSE "accepted"]
    BY <1>1 DEF Accept, Called
  <2>3. /\ turn'[c] \in Nat /\ turn'[c] > 0 /\ \A d \in Commands \ {c} : turn'[d] = turn[d]
        /\ \A d \in Commands : turn[d] > 0 => turn[d] <= turn'[c]
    BY <1>0, <2>1 DEF TurnInv
  <2>4. pc'[c] # "new" /\ \A h \in Handlers \ {c} : pc'[h] = pc[h]
    BY <1>0, <2>2
  <2>5. \A d \in Commands :
          /\ pc'[d] = "new" => turn'[d] = 0
          /\ kind'[d] # "unread" => turn'[d] > 0
          /\ turn'[d] > 0 => turn'[d] <= turn'[c]
    <3>1. \A d \in Commands \ {c} : kind'[d] = kind[d] /\ pc'[d] = pc[d]
      BY <1>0, <2>2, <2>4 DEF HandlerTypes
    <3>2. ASSUME NEW d \in Commands, d # c
          PROVE  /\ pc'[d] = "new" => turn'[d] = 0
                 /\ kind'[d] # "unread" => turn'[d] > 0
                 /\ turn'[d] > 0 => turn'[d] <= turn'[c]
      BY <2>3, <3>1, <3>2 DEF TurnInv
    <3>3. QED
      BY <2>3, <2>4, <3>2
  <2>6. \A i \in 1 .. Len(flown) : turn'[flown[i]] > 0
    <3>1. flown \in Seq(Commands)
      BY DEF FlightTypes
    <3>2. \A i \in 1 .. Len(flown) : flown[i] \in Commands
      BY <3>1
    <3>3. \A i \in 1 .. Len(flown) : turn[flown[i]] > 0
      BY DEF TurnInv
    <3>4. QED
      BY <1>0, <2>1, <2>3, <3>2, <3>3
  <2>7. \A e \in Events : pc'[e] # "new" => turn'[e.id] > 0
    BY <1>0, <2>1, <2>3, <2>4 DEF TurnInv
  <2>8. /\ report.of # None => pc[report.of] # "new" /\ report.of # c
        /\ report.transId # None => pc[report.transId] # "new" /\ report.transId # c
    BY <2>1 DEF TurnInv
  <2>9. ReportsNameNoEarlier'
    BY <1>0, <2>1, <2>3, <2>8 DEF TurnInv, ReportsNameNoEarlier
  <2>10. /\ \A d \in Commands : turn'[d] > 0 => transId' # None /\ turn'[d] <= turn'[transId']
         /\ transId' # None /\ turn'[transId'] > 0
    BY <1>0, <2>1, <2>3, <2>5
  <2>11. /\ report'.of # None => pc'[report'.of] # "new"
         /\ report'.transId # None => pc'[report'.transId] # "new"
    BY <1>0, <2>1, <2>4, <2>8
  <2>12. \A i \in 1 .. Len(flown') : turn'[flown'[i]] > 0
    BY <2>1, <2>6
  <2>13. QED
    BY <2>5, <2>7, <2>9, <2>10, <2>11, <2>12 DEF TurnInv
<1>2. ASSUME NEW c \in Commands,
             Undecodable(c) \/ Start(c) \/ RequestReturns(c) \/ Refuse(c)
      PROVE  TurnInv'
  <2>1. CASE Undecodable(c)
    <3>1. /\ UNCHANGED <<transVars, kind, report, flown>>
          /\ pc[c] = "new" /\ pc'[c] = "status" /\ \A h \in Handlers \ {c} : pc'[h] = pc[h]
      BY <1>0, <2>1 DEF Undecodable, flightVars
    <3>2. \A e \in Events : e \in Handlers \ {c}
      BY <1>0
    <3>3. QED
      BY <1>0, <3>1, <3>2 DEF TurnInv, transVars, ReportsNameNoEarlier
  <2>2. CASE Start(c) \/ RequestReturns(c) \/ Refuse(c)
    BY <1>0, <1>a, <2>2 DEF Start, RequestReturns, Refuse, Succeed, Fail, flightVars
  <2>3. QED
    BY <1>2, <2>1, <2>2
<1>3. ASSUME NEW c \in Commands, TimedCycle(c) \/ TimedEnds(c) \/ TimedBreaks(c)
      PROVE  TurnInv'
  BY <1>0, <1>3, <1>a DEF TimedCycle, TimedEnds, TimedBreaks, Timed, Succeed, Fail, flightVars
<1>4. ASSUME NEW c \in Commands, ContinuousSteps(c)
      PROVE  TurnInv'
  BY <1>0, <1>4, <1>a DEF ContinuousSteps, Compare, UpdateOffset, StopPrevious, NewParams, Spawn,
     Succeed, flightVars
<1>5. ASSUME NEW c \in Commands, StopSteps(c)
      PROVE  TurnInv'
  BY <1>0, <1>5, <1>a DEF StopSteps, Deactivate, AskJoinable, Join, Centre, CentreFails, Succeed,
     Fail, flightVars
<1>6. ASSUME NEW c \in Commands, Query(c) \/ Blocked(c) \/ Clear(c)
      PROVE  TurnInv'
  BY <1>0, <1>6, <1>a DEF Query, Blocked, Clear, Fail, flightVars
<1>7. ASSUME NEW c \in Commands, SendFlight(c)
      PROVE  TurnInv'
  <2>1. /\ UNCHANGED <<transVars, kind, report>>
        /\ \A h \in Handlers : pc'[h] = "new" <=> pc[h] = "new"
    BY <1>0, <1>7 DEF SendFlight
  <2>2. turn[c] > 0
    BY <1>7 DEF SendFlight, PlaceOfKind, TurnInv
  <2>3. flown \in Seq(Commands) /\ flown' \in {flown, Append(flown, c)}
    BY <1>7 DEF FlightTypes, SendFlight
  <2>4. \A i \in 1 .. Len(flown) : turn[flown[i]] > 0
    BY DEF TurnInv
  <2>5. \A i \in 1 .. Len(flown') : turn[flown'[i]] > 0
    BY <2>2, <2>3, <2>4
  <2>6. QED
    BY <1>0, <2>1, <2>5 DEF TurnInv, transVars, ReportsNameNoEarlier
<1>8. ASSUME NEW t \in Commands, Loop(t)
      PROVE  TurnInv'
  BY <1>0, <1>8, <1>a DEF Loop, LoopTest, LoopMode, LoopLeaves, LoopAircraft, LoopSend,
     LoopSendFails, commandVars, flightVars
<1>9. ASSUME NEW e \in Events, Emit(e)
      PROVE  TurnInv'
  <2>1. /\ UNCHANGED <<transVars, kind, report, flown>>
        /\ pc' = [pc EXCEPT ![e] = "arriving"]
    BY <1>9 DEF Emit, flightVars
  <2>2. PICK i \in 1 .. Len(flown) : flown[i] = e.id
    BY <1>9 DEF Emit, Contains
  <2>3. turn[e.id] > 0
    BY <2>2 DEF TurnInv
  <2>4. \A h \in Handlers \ {e} : pc'[h] = pc[h]
    BY <1>0, <2>1
  <2>5. \A c \in Commands : pc'[c] = pc[c]
    BY <1>0, <2>4
  <2>6. \A f \in Events : pc'[f] # "new" => turn[f.id] > 0
    BY <1>0, <2>3, <2>4 DEF TurnInv
  <2>7. QED
    BY <1>0, <2>1, <2>5, <2>6 DEF TurnInv, transVars, ReportsNameNoEarlier
<1>10. ASSUME NEW e \in Events, Malformed(e) \/ Progress(e)
      PROVE  TurnInv'
  BY <1>0, <1>10, <1>a DEF Malformed, Progress, flightVars
<1>11. ASSUME NEW h \in Handlers, ReportStatus(h) \/ ReportResult(h)
      PROVE  TurnInv'
  <2>1. /\ UNCHANGED <<transVars, kind, flown>> /\ pc[h] # "new"
        /\ report' = [of |-> Subject(h), transId |-> transId]
        /\ \A g \in Handlers : pc'[g] = "new" <=> pc[g] = "new"
    BY <1>0, <1>11 DEF ReportStatus, ReportResult, flightVars
  <2>2. Subject(h) \in Commands /\ pc[Subject(h)] # "new"
    BY <1>0, <2>1 DEF Subject, TurnInv
  <2>3. /\ report'.of = Subject(h) /\ report'.transId = transId
        /\ turn' = turn /\ transId' = transId
    BY <2>1 DEF transVars
  <2>4. transId # None => pc[transId] # "new"
    BY <1>0 DEF TurnInv
  <2>5. ReportsNameNoEarlier'
    BY <1>0, <2>2, <2>3 DEF TurnInv, ReportsNameNoEarlier
  <2>6. QED
    BY <1>0, <2>1, <2>2, <2>3, <2>4, <2>5 DEF TurnInv
<1>12. ASSUME NEW h \in Handlers, Finish(h)
      PROVE  TurnInv'
  BY <1>0, <1>12, <1>a DEF Finish, flightVars
<1>13. CASE Osd \/ UNCHANGED vars
  BY <1>0, <1>13, <1>a DEF Osd, vars, commandVars, flightVars
<1>14. QED
  BY <1>1, <1>2, <1>3, <1>4, <1>5, <1>6, <1>7, <1>8, <1>9, <1>10, <1>11, <1>12, <1>13
     DEF Next, Command, Report

(* previous, joining, joinable: no thread is left when one is started.    *)
LEMMA OneThreadKept ==
  ASSUME HandlerTypes, MoveTypes, PlaceOfKind, OneHasStick, OneThread, [Next]_vars
  PROVE  OneThread'
<1> USE FlightAssumption DEF HandlerTypes, MoveTypes, PlaceOfKind, OneHasStick, HasStick,
        StickKinds, OneThread, Handlers, Replied,
        Joinable, Goto, LoopTo, commandVars, moveVars, At, In
<1>1. ASSUME NEW c \in Commands,
             Accept(c) \/ Undecodable(c) \/ Start(c) \/ RequestReturns(c) \/ Refuse(c)
      PROVE  OneThread'
  <2>1. CASE Accept(c)
    BY <2>1 DEF Accept, Called
  <2>2. CASE Undecodable(c)
    BY <2>2 DEF Undecodable
  <2>3. CASE Start(c)
    BY <2>3 DEF Start
  <2>4. CASE RequestReturns(c)
    BY <2>4 DEF RequestReturns, Succeed, Fail
  <2>5. CASE Refuse(c)
    BY <2>5 DEF Refuse, Fail
  <2>6. QED
    BY <1>1, <2>1, <2>2, <2>3, <2>4, <2>5
<1>2. ASSUME NEW c \in Commands, TimedCycle(c) \/ TimedEnds(c) \/ TimedBreaks(c)
      PROVE  OneThread'
  BY <1>2 DEF TimedCycle, TimedEnds, TimedBreaks, Timed, Succeed, Fail
<1>3. ASSUME NEW c \in Commands, ContinuousSteps(c)
      PROVE  OneThread'
  <2>1. CASE Compare(c)
    BY <2>1 DEF Compare
  <2>2. CASE UpdateOffset(c)
    BY <2>2 DEF UpdateOffset, Succeed
  <2>3. CASE StopPrevious(c)
    BY <2>3 DEF StopPrevious
  <2>4. CASE NewParams(c)
    BY <2>4 DEF NewParams
  <2>5. CASE Spawn(c)
    BY <2>5 DEF Spawn, Succeed
  <2>6. QED
    BY <1>3, <2>1, <2>2, <2>3, <2>4, <2>5 DEF ContinuousSteps
<1>4. ASSUME NEW c \in Commands, StopSteps(c)
      PROVE  OneThread'
  <2>1. CASE Deactivate(c)
    BY <2>1 DEF Deactivate
  <2>2. CASE AskJoinable(c)
    BY <2>2 DEF AskJoinable
  <2>3. CASE Join(c)
    <3>1. ~crashed'
      <4>1. \A d \in Commands \ {c} : pc[d] # "joining"
        BY <2>3 DEF Join
      <4>2. ~JoinThrows(c)
        BY <2>3, <4>1 DEF Join, JoinThrows
      <4>3. QED
        BY <2>3, <4>2 DEF Join
    <3>2. /\ Joinable /\ loop[thread] = "ended"
          /\ joined' = joined \cup {thread}
          /\ pc' \in {[pc EXCEPT ![c] = "centre"], [pc EXCEPT ![c] = "params"]}
          /\ UNCHANGED <<thread, loop>>
      BY <2>3, <3>1 DEF Join
    <3>3. \A d \in Commands \ {c} : pc'[d] = pc[d]
      BY <3>2
    <3>4. \A d \in Commands \ {c} : pc[d] \notin {"joining", "params", "spawn", "centre"}
      BY <2>3 DEF Join
    <3>5. pc'[c] \in {"centre", "params"}
      BY <3>2
    <3>6. pc[c] = "joining"
      BY <2>3 DEF Join
    <3>7. \A t \in Commands : loop[t] # "none" => t # c
      BY <3>6
    <3>8. ~Joinable'
      BY <3>2
    <3>9. \A t \in Commands :
            /\ loop'[t] # "none" => (t = thread' \/ t \in joined') /\ pc'[t] \in Replied
            /\ t \in joined' => loop'[t] = "ended"
            /\ t = thread' => loop'[t] # "none"
      BY <3>2, <3>3, <3>7
    <3>10. QED
      BY <3>1, <3>3, <3>4, <3>5, <3>8, <3>9
  <2>4. CASE Centre(c)
    BY <2>4 DEF Centre, Succeed
  <2>5. CASE CentreFails(c)
    BY <2>5 DEF CentreFails, Fail
  <2>6. QED
    BY <1>4, <2>1, <2>2, <2>3, <2>4, <2>5 DEF StopSteps
<1>5. ASSUME NEW c \in Commands, Query(c) \/ Blocked(c) \/ Clear(c) \/ SendFlight(c)
      PROVE  OneThread'
  BY <1>5 DEF Query, Blocked, Clear, SendFlight, Fail
<1>6. ASSUME NEW t \in Commands, Loop(t)
      PROVE  OneThread'
  BY <1>6 DEF Loop, LoopTest, LoopMode, LoopLeaves, LoopAircraft, LoopSend, LoopSendFails
<1>7. ASSUME NEW e \in Events, Emit(e) \/ Malformed(e) \/ Progress(e)
      PROVE  OneThread'
  BY <1>7, EventSteps
<1>8. ASSUME NEW h \in Handlers, Report(h)
      PROVE  OneThread'
  BY <1>8 DEF Report, ReportStatus, ReportResult, Finish
<1>9. CASE Osd \/ UNCHANGED vars
  BY <1>9 DEF Osd, vars
<1>10. QED
  BY <1>1, <1>2, <1>3, <1>4, <1>5, <1>6, <1>7, <1>8, <1>9 DEF Next, Command

(* Only Accept puts a command in charge of the stick, and a stop reports    *)
(* when it has been.                                                       *)
LEMMA StickSteps ==
  ASSUME HandlerTypes, PlaceOfKind, [Next]_vars,
         \A c \in Commands : ~Accept(c)
  PROVE  /\ UNCHANGED <<transId, kind>>
         /\ \A d \in Commands : HasStick(d)' => HasStick(d)
         /\ \A d \in Commands : kind[d] = "stop" /\ pc'[d] \in Replied
                                => pc[d] \in Replied \/ HasStick(d)
<1> DEFINE Kept == /\ UNCHANGED <<transId, kind>>
                   /\ \A d \in Commands : HasStick(d)' => HasStick(d)
                   /\ \A d \in Commands : kind[d] = "stop" /\ pc'[d] \in Replied
                                          => pc[d] \in Replied \/ HasStick(d)
<1>0. /\ Commands \cap Events = {} /\ Handlers = Commands \cup Events
      /\ pc \in [Handlers -> Places]
  BY FlightAssumption DEF Handlers, HandlerTypes
<1>a. ASSUME UNCHANGED <<transId, kind>>, \A d \in Commands : pc'[d] = pc[d]
      PROVE  Kept
  BY <1>a DEF HasStick
<1>b. ASSUME NEW c \in Commands, NEW place, UNCHANGED <<transId, kind>>,
             pc' = [pc EXCEPT ![c] = place],
             pc[c] \notin {"new", "status", "result", "finish", "done"}
      PROVE  Kept
  <2>1. pc'[c] = place /\ \A d \in Commands \ {c} : pc'[d] = pc[d]
    BY <1>0, <1>b
  <2>2. kind[c] = "stop" => HasStick(c)
    BY <1>b DEF HasStick, StickKinds
  <2>3. HasStick(c)' => HasStick(c)
    BY <1>b DEF HasStick
  <2>4. \A d \in Commands \ {c} : HasStick(d)' <=> HasStick(d)
    BY <1>b, <2>1 DEF HasStick
  <2> QED
    BY <1>b, <2>1, <2>2, <2>3, <2>4
<1>c. ASSUME NEW h \in Handlers, NEW place \in Replied, UNCHANGED <<transId, kind>>,
             pc' = [pc EXCEPT ![h] = place], pc[h] \in Replied
      PROVE  Kept
  BY <1>0, <1>c DEF HasStick, Replied
<1> HIDE DEF Kept
<1> USE DEF Goto, At, transVars
<1>1. ASSUME NEW c \in Commands, Start(c) \/ RequestReturns(c) \/ Refuse(c)
      PROVE  Kept
  BY <1>1, <1>b DEF Start, RequestReturns, Refuse, Succeed, Fail
<1>2. ASSUME NEW c \in Commands, Undecodable(c)
      PROVE  Kept
  <2>1. kind[c] # "stop"
    BY <1>2 DEF Undecodable, PlaceOfKind
  <2>2. /\ UNCHANGED <<transId, kind>> /\ pc'[c] = "status"
        /\ \A d \in Commands \ {c} : pc'[d] = pc[d]
    BY <1>0, <1>2 DEF Undecodable
  <2> QED
    BY <2>1, <2>2 DEF Kept, HasStick
<1>3. ASSUME NEW c \in Commands, TimedCycle(c) \/ TimedEnds(c) \/ TimedBreaks(c)
      PROVE  Kept
  BY <1>3, <1>b DEF TimedCycle, TimedEnds, TimedBreaks, Timed, Succeed, Fail
<1>4. ASSUME NEW c \in Commands, ContinuousSteps(c)
      PROVE  Kept
  BY <1>4, <1>b DEF ContinuousSteps, Compare, UpdateOffset, StopPrevious, NewParams, Spawn,
     Succeed
<1>5. ASSUME NEW c \in Commands, StopSteps(c)
      PROVE  Kept
  <2>1. CASE Deactivate(c) \/ AskJoinable(c)
    BY <1>b, <2>1 DEF Deactivate, AskJoinable
  <2>2. CASE Join(c)
    BY <1>a, <1>b, <2>2 DEF Join
  <2>3. CASE Centre(c) \/ CentreFails(c)
    BY <1>b, <2>3 DEF Centre, CentreFails, Succeed, Fail
  <2> QED
    BY <1>5, <2>1, <2>2, <2>3 DEF StopSteps
<1>6. ASSUME NEW c \in Commands, Query(c) \/ Blocked(c) \/ Clear(c) \/ SendFlight(c)
      PROVE  Kept
  BY <1>6, <1>b DEF Query, Blocked, Clear, SendFlight, Fail
<1>7. ASSUME NEW t \in Commands, Loop(t)
      PROVE  Kept
  BY <1>7, <1>a DEF Loop, LoopTest, LoopMode, LoopLeaves, LoopAircraft, LoopSend, LoopSendFails,
     commandVars
<1>8. ASSUME NEW e \in Events, Emit(e) \/ Malformed(e) \/ Progress(e)
      PROVE  Kept
  BY <1>8, <1>a, EventSteps
<1>9. ASSUME NEW h \in Handlers, Report(h)
      PROVE  Kept
  BY <1>9, <1>c DEF Report, ReportStatus, ReportResult, Finish, Replied
<1>10. ASSUME Osd \/ UNCHANGED vars
       PROVE  Kept
  <2>1. UNCHANGED <<transId, kind, pc>>
    BY <1>10 DEF Osd, vars, commandVars
  <2>2. QED
    BY <1>a, <2>1
<1>11. ASSUME NEW c \in Commands, Undecodable(c) \/ Command(c) \/ Loop(c)
       PROVE  Kept
  BY <1>1, <1>2, <1>3, <1>4, <1>5, <1>6, <1>7, <1>11 DEF Command
<1>12. Kept
  BY <1>8, <1>9, <1>10, <1>11 DEF Next
<1> QED
  BY <1>12 DEF Kept

(* A command for the stick that comes later takes s_transId.                *)
LEMMA StopAloneKept ==
  ASSUME HandlerTypes, PlaceOfKind, OneHasStick, StopAlone, [Next]_vars
  PROVE  StopAlone'
<1>1. ASSUME NEW c \in Commands, Accept(c)
      PROVE  StopAlone'
  <2>1. transId' = c /\ (pc'[c] \in Replied => kind'[c] = "invalid")
    BY <1>1, FlightAssumption DEF Accept, Called, Goto, HandlerTypes, Handlers, Replied
  <2> QED
    BY <2>1 DEF StopAlone
<1>2. CASE \A c \in Commands : ~Accept(c)
  <2>1. /\ UNCHANGED <<transId, kind>>
        /\ \A d \in Commands : HasStick(d)' => HasStick(d)
        /\ \A d \in Commands : kind[d] = "stop" /\ pc'[d] \in Replied
                               => pc[d] \in Replied \/ HasStick(d)
    BY <1>2, StickSteps
  <2>2. \A d \in Commands : pc'[d] \in Replied => ~HasStick(d)'
    BY DEF HasStick, Replied
  <2> QED
    BY <2>1, <2>2 DEF StopAlone, OneHasStick
<1> QED
  BY <1>1, <1>2

(* Nothing sends a stick after the stop until another command comes.      *)
LEMMA StopInvKept ==
  ASSUME HandlerTypes, MoveTypes, PlaceOfKind, OneThread, StopAlone, StopInv, [Next]_vars
  PROVE  StopInv'
<1>b. \A c \in Commands : kind[c] = "stop" /\ transId = c /\ pc[c] \in Replied =>
        \A d \in Commands :
          /\ pc[d] \notin {"moving", "update", "previous", "params", "spawn", "joining",
                          "joinable", "centre"}
          /\ pc[d] = "called" => kind[d] \notin {"timed", "continuous", "stop"}
  BY DEF StopAlone, HasStick, StickKinds, PlaceOfKind
<1> USE <1>b, FlightAssumption DEF HandlerTypes, MoveTypes, PlaceOfKind, OneThread, StopInv,
        Handlers, Replied, Joinable, Goto, LoopTo, transVars, commandVars, moveVars, aircraftVars,
        At, In
<1>1. ASSUME NEW c \in Commands,
             Accept(c) \/ Undecodable(c) \/ Start(c) \/ RequestReturns(c) \/ Refuse(c)
      PROVE  StopInv'
  <2>1. CASE Accept(c)
    BY <2>1 DEF Accept, Called
  <2>2. CASE Undecodable(c)
    BY <2>2 DEF Undecodable
  <2>3. CASE Start(c)
    BY <2>3 DEF Start
  <2>4. CASE RequestReturns(c)
    BY <2>4 DEF RequestReturns, Succeed, Fail
  <2>5. CASE Refuse(c)
    BY <2>5 DEF Refuse, Fail
  <2>6. QED
    BY <1>1, <2>1, <2>2, <2>3, <2>4, <2>5
<1>2. ASSUME NEW c \in Commands, TimedCycle(c) \/ TimedEnds(c) \/ TimedBreaks(c)
      PROVE  StopInv'
  BY <1>2 DEF TimedCycle, TimedEnds, TimedBreaks, Timed, Succeed, Fail, Timed
<1>3. ASSUME NEW c \in Commands, ContinuousSteps(c)
      PROVE  StopInv'
  <2>1. CASE Compare(c)
    BY <2>1 DEF Compare
  <2>2. CASE UpdateOffset(c)
    BY <2>2 DEF UpdateOffset, Succeed
  <2>3. CASE StopPrevious(c)
    BY <2>3 DEF StopPrevious
  <2>4. CASE NewParams(c)
    BY <2>4 DEF NewParams
  <2>5. CASE Spawn(c)
    BY <2>5 DEF Spawn, Succeed
  <2>6. QED
    BY <1>3, <2>1, <2>2, <2>3, <2>4, <2>5 DEF ContinuousSteps
<1>4. ASSUME NEW c \in Commands, StopSteps(c)
      PROVE  StopInv'
  <2>1. CASE Deactivate(c)
    BY <2>1 DEF Deactivate
  <2>2. CASE AskJoinable(c)
    BY <2>2 DEF AskJoinable
  <2>3. CASE Join(c)
    BY <2>3 DEF Join, JoinThrows
  <2>4. CASE Centre(c)
    BY <2>4 DEF Centre, Succeed
  <2>5. CASE CentreFails(c)
    BY <2>5 DEF CentreFails, Fail
  <2>6. QED
    BY <1>4, <2>1, <2>2, <2>3, <2>4, <2>5 DEF StopSteps
<1>5. ASSUME NEW c \in Commands, Query(c) \/ Blocked(c) \/ Clear(c) \/ SendFlight(c)
      PROVE  StopInv'
  BY <1>5 DEF Query, Blocked, Clear, SendFlight, Fail
<1>6. ASSUME NEW t \in Commands, Loop(t)
      PROVE  StopInv'
  <2>1. CASE LoopTest(t)
    BY <2>1 DEF LoopTest
  <2>2. CASE LoopMode(t)
    BY <2>2 DEF LoopMode
  <2>3. CASE LoopLeaves(t)
    BY <2>3 DEF LoopLeaves
  <2>4. CASE LoopAircraft(t)
    BY <2>4 DEF LoopAircraft
  <2>5. CASE LoopSend(t)
    BY <2>5 DEF LoopSend
  <2>6. CASE LoopSendFails(t)
    BY <2>6 DEF LoopSendFails
  <2>7. QED
    BY <1>6, <2>1, <2>2, <2>3, <2>4, <2>5, <2>6 DEF Loop
<1>7. ASSUME NEW e \in Events, Emit(e) \/ Malformed(e) \/ Progress(e)
      PROVE  StopInv'
  BY <1>7, EventSteps
<1>8. ASSUME NEW h \in Handlers, Report(h)
      PROVE  StopInv'
  BY <1>8 DEF Report, ReportStatus, ReportResult, Finish
<1>9. CASE Osd \/ UNCHANGED vars
  BY <1>9 DEF Osd, vars
<1>10. QED
  BY <1>1, <1>2, <1>3, <1>4, <1>5, <1>6, <1>7, <1>8, <1>9 DEF Next, Command

(* Self-check 2 comes before the stick in each round of the thread.       *)
LEMMA TakeoverInvKept ==
  ASSUME HandlerTypes, MoveTypes, AircraftTypes, OneThread, TakeoverInv, [Next]_vars
  PROVE  TakeoverInv'
<1> USE FlightAssumption DEF HandlerTypes, MoveTypes, AircraftTypes, OneThread, TakeoverInv,
        TakeoverRespected, ManualControl, TakenOver, LoopPlaces, LoopTo,
        moveVars, aircraftVars, In
<1>1. ASSUME NEW c \in Commands,
             Accept(c) \/ Undecodable(c) \/ Start(c) \/ RequestReturns(c) \/ Refuse(c)
      PROVE  TakeoverInv'
  BY <1>1 DEF Accept, Called, Undecodable, Start, RequestReturns, Refuse, Succeed, Fail
<1>2. ASSUME NEW c \in Commands, TimedCycle(c) \/ TimedEnds(c) \/ TimedBreaks(c)
      PROVE  TakeoverInv'
  BY <1>2 DEF TimedCycle, TimedEnds, TimedBreaks, Timed, Succeed, Fail
<1>3. ASSUME NEW c \in Commands, ContinuousSteps(c)
      PROVE  TakeoverInv'
  BY <1>3 DEF ContinuousSteps, Compare, UpdateOffset, StopPrevious, NewParams, Spawn, Succeed
<1>4. ASSUME NEW c \in Commands, StopSteps(c)
      PROVE  TakeoverInv'
  BY <1>4 DEF StopSteps, Deactivate, AskJoinable, Join, Centre, CentreFails, Succeed, Fail
<1>5. ASSUME NEW c \in Commands, Query(c) \/ Blocked(c) \/ Clear(c) \/ SendFlight(c)
      PROVE  TakeoverInv'
  BY <1>5 DEF Query, Blocked, Clear, SendFlight, Fail
<1>6. ASSUME NEW t \in Commands, Loop(t)
      PROVE  TakeoverInv'
  <2>1. CASE LoopTest(t)
    BY <2>1 DEF LoopTest
  <2>2. CASE LoopMode(t)
    BY <2>2 DEF LoopMode
  <2>3. CASE LoopLeaves(t)
    BY <2>3 DEF LoopLeaves
  <2>4. CASE LoopAircraft(t)
    BY <2>4 DEF LoopAircraft
  <2>5. CASE LoopSend(t)
    BY <2>5 DEF LoopSend
  <2>6. CASE LoopSendFails(t)
    BY <2>6 DEF LoopSendFails
  <2>7. QED
    BY <1>6, <2>1, <2>2, <2>3, <2>4, <2>5, <2>6 DEF Loop
<1>7. ASSUME NEW e \in Events, Emit(e) \/ Malformed(e) \/ Progress(e)
      PROVE  TakeoverInv'
  BY <1>7 DEF Emit, Malformed, Progress
<1>8. ASSUME NEW h \in Handlers, Report(h)
      PROVE  TakeoverInv'
  BY <1>8 DEF Report, ReportStatus, ReportResult, Finish
<1>9. CASE Osd \/ UNCHANGED vars
  BY <1>9 DEF Osd, vars
<1>10. QED
  BY <1>1, <1>2, <1>3, <1>4, <1>5, <1>6, <1>7, <1>8, <1>9 DEF Next, Command

(* FlytoController, whatever is handled at once: where the handlers are and*)
(* whose trans_id the reports carry.                                       *)
LEMMA TurnInvariant == Spec => [](TypeInv /\ PlaceOfKind /\ TurnInv)
<1>1. Init => PlaceOfKind /\ TurnInv
  <2> SUFFICES ASSUME Init
               PROVE  PlaceOfKind /\ TurnInv
    OBVIOUS
  <2>1. /\ \A h \in Handlers : pc[h] = "new" /\ ~verdict[h]
        /\ \A c \in Commands : kind[c] = "unread" /\ turn[c] = 0
        /\ transId = None /\ report = [of |-> None, transId |-> None]
    BY DEF Init, Handlers
  <2>2. flown = <<>>
    BY DEF Init
  <2>3. PlaceOfKind
    BY <2>1 DEF PlaceOfKind, Handlers
  <2>4. Len(flown) = 0
    BY <2>2
  <2>5. QED
    BY <2>1, <2>3, <2>4 DEF TurnInv, ReportsNameNoEarlier, Handlers
<1>2. TypeInv /\ PlaceOfKind /\ TurnInv /\ [Next]_vars => (PlaceOfKind /\ TurnInv)'
  BY PlaceOfKindKept, TurnKept DEF TypeInv
<1>3. QED
  BY <1>1, <1>2, TypeInvariant, PTL DEF Spec

(* handleFlightStatus, handleFlightResult: for any commands and any platform*)
(* nothing published for a command, nor for the failure of its flight,     *)
(* carries the trans_id of an earlier command.                             *)
THEOREM ReportsAreNotEarlier == Spec => []ReportsNameNoEarlier
<1>1. TurnInv => ReportsNameNoEarlier
  BY DEF TurnInv
<1>2. QED
  BY <1>1, TurnInvariant, PTL

(* The stick thread, the stop and the takeover, as long as no two commands *)
(* for the stick are in hand at once: three parts, each relying on those   *)
(* before it.                                                              *)
THEOREM MoveInvariant == Spec /\ []OneHasStick => []MoveInv
<1>1. Init => MoveInv
  <2> SUFFICES ASSUME Init
               PROVE  MoveInv
    OBVIOUS
  <2>1. /\ \A h \in Handlers : pc[h] = "new" /\ ~verdict[h]
        /\ \A c \in Commands : loop[c] = "none" /\ kind[c] = "unread"
        /\ thread = None /\ joined = {} /\ entered = {} /\ ~crashed
        /\ transId = None /\ late = 0
    BY DEF Init
  <2>2. OneThread /\ StopAlone /\ StopInv
    BY <2>1, FlightAssumption DEF OneThread, StopAlone, StopInv, Handlers, Replied
  <2>3. TakeoverInv
    BY <2>1 DEF TakeoverInv, TakeoverRespected, TakenOver
  <2>4. QED
    BY <2>2, <2>3 DEF MoveInv
<1>2. TypeInv /\ PlaceOfKind /\ OneHasStick /\ MoveInv /\ [Next]_vars => MoveInv'
  BY OneThreadKept, StopAloneKept, StopInvKept, TakeoverInvKept DEF TypeInv, MoveInv
<1>3. QED
  BY <1>1, <1>2, TurnInvariant, PTL DEF Spec

(* handleContinuousMove and handleStopMove: as long as no two commands for *)
(* the stick are in hand at once, there are never two threads, and join and*)
(* the replacement of the pointer never throw or terminate.                *)
THEOREM NeverTwoThreads == Spec /\ []OneHasStick => []OneStickThread
<1>1. MoveInv => OneStickThread
  <2> SUFFICES ASSUME MoveInv
               PROVE  OneStickThread
    OBVIOUS
  <2> DEFINE Live == {t \in Commands : loop[t] \notin {"none", "ended"}}
  <2>1. Live \subseteq {thread}
    BY DEF MoveInv, OneThread
  <2>2. IsFiniteSet({thread}) /\ Cardinality({thread}) = 1
    BY FS_Singleton
  <2>3. Cardinality(Live) <= 1
    <3> HIDE DEF Live
    <3>1. QED
      BY <2>1, <2>2, FS_Subset
  <2>4. QED
    BY <2>3 DEF OneStickThread, MoveInv, OneThread
<1>2. QED
  BY <1>1, MoveInvariant, PTL

(* handleStopMove: after its success, and until the next command, the      *)
(* aircraft hovers, unless a command for the stick was in hand beside it.  *)
THEOREM StopCentres == Spec /\ []OneHasStick => []StoppedIsCentred
<1>1. PlaceOfKind /\ MoveInv => StoppedIsCentred
  BY DEF PlaceOfKind, MoveInv, StopInv, StoppedIsCentred
<1>2. QED
  BY <1>1, MoveInvariant, TurnInvariant, PTL

(* Self-check 2 of the thread of a continuous move: it sends one stick at  *)
(* most after a takeover, whatever other handlers do to the control mode.  *)
THEOREM TakeoverStopsThread == Spec /\ []OneHasStick => []TakeoverRespected
<1>1. MoveInv => TakeoverRespected
  BY DEF MoveInv, TakeoverInv
<1>2. QED
  BY <1>1, MoveInvariant, PTL

===============================================================================
