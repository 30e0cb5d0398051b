---------------------------- MODULE FlightControl ----------------------------
(***************************************************************************)
(* FlytoController (cloud/flyto/flytoController.cpp): the commands of the  *)
(* platform and the fly-to progress events of the aircraft, handled on the *)
(* threads of the flyto pool, together with the thread that repeats the    *)
(* stick of a continuous move.  All of them share, mostly without a lock,  *)
(*   - s_uavControlMode and s_transId of common/if/pl_utils.cpp,           *)
(*   - m_continuousParams and m_continuousMoveThread,                      *)
(*   - the cached fly-to status (under m_flytoStatusMutex),                *)
(*   - the aircraft, which obeys the last stick it was sent.               *)
(* An action is one access to that shared state.  The request a handler    *)
(* sends and waits for is module RequestContext; here it returns either    *)
(* verdict.  What a stick moves is the name of the command that asked.     *)
(***************************************************************************)
EXTENDS Naturals, Sequences, SequencesExt, FiniteSets

CONSTANTS Commands,   \* the commands of a run; also their trans_id, the
                      \* fly_to_id they choose and the thread they start
          Kinds,      \* the handlers of m_actionHandlerMap a run calls, and
                      \* the messages that reach none
          Direction,  \* the direction a continuous command asks for
          Workers,    \* FLYTO_THREAD_COUNT
          UavModes,   \* the classes of mode_code the aircraft of a run reports
          Outcomes,   \* the statuses of the progress events of a run
          Patient,    \* one command for the stick is sent at a time
          None

AllKinds == {"undecodable", "invalid", "takeoff", "request", "timed",
             "continuous", "stop", "flytoPoint"}

\* The commands that are carried out with stick_control.
StickKinds == {"timed", "continuous", "stop"}

\* The fly_to_point_progress events the aircraft may send, one of each.
Events == [id : Commands, status : Outcomes]

Handlers == Commands \cup Events

ASSUME FlightAssumption ==
  /\ Kinds \subseteq AllKinds
  /\ Commands \subseteq DOMAIN Direction
  /\ Workers \in Nat \ {0}
  /\ UavModes \subseteq {"manual", "avoid", "command", "other"}
  /\ Outcomes \subseteq {"wayline_progress", "wayline_ok", "wayline_failed"}
  /\ Patient \in BOOLEAN
  /\ None \notin Handlers
  /\ Commands \cap Events = {}

VARIABLES pc,          \* where the handler of a command or event is
          verdict,     \* its ret
          kind,        \* which handler its action asked for, once it is read
          mode,        \* s_uavControlMode
          transId,     \* s_transId
          turn,        \* when a command's trans_id was taken, 0 before
          params,      \* m_continuousParams, by the command that made it
          active,      \* the parameter blocks whose active flag is set
          offset,      \* the stick in a parameter block
          thread,      \* m_continuousMoveThread
          joined,      \* the threads that were joined
          loop,        \* where a continuous-move thread is
          entered,     \* its enteredManual
          crashed,     \* std::terminate was called
          stick,       \* the last stick_control sent, None when centred
          uavMode,     \* TrackMain's mode_code
          flyto,       \* m_lastSentFlyToId and m_lastFlytoStatus
          inProgress,  \* handleFlytoPoint's flytoInProgress
          flown,       \* the fly_to_id of every fly_to_point sent, in order
          report,      \* the last status or result message: the command it is about
                       \* and the trans_id it carries
          late         \* sticks a thread sent since the aircraft was taken over

transVars   == <<transId, turn>>
commandVars == <<pc, verdict, kind, transVars, report>>
moveVars    == <<params, active, offset, thread, joined, loop, entered, crashed>>
flightVars  == <<flyto, inProgress, flown>>
aircraftVars == <<stick, uavMode, late>>
vars == <<commandVars, mode, moveVars, flightVars, aircraftVars>>

Init ==
  /\ pc = [h \in Handlers |-> "new"]
  /\ verdict = [h \in Handlers |-> FALSE]
  /\ kind = [c \in Commands |-> "unread"]
  /\ mode = "IDLE"
  /\ transId = None /\ turn = [c \in Commands |-> 0]
  /\ params = None
  /\ active = {}
  /\ offset = [c \in Commands |-> None]
  /\ thread = None
  /\ joined = {}
  /\ loop = [c \in Commands |-> "none"]
  /\ entered = {}
  /\ crashed = FALSE
  /\ stick = None
  /\ uavMode \in UavModes
  /\ flyto = [id |-> None, status |-> ""]
  /\ inProgress = {}
  /\ flown = <<>>
  /\ report = [of |-> None, transId |-> None]
  /\ late = 0

-----------------------------------------------------------------------------
(* Steps every handler is made of.                                         *)

At(h, place) == ~crashed /\ pc[h] = place

Goto(h, place) == pc' = [pc EXCEPT ![h] = place]

Running == {h \in Handlers : pc[h] \notin {"new", "arriving", "done"}}

\* A thread of the pool is free.
PoolFree == Cardinality(Running) < Workers

\* A command for the stick, from its trans_id to its report.
HasStick(c) ==
  kind[c] \in StickKinds /\ pc[c] \notin {"new", "status", "result", "finish", "done"}

\* sendResult(..., true, ...): only the report is left to do.
Succeed(h) ==
  /\ Goto(h, "status")
  /\ verdict' = [verdict EXCEPT ![h] = TRUE]
  /\ UNCHANGED mode

\* sendResult(..., false, ...): the control mode is dropped first.
Fail(h) ==
  /\ Goto(h, "status")
  /\ verdict' = [verdict EXCEPT ![h] = FALSE]
  /\ mode' = "IDLE"

\* What a report is about: its command, or the command that began the flight.
Subject(h) == IF h \in Events THEN h.id ELSE h

\* handleFlightStatus: the status message takes the s_transId of this moment.
ReportStatus(h) ==
  /\ At(h, "status")
  /\ report' = [of |-> Subject(h), transId |-> transId]
  /\ Goto(h, "result")
  /\ UNCHANGED <<verdict, kind, transVars, mode, moveVars, flightVars, aircraftVars>>

\* The handlers that drop the control mode after they have reported.
DropsMode(h) ==
  \/ h \in Events
  \/ kind[h] = "request"
  \/ kind[h] = "timed" /\ verdict[h]

\* handleFlightResult, with the s_transId of its own moment.
ReportResult(h) ==
  /\ At(h, "result")
  /\ report' = [of |-> Subject(h), transId |-> transId]
  /\ Goto(h, IF DropsMode(h) THEN "finish" ELSE "done")
  /\ UNCHANGED <<verdict, kind, transVars, mode, moveVars, flightVars, aircraftVars>>

Finish(h) ==
  /\ At(h, "finish")
  /\ mode' = "IDLE"
  /\ Goto(h, "done")
  /\ UNCHANGED <<verdict, kind, transVars, report, moveVars, flightVars, aircraftVars>>

-----------------------------------------------------------------------------
(* handleFlightControl.                                                    *)

\* A message json_to_proto refuses has no trans_id: it is reported with the
\* s_transId there is.
Undecodable(c) ==
  /\ At(c, "new") /\ PoolFree /\ "undecodable" \in Kinds
  /\ Goto(c, "status")
  /\ UNCHANGED <<verdict, kind, transVars, report, mode, moveVars, flightVars,
                 aircraftVars>>

\* The handler of an action, and when its trans_id is taken.  A patient platform
\* has the result of the last command for the stick before it sends the next.
Called(c) ==
  /\ \E k \in Kinds \ {"undecodable"} :
       /\ Patient /\ k \in StickKinds =>
            \A d \in Commands : kind[d] \in StickKinds => pc[d] \in {"finish", "done"}
       /\ kind' = [kind EXCEPT ![c] = k]
       /\ Goto(c, IF k = "invalid" THEN "status" ELSE "accepted")
  /\ turn' = [turn EXCEPT ![c] = IF transId = None THEN 1 ELSE turn[transId] + 1]

\* MUTANT of Accept: the trans_id is taken when the action is known to be valid.
AcceptValid(c) ==
  /\ At(c, "new") /\ PoolFree
  /\ Called(c)
  /\ transId' = IF kind'[c] = "invalid" THEN transId ELSE c
  /\ UNCHANGED <<verdict, report, mode, moveVars, flightVars, aircraftVars>>

\* updateTransId; an unknown action is reported at once.
Accept(c) ==
  /\ At(c, "new") /\ PoolFree
  /\ Called(c)
  /\ transId' = c
  /\ UNCHANGED <<verdict, report, mode, moveVars, flightVars, aircraftVars>>

\* The control mode is taken and the handler called.
Start(c) ==
  /\ At(c, "accepted")
  /\ mode' = "FLYTO_MODE"
  /\ Goto(c, "called")
  /\ UNCHANGED <<verdict, kind, transVars, report, moveVars, flightVars, aircraftVars>>

\* handleTakeoff, handleGohome, handleFlytoPointStop, handleReturnHomeCancel,
\* and the end of handleFlytoPoint: sendRequestAndWait returns.
RequestReturns(c) ==
  /\ \/ At(c, "called") /\ kind[c] \in {"takeoff", "request"}
     \/ At(c, "waiting")
  /\ Succeed(c) \/ Fail(c)
  /\ UNCHANGED <<kind, transVars, report, moveVars, flightVars, aircraftVars>>

\* The early returns of the stick handlers: no DRC link, a parameter that does
\* not convert or is out of range.
Refuse(c) ==
  /\ At(c, "called") /\ kind[c] \in {"timed", "continuous"}
  /\ Fail(c)
  /\ UNCHANGED <<kind, transVars, report, moveVars, flightVars, aircraftVars>>

-----------------------------------------------------------------------------
(* handleMove and handleTurn: executeTimedControl.                         *)

Timed(c) == kind[c] = "timed" /\ (At(c, "called") \/ At(c, "moving"))

\* One cycle: the stick is sent, then the thread sleeps.
TimedCycle(c) ==
  /\ Timed(c)
  /\ stick' = c
  /\ Goto(c, "moving")
  /\ UNCHANGED <<verdict, kind, transVars, report, mode, moveVars, flightVars, uavMode,
                 late>>

\* The stick is centred after the last cycle.
TimedEnds(c) ==
  /\ Timed(c)
  /\ stick' = None
  /\ Succeed(c)
  /\ UNCHANGED <<kind, transVars, report, moveVars, flightVars, uavMode, late>>

\* A stick that cannot be encoded ends the move where it is.
TimedBreaks(c) ==
  /\ Timed(c)
  /\ Fail(c)
  /\ UNCHANGED <<kind, transVars, report, moveVars, flightVars, aircraftVars>>

-----------------------------------------------------------------------------
(* handleContinuousMove.                                                   *)

Joinable == thread # None /\ thread \notin joined

\* A move in the direction that is already flown only changes the stick.
Compare(c) ==
  /\ At(c, "called") /\ kind[c] = "continuous"
  /\ Goto(c, IF params \in active /\ Direction[params] = Direction[c]
             THEN "update" ELSE "previous")
  /\ UNCHANGED <<verdict, kind, transVars, report, mode, moveVars, flightVars,
                 aircraftVars>>

UpdateOffset(c) ==
  /\ At(c, "update")
  /\ offset' = [offset EXCEPT ![params] = c]
  /\ Succeed(c)
  /\ UNCHANGED <<kind, transVars, report, params, active, thread, joined, loop, entered,
                 crashed, flightVars, aircraftVars>>

\* MUTANT of StopPrevious: a thread that has stopped by itself is not joined.
StopPreviousIfActive(c) ==
  /\ At(c, "previous")
  /\ IF Joinable /\ params \in active
       THEN active' = active \ {params} /\ Goto(c, "joining")
       ELSE Goto(c, "params") /\ UNCHANGED active
  /\ UNCHANGED <<verdict, kind, transVars, report, mode, params, offset, thread, joined,
                 loop, entered, crashed, flightVars, aircraftVars>>

\* The thread of an earlier move is told to stop.
StopPrevious(c) ==
  /\ At(c, "previous")
  /\ IF Joinable
       THEN active' = active \ {params} /\ Goto(c, "joining")
       ELSE Goto(c, "params") /\ UNCHANGED active
  /\ UNCHANGED <<verdict, kind, transVars, report, mode, params, offset, thread, joined,
                 loop, entered, crashed, flightVars, aircraftVars>>

NewParams(c) ==
  /\ At(c, "params")
  /\ params' = c
  /\ offset' = [offset EXCEPT ![c] = c]
  /\ active' = active \cup {c}
  /\ Goto(c, "spawn")
  /\ UNCHANGED <<verdict, kind, transVars, report, mode, thread, joined, loop, entered,
                 crashed, flightVars, aircraftVars>>

\* The new thread runs before the pointer is replaced; replacing a pointer to
\* a thread nobody joined calls std::terminate.
Spawn(c) ==
  /\ At(c, "spawn")
  /\ loop' = [loop EXCEPT ![c] = "test"]
  /\ thread' = c
  /\ crashed' = Joinable
  /\ Succeed(c)
  /\ UNCHANGED <<kind, transVars, report, params, active, offset, joined, entered,
                 flightVars, aircraftVars>>

-----------------------------------------------------------------------------
(* handleStopMove, and the join it shares with handleContinuousMove.       *)

Deactivate(c) ==
  /\ At(c, "called") /\ kind[c] = "stop"
  /\ active' = active \ {params}
  /\ Goto(c, "joinable")
  /\ UNCHANGED <<verdict, kind, transVars, report, mode, params, offset, thread, joined,
                 loop, entered, crashed, flightVars, aircraftVars>>

\* MUTANT of AskJoinable: the stick is centred without waiting for the thread.
AskNothing(c) ==
  /\ At(c, "joinable")
  /\ Goto(c, "centre")
  /\ UNCHANGED <<verdict, kind, transVars, report, mode, moveVars, flightVars,
                 aircraftVars>>

AskJoinable(c) ==
  /\ At(c, "joinable")
  /\ Goto(c, IF Joinable THEN "joining" ELSE "centre")
  /\ UNCHANGED <<verdict, kind, transVars, report, mode, moveVars, flightVars,
                 aircraftVars>>

\* std::thread::join throws when the thread is not joinable any more or when
\* somebody else is joining it; nothing catches it.
JoinThrows(c) == ~Joinable \/ \E d \in Commands \ {c} : pc[d] = "joining"

\* The call of join throws, or it returns when the thread has ended.  Then a
\* continuous move centres the stick before it goes on, and ignores that the
\* stick could not be sent.
Join(c) ==
  /\ At(c, "joining")
  /\ crashed' \in {FALSE, JoinThrows(c)}
  /\ IF crashed' THEN UNCHANGED <<pc, joined, stick>>
     ELSE /\ Joinable /\ loop[thread] = "ended"
          /\ joined' = joined \cup {thread}
          /\ IF kind[c] = "stop" THEN Goto(c, "centre") /\ UNCHANGED stick
                                ELSE Goto(c, "params") /\ stick' \in {None, stick}
  /\ UNCHANGED <<verdict, kind, transVars, report, mode, params, active, offset, thread,
                 loop, entered, flightVars, uavMode, late>>

Centre(c) ==
  /\ At(c, "centre")
  /\ stick' = None
  /\ Succeed(c)
  /\ UNCHANGED <<kind, transVars, report, moveVars, flightVars, uavMode, late>>

CentreFails(c) ==
  /\ At(c, "centre")
  /\ Fail(c)
  /\ UNCHANGED <<kind, transVars, report, moveVars, flightVars, aircraftVars>>

-----------------------------------------------------------------------------
(* The thread of a continuous move.  It reads m_continuousParams anew at   *)
(* every access.                                                           *)

In(t, place) == ~crashed /\ loop[t] = place

LoopTo(t, place) == loop' = [loop EXCEPT ![t] = place]

\* MUTANT of LoopTest: the loop runs until the control mode is given up.
LoopTestForever(t) ==
  /\ In(t, "test")
  /\ LoopTo(t, "mode")
  /\ UNCHANGED <<commandVars, mode, params, active, offset, thread, joined,
                 entered, crashed, flightVars, aircraftVars>>

LoopTest(t) ==
  /\ In(t, "test")
  /\ LoopTo(t, IF params \in active THEN "mode" ELSE "ended")
  /\ UNCHANGED <<commandVars, mode, params, active, offset, thread, joined,
                 entered, crashed, flightVars, aircraftVars>>

\* Self-check 1: the control mode has been given up.
LoopMode(t) ==
  /\ In(t, "mode")
  /\ LoopTo(t, IF mode = "FLYTO_MODE" THEN "aircraft" ELSE "leaving")
  /\ UNCHANGED <<commandVars, mode, params, active, offset, thread, joined,
                 entered, crashed, flightVars, aircraftVars>>

LoopLeaves(t) ==
  /\ In(t, "leaving")
  /\ active' = active \ {params}
  /\ LoopTo(t, "ended")
  /\ UNCHANGED <<commandVars, mode, params, offset, thread, joined, entered,
                 crashed, flightVars, aircraftVars>>

ManualControl == uavMode \in {"manual", "avoid"}

TakenOver(t) == t \in entered /\ ~ManualControl

\* MUTANT of LoopAircraft: self-check 2 is left out.
LoopAircraftBlind(t) ==
  /\ In(t, "aircraft")
  /\ entered' = IF uavMode = "manual" THEN entered \cup {t} ELSE entered
  /\ LoopTo(t, "send")
  /\ UNCHANGED <<commandVars, mode, params, active, offset, thread, joined, crashed,
                 flightVars, aircraftVars>>

\* Self-check 2: the aircraft has left the manual flight it had entered.
LoopAircraft(t) ==
  /\ In(t, "aircraft")
  /\ entered' = IF uavMode = "manual" THEN entered \cup {t} ELSE entered
  /\ IF TakenOver(t)
       THEN /\ active' = active \ {params}
            /\ mode' = "IDLE"
            /\ LoopTo(t, "ended")
       ELSE LoopTo(t, "send") /\ UNCHANGED <<active, mode>>
  /\ UNCHANGED <<commandVars, params, offset, thread, joined, crashed, flightVars,
                 aircraftVars>>

LoopSend(t) ==
  /\ In(t, "send")
  /\ stick' = offset[params]
  /\ late' = IF TakenOver(t) /\ late < 2 THEN late + 1 ELSE late
  /\ LoopTo(t, "test")
  /\ UNCHANGED <<commandVars, mode, params, active, offset, thread, joined,
                 entered, crashed, flightVars, uavMode>>

LoopSendFails(t) ==
  /\ In(t, "send")
  /\ active' = active \ {params}
  /\ LoopTo(t, "ended")
  /\ UNCHANGED <<commandVars, mode, params, offset, thread, joined, entered,
                 crashed, flightVars, aircraftVars>>

-----------------------------------------------------------------------------
(* handleFlytoPoint and handleFlytoProgress.                               *)

\* MUTANT of Query: a status that is out of date is replaced by the aircraft's mode.
QueryKeepsMode(c) ==
  /\ At(c, "called") /\ kind[c] = "flytoPoint"
  /\ IF flyto.status # "wayline_progress" THEN UNCHANGED <<flyto, inProgress>>
     ELSE IF uavMode = "command"
       THEN inProgress' = inProgress \cup {c} /\ UNCHANGED flyto
       ELSE flyto' = [flyto EXCEPT !.status = uavMode] /\ UNCHANGED inProgress
  /\ Goto(c, "queried")
  /\ UNCHANGED <<verdict, kind, transVars, report, mode, moveVars, flown, aircraftVars>>

\* The cached status, corrected by the mode the aircraft is in.
Query(c) ==
  /\ At(c, "called") /\ kind[c] = "flytoPoint"
  /\ IF flyto.status # "wayline_progress" THEN UNCHANGED <<flyto, inProgress>>
     ELSE IF uavMode = "command"
       THEN inProgress' = inProgress \cup {c} /\ UNCHANGED flyto
       ELSE flyto' = [flyto EXCEPT !.status = "ok"] /\ UNCHANGED inProgress
  /\ Goto(c, "queried")
  /\ UNCHANGED <<verdict, kind, transVars, report, mode, moveVars, flown, aircraftVars>>

\* The coordinates are invalid, or the way is blocked.
Blocked(c) ==
  /\ At(c, "queried")
  /\ Fail(c)
  /\ UNCHANGED <<kind, transVars, report, moveVars, flightVars, aircraftVars>>

\* A new flight records its fly_to_id before it is sent; an update keeps it.
Clear(c) ==
  /\ At(c, "queried")
  /\ flyto' = IF c \in inProgress THEN flyto ELSE [id |-> c, status |-> "sent"]
  /\ Goto(c, "sending")
  /\ UNCHANGED <<verdict, kind, transVars, report, mode, moveVars, inProgress, flown,
                 aircraftVars>>

SendFlight(c) ==
  /\ At(c, "sending")
  /\ flown' = IF c \in inProgress THEN flown ELSE Append(flown, c)
  /\ Goto(c, "waiting")
  /\ UNCHANGED <<verdict, kind, transVars, report, mode, moveVars, flyto, inProgress,
                 aircraftVars>>

\* The aircraft: a flight it was sent on makes progress and has one end.
Emit(e) ==
  /\ At(e, "new") /\ Contains(flown, e.id)
  /\ e.status # "wayline_progress" =>
       \A s \in Outcomes \ {e.status} :
          pc[[e EXCEPT !.status = s]] = "new" <=> s # "wayline_progress"
  /\ Goto(e, "arriving")
  /\ UNCHANGED <<verdict, kind, transVars, report, mode, moveVars, flightVars,
                 aircraftVars>>

\* An event without data is dropped.
Malformed(e) ==
  /\ At(e, "arriving") /\ PoolFree
  /\ Goto(e, "done")
  /\ UNCHANGED <<verdict, kind, transVars, report, mode, moveVars, flightVars,
                 aircraftVars>>

\* Any other is cached whichever flight it is about, under the id of the last one
\* when it has none, and with an empty status when it has none; wayline_failed,
\* and any other status with a result that is not 0, is reported as a failure.
Progress(e) ==
  /\ At(e, "arriving") /\ PoolFree
  /\ \E i \in {e.id, flyto.id}, s \in {e.status, ""} :
       /\ flyto' = [id |-> i, status |-> s]
       /\ \/ Goto(e, "status")
          \/ s # "wayline_failed" /\ Goto(e, "done")
  /\ UNCHANGED <<verdict, kind, transVars, report, mode, moveVars, inProgress, flown,
                 aircraftVars>>

\* TrackMain stores the mode_code of the next OSD message.
Osd ==
  /\ ~crashed
  /\ uavMode' \in UavModes \ {uavMode}
  /\ late' = IF uavMode' \in {"manual", "avoid"} THEN 0 ELSE late
  /\ UNCHANGED <<commandVars, mode, moveVars, flightVars, stick>>

-----------------------------------------------------------------------------
Report(h) == ReportStatus(h) \/ ReportResult(h) \/ Finish(h)

ContinuousSteps(c) ==
  \/ Compare(c) \/ UpdateOffset(c) \/ StopPrevious(c) \/ NewParams(c) \/ Spawn(c)

StopSteps(c) ==
  \/ Deactivate(c) \/ AskJoinable(c) \/ Join(c)
  \/ Centre(c) \/ CentreFails(c)

Command(c) ==
  \/ Start(c) \/ RequestReturns(c) \/ Refuse(c)
  \/ TimedCycle(c) \/ TimedEnds(c) \/ TimedBreaks(c)
  \/ ContinuousSteps(c) \/ StopSteps(c)
  \/ Query(c) \/ Blocked(c) \/ Clear(c) \/ SendFlight(c)

Loop(t) ==
  \/ LoopTest(t) \/ LoopMode(t) \/ LoopLeaves(t) \/ LoopAircraft(t)
  \/ LoopSend(t) \/ LoopSendFails(t)

Next ==
  \/ \E c \in Commands : Accept(c) \/ Undecodable(c) \/ Command(c) \/ Loop(c)
  \/ \E e \in Events : Emit(e) \/ Malformed(e) \/ Progress(e)
  \/ \E h \in Handlers : Report(h)
  \/ Osd

Spec == Init /\ [][Next]_vars

\* Every thread of the process is scheduled again, and requests time out.
\* A timed move has a number of cycles fixed at its start.
FairSpec ==
  /\ Spec
  /\ \A c \in Commands : /\ WF_vars(Command(c))
                         /\ WF_vars(TimedEnds(c) \/ TimedBreaks(c))
                         /\ WF_vars(Loop(c))
                         /\ WF_vars(Report(c))

-----------------------------------------------------------------------------
Places == {"new", "arriving", "accepted", "called", "moving", "update", "previous",
           "joining", "params", "spawn", "joinable", "centre", "queried", "sending",
           "waiting", "status", "result", "finish", "done"}

LoopPlaces == {"none", "test", "mode", "leaving", "aircraft", "send", "ended"}

\* Types.
TypeOK ==
  /\ pc \in [Handlers -> Places]
  /\ verdict \in [Handlers -> BOOLEAN]
  /\ kind \in [Commands -> Kinds \cup {"unread"}]
  /\ mode \in {"IDLE", "FLYTO_MODE"}
  /\ transId \in Commands \cup {None} /\ turn \in [Commands -> Nat]
  /\ report \in [of : Commands \cup {None}, transId : Commands \cup {None}]
  /\ params \in Commands \cup {None}
  /\ active \subseteq Commands
  /\ offset \in [Commands -> Commands \cup {None}]
  /\ thread \in Commands \cup {None}
  /\ joined \subseteq Commands
  /\ loop \in [Commands -> LoopPlaces]
  /\ entered \subseteq Commands
  /\ crashed \in BOOLEAN
  /\ stick \in Commands \cup {None}
  /\ uavMode \in UavModes
  /\ flyto.id \in Commands \cup {None}
  /\ flyto.status \in Outcomes \cup {"", "sent", "ok"}
  /\ inProgress \subseteq Commands
  /\ flown \in Seq(Commands)
  /\ late \in 0 .. 2

\* s_transId is one variable for all the handlers that run, and a report may
\* name a later command than the one it is about; but nothing that is published
\* for a command, nor for the failure of its flight, names an earlier one, which
\* the platform has long had its result of.
ReportsNameNoEarlier ==
  report.of # None /\ turn[report.of] > 0 =>
    report.transId # None /\ turn[report.of] <= turn[report.transId]

\* No two commands for the stick are in hand at once.
OneHasStick == \A c, d \in Commands : HasStick(c) /\ HasStick(d) => c = d

\* handleContinuousMove stops the previous thread before it starts one: there
\* are never two threads sending sticks, and no joinable thread is destroyed.
OneStickThread ==
  /\ ~crashed
  /\ Cardinality({t \in Commands : loop[t] \notin {"none", "ended"}}) <= 1

\* Once handleStopMove has succeeded, and no command came after it, the last
\* stick the aircraft was sent is the centred one.
StoppedIsCentred ==
  \A c \in Commands :
    kind[c] = "stop" /\ transId = c /\ verdict[c] => stick = None

\* Self-check 2 of the thread: after the aircraft has been taken over, at most
\* the one stick that was already decided on is sent.
TakeoverRespected == late <= 1

\* Every command that was accepted is answered, and in the end none is in hand:
\* the join of handleStopMove and handleContinuousMove ends because the thread
\* sees that it is to stop.
EveryCommandAnswered ==
  <>[](\A c \in Commands : pc[c] \in {"new", "done"})
=============================================================================
