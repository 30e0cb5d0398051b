------------------------------ MODULE CameraZoom ------------------------------
(***************************************************************************)
(* CameraController (cloud/payload/cameraController.cpp): the zoom         *)
(* commands of the platform, handled on the command pool of the payload    *)
(* module.  A continuous zoom keeps its pool thread for up to maxIterations*)
(* requests; ZOOM_STOP and the next continuous zoom reach it through       *)
(* m_stopZoom only, and every handler writes m_currentZoomFactor.          *)
(* Zoom factors are in tenths; a step keeps whole tenths.  The request a   *)
(* handler sends and waits for is module RequestContext; here it returns   *)
(* either verdict.                                                         *)
(***************************************************************************)
EXTENDS Naturals, FiniteSets, FiniteSetsExt

CONSTANTS Commands,        \* the commands of a run
          Kind,            \* the handler m_typeHandler gives a command
          Workers,         \* commands that may be in hand at the same time
          OsdFactors,      \* what TrackMain::getZoomFactor may return
          ZoomFactorMin,   \* m_zoomFactorMin
          ZoomFactorMax,   \* m_zoomFactorMax
          WantedFactors,   \* what the gimbal's combined actions ask for
          MaxIterations,   \* maxIterations of continuousZoom
          None

\* The factor below which handleCameraControl refuses to zoom: 1.0.
Unit == 10

\* What m_currentZoomFactor is constructed with: 2.0.
InitialFactor == 20

Continuous == {"inContinue", "outContinue"}
Kinds == {"in", "out", "min", "max", "stop", "specify"} \cup Continuous

ASSUME ZoomAssumption ==
  /\ Kind \in [Commands -> Kinds]
  /\ Workers \in Nat \ {0}
  /\ OsdFactors \subseteq Nat /\ WantedFactors \subseteq Nat
  /\ ZoomFactorMin \in Nat /\ ZoomFactorMax \in Nat
  /\ Unit <= ZoomFactorMin /\ InitialFactor \in ZoomFactorMin .. ZoomFactorMax
  /\ MaxIterations \in Nat \ {0}
  /\ None \notin Commands

VARIABLES pc,          \* where the handler of a command is
          factor,      \* m_currentZoomFactor
          stopZoom,    \* m_stopZoom
          operation,   \* the holder of m_operationMutex
          local,       \* the local of a handler, 0 when not in use: the step of
                       \* cameraZoomIn and cameraZoomOut, the currentZoomFactor
                       \* of the loop
          iterations,  \* the loop's iterations
          answers,     \* results reported for a command
          extra,       \* requests of the loop since m_stopZoom was last set
          disturbed    \* commands in hand when another one wrote the factor

factorVars == <<factor, disturbed>>
loopVars   == <<stopZoom, operation, iterations, extra>>
vars == <<pc, factorVars, loopVars, local, answers>>

Init ==
  /\ pc = [c \in Commands |-> "new"]
  /\ factor = InitialFactor
  /\ stopZoom = FALSE
  /\ operation = None
  /\ local = [c \in Commands |-> 0]
  /\ iterations = 0
  /\ answers = [c \in Commands |-> 0]
  /\ extra = 0
  /\ disturbed = {}

-----------------------------------------------------------------------------
Goto(c, place) == pc' = [pc EXCEPT ![c] = place]

InHand == {c \in Commands : pc[c] \notin {"new", "done"}}

PoolFree == Cardinality(InHand) < Workers

\* A handler writes m_currentZoomFactor, whoever else is at work with it.
Overwrite(c, f) ==
  /\ factor' = f
  /\ disturbed' = (disturbed \cap InHand) \cup (InHand \ {c})

SetLocal(c, value) == local' = [local EXCEPT ![c] = value]

\* handleUavResult.
Report(c) == answers' = [answers EXCEPT ![c] = @ + 1]

\* A step, not below 0.1, within the limits of the camera.
ZoomedIn(from, step)  == Min({from + step, ZoomFactorMax})
ZoomedOut(from, step) == Max({from - Min({from, step}), ZoomFactorMin})

AtLimit(c, f) ==
  \/ Kind[c] \in {"in", "inContinue"} /\ f >= ZoomFactorMax
  \/ Kind[c] \in {"out", "outContinue"} /\ f <= ZoomFactorMin

-----------------------------------------------------------------------------
(* handleCameraControl.                                                    *)

\* A message that does not parse is reported at once.
Garbled(c) ==
  /\ pc[c] = "new" /\ Kind[c] # "specify" /\ PoolFree
  /\ Report(c)
  /\ Goto(c, "done")
  /\ UNCHANGED <<factorVars, local, loopVars>>

\* The factor of the last OSD message is stored, for every command and without
\* a lock.  (The trans_id stored with it is the s_transId of FlightControl, and
\* nothing here depends on it.)
Receive(c) ==
  /\ pc[c] = "new" /\ Kind[c] # "specify" /\ PoolFree
  /\ \E f \in OsdFactors : Overwrite(c, f)
  /\ Goto(c, "received")
  /\ UNCHANGED <<answers, local, loopVars>>

\* MUTANT of CheckFactor: the factor is not looked at.
CheckNothing(c) ==
  /\ pc[c] = "received"
  /\ Goto(c, "called")
  /\ UNCHANGED <<factorVars, answers, local, loopVars>>

\* It is read again: an impossible factor ends the command, and so does an
\* unknown type.
CheckFactor(c) ==
  /\ pc[c] = "received"
  /\ \/ Report(c) /\ Goto(c, "done")
     \/ factor >= Unit /\ Goto(c, "called") /\ UNCHANGED answers
  /\ UNCHANGED <<factorVars, local, loopVars>>

\* specifyZoomFator, called by the gimbal's ANGLE_ZOOM and AIM_ZOOM: any factor.
Specify(c) ==
  /\ pc[c] = "new" /\ Kind[c] = "specify" /\ PoolFree
  /\ \E f \in WantedFactors : Overwrite(c, f)
  /\ Goto(c, "package")
  /\ UNCHANGED <<answers, local, loopVars>>

\* cameraZoomIn and cameraZoomOut read the factor three times: for the limit,
ZoomLimit(c) ==
  /\ pc[c] = "called" /\ Kind[c] \in {"in", "out"}
  /\ IF AtLimit(c, factor) THEN Report(c) /\ Goto(c, "done")
                           ELSE Goto(c, "sizing") /\ UNCHANGED answers
  /\ UNCHANGED <<factorVars, local, loopVars>>

\* for the step, which is a fifth of it,
ZoomSize(c) ==
  /\ pc[c] = "sizing"
  /\ SetLocal(c, Max({1, factor \div 5}))
  /\ Goto(c, "zooming")
  /\ UNCHANGED <<factorVars, answers, loopVars>>

\* and for the new factor.
ZoomOnce(c) ==
  /\ pc[c] = "zooming"
  /\ Overwrite(c, IF Kind[c] = "in" THEN ZoomedIn(factor, local[c])
                                    ELSE ZoomedOut(factor, local[c]))
  /\ SetLocal(c, 0)
  /\ Goto(c, "package")
  /\ UNCHANGED <<answers, loopVars>>

\* cameraZoomMin and cameraZoomMax.
ZoomToLimit(c) ==
  /\ pc[c] = "called" /\ Kind[c] \in {"min", "max"}
  /\ Overwrite(c, IF Kind[c] = "min" THEN ZoomFactorMin ELSE ZoomFactorMax)
  /\ Goto(c, "package")
  /\ UNCHANGED <<answers, local, loopVars>>

\* cameraZoomStop.
ZoomStop(c) ==
  /\ pc[c] = "called" /\ Kind[c] = "stop"
  /\ stopZoom' = TRUE
  /\ extra' = 0
  /\ Report(c)
  /\ Goto(c, "done")
  /\ UNCHANGED <<factorVars, local, operation, iterations>>

-----------------------------------------------------------------------------
(* startZoomOperation and continuousZoom.                                  *)

StartZoomOperation(c) ==
  /\ pc[c] = "called" /\ Kind[c] \in Continuous
  /\ stopZoom' = TRUE
  /\ extra' = 0
  /\ Goto(c, "lock")
  /\ UNCHANGED <<factorVars, local, operation, iterations, answers>>

\* MUTANT of LockOperation: the operation lock is not taken.
LockOperationFree(c) ==
  /\ pc[c] = "lock"
  /\ operation' = c
  /\ Goto(c, "clear")
  /\ UNCHANGED <<factorVars, local, stopZoom, iterations, answers, extra>>

LockOperation(c) ==
  /\ pc[c] = "lock" /\ operation = None
  /\ operation' = c
  /\ Goto(c, "clear")
  /\ UNCHANGED <<factorVars, local, stopZoom, iterations, answers, extra>>

ClearStop(c) ==
  /\ pc[c] = "clear"
  /\ stopZoom' = FALSE
  /\ iterations' = 0
  /\ extra' = 0
  /\ Goto(c, "test")
  /\ UNCHANGED <<factorVars, local, operation, answers>>

\* The loop ends, with its locals, and the lock is released.
EndLoop(c) == Goto(c, "done") /\ operation' = None /\ iterations' = 0 /\ extra' = 0

\* It goes on.
InLoop(c, place) == Goto(c, place) /\ UNCHANGED <<operation, iterations, extra>>

\* MUTANT of LoopTest: only the time is looked at.
LoopTestTimeOnly(c) ==
  /\ pc[c] = "test"
  /\ \/ iterations > 0 /\ EndLoop(c)
     \/ InLoop(c, "bound")
  /\ UNCHANGED <<factorVars, local, stopZoom, answers>>

\* The stop flag, or the five seconds, which have not passed at the start.
LoopTest(c) ==
  /\ pc[c] = "test"
  /\ \/ (stopZoom \/ iterations > 0) /\ EndLoop(c)
     \/ ~stopZoom /\ InLoop(c, "bound")
  /\ UNCHANGED <<factorVars, local, stopZoom, answers>>

\* What the factor is set to when the loop finds it at the limit.
LimitOf(c) == IF Kind[c] = "inContinue" THEN ZoomFactorMax ELSE ZoomFactorMin

\* MUTANT of LoopBound: the limit is set again and again.
LoopBoundStays(c) ==
  /\ pc[c] = "bound"
  /\ IF AtLimit(c, factor)
       THEN Overwrite(c, LimitOf(c)) /\ Goto(c, "test") /\ UNCHANGED local
       ELSE Goto(c, "step") /\ SetLocal(c, factor) /\ UNCHANGED factorVars
  /\ UNCHANGED <<loopVars, answers>>

\* MUTANT of LoopBound: the limit is reported as often as it is met.
LoopBoundReports(c) ==
  /\ pc[c] = "bound"
  /\ IF AtLimit(c, factor)
       THEN Report(c) /\ Goto(c, "test") /\ UNCHANGED <<local, factorVars>>
       ELSE Goto(c, "step") /\ SetLocal(c, factor) /\ UNCHANGED <<answers, factorVars>>
  /\ UNCHANGED loopVars

\* At the limit the loop reports a failure and ends.
LoopBound(c) ==
  /\ pc[c] = "bound"
  /\ IF AtLimit(c, factor)
       THEN Report(c) /\ Overwrite(c, LimitOf(c)) /\ EndLoop(c) /\ UNCHANGED local
       ELSE InLoop(c, "step") /\ SetLocal(c, factor) /\ UNCHANGED <<answers, factorVars>>
  /\ UNCHANGED stopZoom

\* A tenth of the factor that was read.
LoopStep(c) ==
  /\ pc[c] = "step"
  /\ LET step == Max({1, local[c] \div 10}) IN
       Overwrite(c, IF Kind[c] = "inContinue" THEN ZoomedIn(local[c], step)
                                             ELSE ZoomedOut(local[c], step))
  /\ SetLocal(c, 0)
  /\ Goto(c, "package")
  /\ UNCHANGED <<loopVars, answers>>

-----------------------------------------------------------------------------
(* commonZoomDataPackage and sendRequest, of all the handlers.             *)

\* The factor is read again when the message is built.
Package(c) ==
  /\ pc[c] = "package"
  /\ extra' = IF Kind[c] \in Continuous /\ stopZoom /\ extra < 2 THEN extra + 1 ELSE extra
  /\ Goto(c, "waiting")
  /\ UNCHANGED <<factorVars, local, stopZoom, operation, iterations, answers>>

\* The request returned: a single zoom reports it and is done.
Returned(c) ==
  /\ pc[c] = "waiting" /\ Kind[c] \notin Continuous
  /\ Report(c)
  /\ Goto(c, "done")
  /\ UNCHANGED <<factorVars, local, loopVars>>

\* The loop reports its first request only; it ends at the first failure and
\* after maxIterations requests.
LoopReturned(c) ==
  /\ pc[c] = "waiting" /\ Kind[c] \in Continuous
  /\ IF iterations = 0 THEN Report(c) ELSE UNCHANGED answers
  /\ \/ EndLoop(c)
     \/ /\ iterations + 1 < MaxIterations
        /\ iterations' = iterations + 1
        /\ Goto(c, "test") /\ UNCHANGED <<operation, extra>>
  /\ UNCHANGED <<factorVars, local, stopZoom>>

-----------------------------------------------------------------------------
Step(c) ==
  \/ CheckFactor(c)
  \/ ZoomLimit(c) \/ ZoomSize(c) \/ ZoomOnce(c) \/ ZoomToLimit(c) \/ ZoomStop(c)
  \/ StartZoomOperation(c) \/ LockOperation(c) \/ ClearStop(c)
  \/ LoopTest(c) \/ LoopBound(c) \/ LoopStep(c)
  \/ Package(c) \/ Returned(c) \/ LoopReturned(c)

\* No command is in hand, and the platform asks for no more.
AllDone == InHand = {} /\ UNCHANGED vars

Next ==
  \/ \E c \in Commands : Garbled(c) \/ Receive(c) \/ Specify(c) \/ Step(c)
  \/ AllDone

Spec == Init /\ [][Next]_vars

-----------------------------------------------------------------------------
Places == {"new", "received", "called", "sizing", "zooming", "lock", "clear", "test",
           "bound", "step", "package", "waiting", "done"}

\* Types; a handler reports at most twice.
TypeOK ==
  /\ pc \in [Commands -> Places]
  /\ factor \in Nat /\ local \in [Commands -> Nat]
  /\ stopZoom \in BOOLEAN
  /\ operation \in Commands \cup {None}
  /\ iterations \in 0 .. MaxIterations
  /\ answers \in [Commands -> 0 .. 2]
  /\ extra \in 0 .. 2
  /\ disturbed \subseteq Commands

\* m_operationMutex: the handler inside continuousZoom is the one that holds
\* the lock, so there is never more than one.
OneZoomAtATime ==
  \A c \in Commands :
    operation = c <=> /\ Kind[c] \in Continuous
                      /\ pc[c] \in {"clear", "test", "bound", "step", "package", "waiting"}

\* A running zoom that is told to stop, by ZOOM_STOP or by the next continuous
\* zoom, sends at most the one request it had already decided on.
StopIsPrompt == extra <= 1

\* handleCameraControl refuses to zoom from a factor below 1.0, and the steps
\* and limits of the zooms never lead there, nor out of the camera's range: a
\* request of a command carries such a factor only if another command has
\* written the factor meanwhile.  (specifyZoomFator sends what it is asked for.)
SentFactorIsValid ==
  \A c \in Commands :
    pc[c] = "package" /\ c \notin disturbed /\ Kind[c] # "specify" =>
      /\ factor >= Unit
      /\ Kind[c] \in {"in", "max", "inContinue"} => factor <= ZoomFactorMax
      /\ Kind[c] \in {"out", "min", "outContinue"} => factor >= ZoomFactorMin
=============================================================================
