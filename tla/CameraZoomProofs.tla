--------------------------- MODULE CameraZoomProofs ---------------------------
(***************************************************************************)
(* For every set of commands and every pool size: the continuous zooms of  *)
(* the camera exclude one another (m_operationMutex), also beside the      *)
(* gimbal on the same pool; a zoom that is told to stop does so after one  *)
(* more request, no request carries an impossible factor unless another    *)
(* command has written it, and a combined command zooms only after all of  *)
(* its turn.                                                               *)
(***************************************************************************)
EXTENDS Gimbal, TLAPS

(* What the handlers of continuous zooms have to themselves, and who holds *)
(* the operation lock.                                                     *)
LockInv ==
  /\ pc \in [Commands -> Places]
  /\ operation \in Commands \cup {None}
  /\ \A c \in Commands : pc[c] \in {"lock", "clear", "test", "bound", "step"}
                           => Kind[c] \in Continuous
  /\ \A c \in Commands : pc[c] \in {"sizing", "zooming"} => Kind[c] \in {"in", "out"}
  /\ OneZoomAtATime

(* startZoomOperation and continuousZoom: taking the lock, moving on inside *)
(* the loop and leaving it keep the lock and the loop together.             *)
LEMMA LoopKeepsLockInv ==
  ASSUME LockInv, NEW c \in Commands,
         \/ StartZoomOperation(c) \/ LockOperation(c) \/ ClearStop(c)
         \/ LoopTest(c) \/ LoopBound(c) \/ LoopStep(c) \/ LoopReturned(c)
  PROVE  LockInv'
<1> USE DEF LockInv, OneZoomAtATime, Places, Goto
<1>0. None \notin Commands
  BY ZoomAssumption
<1>1. CASE StartZoomOperation(c)
  BY <1>1 DEF StartZoomOperation
<1>2. CASE LockOperation(c)
  BY <1>0, <1>2 DEF LockOperation
<1>3. CASE ClearStop(c)
  BY <1>3 DEF ClearStop
<1>4. CASE LoopTest(c)
  BY <1>0, <1>4 DEF LoopTest, EndLoop, InLoop
<1>5. CASE LoopBound(c)
  BY <1>0, <1>5 DEF LoopBound, EndLoop, InLoop
<1>6. CASE LoopStep(c)
  BY <1>6 DEF LoopStep, loopVars
<1>7. CASE LoopReturned(c)
  BY <1>0, <1>7 DEF LoopReturned, EndLoop
<1>8. QED
  BY <1>1, <1>2, <1>3, <1>4, <1>5, <1>6, <1>7

(* handleCameraControl and the single zooms: a handler that is not inside  *)
(* continuousZoom neither enters the loop nor touches the lock.            *)
LEMMA SingleKeepsLockInv ==
  ASSUME LockInv, NEW c \in Commands,
         \/ Garbled(c) \/ Receive(c) \/ CheckFactor(c) \/ Specify(c)
         \/ ZoomLimit(c) \/ ZoomSize(c) \/ ZoomOnce(c) \/ ZoomToLimit(c) \/ ZoomStop(c)
         \/ Package(c) \/ Returned(c)
  PROVE  LockInv'
<1> USE DEF LockInv, OneZoomAtATime, Places, Goto, loopVars, Continuous
<1>1. CASE Garbled(c)
  BY <1>1 DEF Garbled
<1>2. CASE Receive(c) \/ CheckFactor(c)
  BY <1>2 DEF Receive, CheckFactor
<1>3. CASE Specify(c)
  BY <1>3 DEF Specify
<1>4. CASE ZoomLimit(c) \/ ZoomSize(c) \/ ZoomOnce(c)
  BY <1>4 DEF ZoomLimit, ZoomSize, ZoomOnce
<1>5. CASE ZoomToLimit(c)
  BY <1>5 DEF ZoomToLimit
<1>6. CASE ZoomStop(c)
  BY <1>6 DEF ZoomStop
<1>7. CASE Package(c)
  BY <1>7 DEF Package
<1>8. CASE Returned(c)
  BY <1>8 DEF Returned
<1>9. QED
  BY <1>1, <1>2, <1>3, <1>4, <1>5, <1>6, <1>7, <1>8

(* startZoomOperation: at most one continuous zoom is inside its loop, and *)
(* it is the one that holds m_operationMutex.                              *)
THEOREM ZoomsExclude == Spec => []OneZoomAtATime
<1>1. Init => LockInv
  BY ZoomAssumption DEF Init, LockInv, OneZoomAtATime, Places
<1>2. LockInv /\ [Next]_vars => LockInv'
  <2> SUFFICES ASSUME LockInv, [Next]_vars
               PROVE  LockInv'
    OBVIOUS
  <2>1. CASE AllDone \/ UNCHANGED vars
    BY <2>1 DEF AllDone, vars, loopVars, LockInv, OneZoomAtATime
  <2>2. ASSUME NEW c \in Commands, Garbled(c) \/ Receive(c) \/ Specify(c) \/ Step(c)
        PROVE  LockInv'
    BY <2>2, LoopKeepsLockInv, SingleKeepsLockInv DEF Step
  <2>3. QED
    BY <2>1, <2>2 DEF Next
<1>3. LockInv => OneZoomAtATime
  BY DEF LockInv
<1>4. QED
  BY <1>1, <1>2, <1>3, PTL DEF Spec

(* The two controllers on one pool, and what the camera does by itself: a  *)
(* step of the gimbal is none of the camera's or is specifyZoomFator.      *)
THEOREM PayloadImplementsCamera == PayloadSpec => Spec
<1>1. PayloadInit => Init
  BY DEF PayloadInit
<1>2. [PayloadNext]_payloadVars => [Next]_vars
  <2> SUFFICES ASSUME [PayloadNext]_payloadVars
               PROVE  [Next]_vars
    OBVIOUS
  <2>1. CASE UNCHANGED payloadVars \/ PayloadDone
    BY <2>1 DEF PayloadDone, payloadVars
  <2>2. ASSUME NEW c \in Commands, CameraArrives(c) \/ CameraStep(c)
        PROVE  Next
    BY <2>2 DEF CameraArrives, CameraStep, Next
  <2>3. ASSUME NEW g \in GimbalCommands,
               \/ GimbalRefuses(g) \/ GimbalReceives(g) \/ TurnGranted(g) \/ TurnFails(g)
        PROVE  UNCHANGED vars
    BY <2>3 DEF GimbalRefuses, GimbalReceives, TurnGranted, TurnFails
  <2>4. ASSUME NEW g \in Zoomers, ZoomsAfterTurn(g)
        PROVE  Next
    BY <2>4 DEF ZoomsAfterTurn, Zoomers, Next
  <2>5. QED
    BY <2>1, <2>2, <2>3, <2>4 DEF PayloadNext, GimbalStep
<1>3. QED
  BY <1>1, <1>2, PTL DEF PayloadSpec, Spec

(* Where the handler of one combined command is, and what it has done.     *)
TurnOf(g) ==
  /\ turn[g] \in {"new", "asking", "turned", "over"}
  /\ turn[g] # "over" => pc[g] = "new"
  /\ pc[g] \in {"new", "package", "waiting", "done"}
  /\ answers[g] = IF pc[g] = "done" THEN 1 ELSE 0
  /\ told[g] = IF turn[g] \in {"new", "asking"} THEN 0 ELSE 1
  /\ turned[g] \in 0 .. Requests[g]
  /\ turned[g] = Requests[g] <=> turn[g] = "turned" \/ pc[g] # "new"

TurnInv ==
  /\ pc \in [Commands -> Places]
  /\ answers \in [Commands -> Nat]
  /\ turn \in [GimbalCommands -> {"new", "asking", "turned", "over"}]
  /\ turned \in [GimbalCommands -> Nat]
  /\ told \in [GimbalCommands -> Nat]
  /\ \A g \in Zoomers : TurnOf(g)

(* continuousZoom, handleCameraControl and the rest of the camera: of the  *)
(* combined commands they only take specifyZoomFator to its end.           *)
LEMMA CameraKeepsTurnInv ==
  ASSUME TurnInv, NEW c \in Commands, CameraArrives(c) \/ CameraStep(c)
  PROVE  TurnInv'
<1> USE DEF TurnInv, TurnOf, Zoomers, Places, Goto, Report, gimbalVars, Continuous
<1>1. UNCHANGED gimbalVars
  BY DEF CameraArrives, CameraStep
<1>2. CASE Garbled(c) \/ Receive(c) \/ CheckFactor(c)
  BY <1>1, <1>2 DEF Garbled, Receive, CheckFactor
<1>3. CASE \/ ZoomLimit(c) \/ ZoomSize(c) \/ ZoomOnce(c)
           \/ ZoomToLimit(c) \/ ZoomStop(c)
  BY <1>1, <1>3 DEF ZoomLimit, ZoomSize, ZoomOnce, ZoomToLimit, ZoomStop
<1>4. CASE StartZoomOperation(c) \/ LockOperation(c) \/ ClearStop(c)
  BY <1>1, <1>4 DEF StartZoomOperation, LockOperation, ClearStop
<1>5. CASE LoopTest(c)
  BY <1>1, <1>5 DEF LoopTest, EndLoop, InLoop
<1>6. CASE LoopBound(c)
  BY <1>1, <1>6 DEF LoopBound, EndLoop, InLoop
<1>7. CASE LoopStep(c)
  BY <1>1, <1>7 DEF LoopStep
<1>8. CASE LoopReturned(c)
  BY <1>1, <1>8 DEF LoopReturned, EndLoop
<1>9. CASE Package(c)
  BY <1>1, <1>9 DEF Package
<1>10. CASE Returned(c)
  BY <1>1, <1>10 DEF Returned
<1>11. QED
  BY <1>2, <1>3, <1>4, <1>5, <1>6, <1>7, <1>8, <1>9, <1>10 DEF CameraArrives, CameraStep, Step

(* handleGimbalControl and what it calls: refusing, asking, the answers to *)
(* the turn, and the call of specifyZoomFator.                             *)
LEMMA GimbalKeepsTurnInv ==
  ASSUME TurnInv, NEW g \in GimbalCommands,
         GimbalRefuses(g) \/ GimbalReceives(g) \/ GimbalStep(g)
  PROVE  TurnInv'
<1> USE GimbalAssumption
    DEF TurnInv, TurnOf, Zoomers, Places, Goto, TurnTo, Tell, GimbalCommands, vars
<1>1. CASE GimbalRefuses(g)
  BY <1>1 DEF GimbalRefuses
<1>2. CASE GimbalReceives(g)
  BY <1>2 DEF GimbalReceives
<1>3. CASE TurnGranted(g)
  BY <1>3 DEF TurnGranted
<1>4. CASE TurnFails(g)
  BY <1>4 DEF TurnFails
<1>5. CASE g \in Zoomers /\ ZoomsAfterTurn(g)
  BY <1>5 DEF ZoomsAfterTurn, Specify
<1>6. QED
  BY <1>1, <1>2, <1>3, <1>4, <1>5 DEF GimbalStep

(* handleCameraAngleZoom and handleCameraAimZoom: a combined command asks  *)
(* for its zoom only after all of its turn, and reports what it did.       *)
THEOREM CombinedInOrder == PayloadSpec => []ZoomFollowsTurn
<1>1. PayloadInit => TurnInv
  BY GimbalAssumption DEF PayloadInit, Init, TurnInv, TurnOf, Places, GimbalCommands, Zoomers
<1>2. TurnInv /\ [PayloadNext]_payloadVars => TurnInv'
  <2> SUFFICES ASSUME TurnInv, [PayloadNext]_payloadVars
               PROVE  TurnInv'
    OBVIOUS
  <2>1. CASE UNCHANGED payloadVars \/ PayloadDone
    BY <2>1 DEF PayloadDone, payloadVars, vars, gimbalVars, TurnInv, TurnOf
  <2>2. QED
    BY <2>1, CameraKeepsTurnInv, GimbalKeepsTurnInv DEF PayloadNext
<1>3. TurnInv => ZoomFollowsTurn
  BY GimbalAssumption DEF TurnInv, TurnOf, ZoomFollowsTurn, GimbalCommands
<1>4. QED
  BY <1>1, <1>2, <1>3, PTL DEF PayloadSpec

-----------------------------------------------------------------------------
(* FiniteSetsExt's Max and Min of two numbers.                             *)
LEMMA MaxOfTwo ==
  ASSUME NEW a \in Nat, NEW b \in Nat
  PROVE  /\ Max({a, b}) = IF a >= b THEN a ELSE b
         /\ Min({a, b}) = IF a <= b THEN a ELSE b
<1>1. PICK m \in {a, b} : m = IF a >= b THEN a ELSE b
  OBVIOUS
<1>2. PICK n \in {a, b} : n = IF a <= b THEN a ELSE b
  OBVIOUS
<1>3. \A x \in {a, b} : (\A y \in {a, b} : x >= y) <=> x = m
  BY <1>1
<1>4. \A x \in {a, b} : (\A y \in {a, b} : x <= y) <=> x = n
  BY <1>2
<1>5. Max({a, b}) = m
  BY <1>3 DEF Max
<1>6. Min({a, b}) = n
  BY <1>4 DEF Min
<1> QED
  BY <1>1, <1>2, <1>5, <1>6

(* cameraZoomIn, cameraZoomOut and the loop: a step inwards ends below the *)
(* upper limit and does not make a factor impossible, one outwards ends    *)
(* above the lower limit.                                                  *)
LEMMA ZoomFacts ==
  ASSUME NEW from \in Nat, NEW step \in Nat
  PROVE  /\ ZoomedIn(from, step) \in Nat /\ ZoomedIn(from, step) <= ZoomFactorMax
         /\ from >= Unit => ZoomedIn(from, step) >= Unit
         /\ ZoomedOut(from, step) \in Nat /\ ZoomedOut(from, step) >= ZoomFactorMin
<1>0. /\ ZoomFactorMin \in Nat /\ ZoomFactorMax \in Nat
      /\ Unit <= ZoomFactorMin /\ ZoomFactorMin <= ZoomFactorMax /\ Unit = 10
  BY ZoomAssumption DEF InitialFactor, Unit
<1>1. ZoomedIn(from, step) = IF from + step <= ZoomFactorMax THEN from + step
                                                           ELSE ZoomFactorMax
  BY <1>0, MaxOfTwo DEF ZoomedIn
<1> DEFINE less == from - Min({from, step})
<1>2. less \in Nat
  <2>1. Min({from, step}) = IF from <= step THEN from ELSE step
    BY MaxOfTwo
  <2> QED
    BY <2>1
<1>3. ZoomedOut(from, step) = Max({less, ZoomFactorMin})
  BY DEF ZoomedOut
<1> HIDE DEF less
<1>4. ZoomedOut(from, step) = IF less >= ZoomFactorMin THEN less ELSE ZoomFactorMin
  BY <1>0, <1>2, <1>3, MaxOfTwo
<1> QED
  BY <1>0, <1>1, <1>2, <1>4

(* What a handler of the camera has reported so far: a continuous zoom     *)
(* reports its first request, and once more when it reaches the limit.     *)
ReportedInv ==
  /\ answers \in [Commands -> 0 .. 2]
  /\ iterations \in 0 .. MaxIterations
  /\ \A c \in Commands :
       /\ pc[c] \in {"new", "received", "called", "sizing", "zooming", "lock", "clear"} =>
            answers[c] = 0
       /\ pc[c] \in {"package", "waiting"} /\ Kind[c] \notin Continuous => answers[c] = 0
       /\ operation = c /\ pc[c] # "clear" =>
            answers[c] = IF iterations = 0 THEN 0 ELSE 1

FactorTypes ==
  /\ factor \in Nat /\ local \in [Commands -> Nat]
  /\ disturbed \subseteq Commands
  /\ stopZoom \in BOOLEAN

(* What a command that has the factor to itself makes of it.               *)
FactorInv ==
  \A c \in Commands \ disturbed :
    /\ pc[c] \in {"called", "sizing", "zooming", "lock", "clear", "test", "bound", "step",
                  "waiting"} /\ Kind[c] # "specify" => factor >= Unit
    /\ pc[c] = "step" => local[c] >= Unit
    /\ pc[c] = "package" /\ Kind[c] # "specify" =>
         /\ factor >= Unit
         /\ Kind[c] \in {"in", "max", "inContinue"} => factor <= ZoomFactorMax
         /\ Kind[c] \in {"out", "min", "outContinue"} => factor >= ZoomFactorMin

(* A zoom that sends a request with m_stopZoom set looks at it next.       *)
PromptInv ==
  /\ extra \in 0 .. 1
  /\ extra = 1 => stopZoom /\ \E c \in Commands : operation = c /\ pc[c] \in {"waiting", "test"}

(* Every step of the camera keeps what has been reported.                  *)
LEMMA ReportedKept ==
  ASSUME LockInv, ReportedInv, NEW c \in Commands,
         Garbled(c) \/ Receive(c) \/ Specify(c) \/ Step(c)
  PROVE  ReportedInv'
<1> USE DEF LockInv, OneZoomAtATime, Places, Goto, ReportedInv
<1>0. None \notin Commands /\ MaxIterations \in Nat \ {0}
  BY ZoomAssumption
<1>1. CASE Garbled(c) \/ Receive(c) \/ Specify(c)
  BY <1>0, <1>1 DEF Garbled, Receive, Specify, Report, loopVars, Continuous
<1>2. CASE ZoomLimit(c) \/ ZoomSize(c) \/ ZoomOnce(c)
  BY <1>0, <1>2 DEF ZoomLimit, ZoomSize, ZoomOnce, Report, loopVars, Continuous
<1>9. CASE CheckFactor(c) \/ ZoomToLimit(c) \/ ZoomStop(c)
  BY <1>0, <1>9 DEF CheckFactor, ZoomToLimit, ZoomStop, Report, loopVars, Continuous
<1>3. CASE StartZoomOperation(c) \/ LockOperation(c) \/ ClearStop(c)
  BY <1>0, <1>3 DEF StartZoomOperation, LockOperation, ClearStop
<1>4. CASE LoopTest(c)
  BY <1>0, <1>4 DEF LoopTest, EndLoop, InLoop
<1>5. CASE LoopBound(c)
  BY <1>0, <1>5 DEF LoopBound, EndLoop, InLoop, Report
<1>6. CASE LoopStep(c) \/ Package(c)
  BY <1>0, <1>6 DEF LoopStep, Package, loopVars
<1>7. CASE Returned(c)
  BY <1>0, <1>7 DEF Returned, Report, loopVars
<1>8. CASE LoopReturned(c)
  BY <1>0, <1>8 DEF LoopReturned, EndLoop, Report
<1> QED
  BY <1>1, <1>2, <1>3, <1>4, <1>5, <1>6, <1>7, <1>8, <1>9 DEF Step

(* A write of the factor disturbs every other command in hand.             *)
LEMMA OverwriteFacts ==
  ASSUME pc \in [Commands -> Places], FactorTypes, NEW c \in Commands, NEW f \in Nat,
         Overwrite(c, f)
  PROVE  /\ factor' = f
         /\ disturbed' \subseteq Commands
         /\ \A d \in Commands \ disturbed' : d # c => pc[d] \in {"new", "done"}
         /\ c \notin disturbed' => c \notin disturbed \/ pc[c] \in {"new", "done"}
BY DEF Overwrite, InHand, FactorTypes

(* Every step of the camera keeps the types of the factors.                *)
LEMMA FactorTypesKept ==
  ASSUME LockInv, FactorTypes, NEW c \in Commands,
         Garbled(c) \/ Receive(c) \/ Specify(c) \/ Step(c)
  PROVE  FactorTypes'
<1>0. /\ OsdFactors \subseteq Nat /\ WantedFactors \subseteq Nat
      /\ ZoomFactorMin \in Nat /\ ZoomFactorMax \in Nat
      /\ factor \in Nat /\ local \in [Commands -> Nat] /\ 0 \in Nat
  BY ZoomAssumption DEF FactorTypes
<1>c. stopZoom' \in BOOLEAN
  BY DEF FactorTypes, Garbled, Receive, CheckFactor, Specify, Step, ZoomLimit, ZoomSize, ZoomOnce,
     ZoomToLimit, ZoomStop, StartZoomOperation, LockOperation, ClearStop, LoopTest, LoopBound,
     LoopStep, Package, Returned, LoopReturned, loopVars
<1>a. ASSUME NEW f \in Nat, Overwrite(c, f), local' \in [Commands -> Nat]
      PROVE  FactorTypes'
  BY <1>a, <1>c DEF Overwrite, InHand, FactorTypes
<1>b. ASSUME UNCHANGED <<factor, disturbed>>, local' \in [Commands -> Nat]
      PROVE  FactorTypes'
  BY <1>b, <1>c DEF FactorTypes
<1>1. CASE Garbled(c) \/ CheckFactor(c) \/ ZoomLimit(c) \/ ZoomStop(c)
  BY <1>0, <1>1, <1>b DEF Garbled, CheckFactor, ZoomLimit, ZoomStop, factorVars
<1>2. CASE Receive(c) \/ Specify(c) \/ ZoomToLimit(c)
  BY <1>0, <1>2, <1>a DEF Receive, Specify, ZoomToLimit
<1>3. CASE ZoomSize(c)
  <2>1. factor \div 5 \in Nat
    BY <1>0
  <2>2. Max({1, factor \div 5}) \in Nat
    BY <2>1, MaxOfTwo
  <2> QED
    BY <1>0, <1>3, <1>b, <2>2 DEF ZoomSize, SetLocal, factorVars
<1>4. CASE ZoomOnce(c)
  <2>1. ZoomedIn(factor, local[c]) \in Nat /\ ZoomedOut(factor, local[c]) \in Nat
    BY <1>0, ZoomFacts
  <2>2. local' \in [Commands -> Nat]
    BY <1>0, <1>4 DEF ZoomOnce, SetLocal
  <2> QED
    BY <1>4, <1>a, <2>1, <2>2 DEF ZoomOnce
<1>5. CASE StartZoomOperation(c) \/ LockOperation(c) \/ ClearStop(c) \/ LoopTest(c)
  BY <1>0, <1>5, <1>b DEF StartZoomOperation, LockOperation, ClearStop, LoopTest, factorVars
<1>6. CASE LoopBound(c)
  <2>1. local' \in [Commands -> Nat] /\ LimitOf(c) \in Nat
    BY <1>0, <1>6 DEF LoopBound, SetLocal, LimitOf
  <2> QED
    BY <1>6, <1>a, <1>b, <2>1 DEF LoopBound, factorVars
<1>7. CASE LoopStep(c)
  <2> DEFINE step == Max({1, local[c] \div 10})
  <2>1. local[c] \div 10 \in Nat
    BY <1>0
  <2>2. step \in Nat
    BY <2>1, MaxOfTwo
  <2> HIDE DEF step
  <2>3. ZoomedIn(local[c], step) \in Nat /\ ZoomedOut(local[c], step) \in Nat
    BY <1>0, <2>2, ZoomFacts
  <2>4. local' \in [Commands -> Nat]
    BY <1>0, <1>7 DEF LoopStep, SetLocal
  <2>5. \E f \in Nat : Overwrite(c, f)
    BY <1>7, <2>3 DEF LoopStep, step
  <2> QED
    BY <1>a, <2>4, <2>5
<1>8. CASE Package(c) \/ Returned(c) \/ LoopReturned(c)
  BY <1>0, <1>8, <1>b DEF Package, Returned, LoopReturned, factorVars
<1> QED
  BY <1>1, <1>2, <1>3, <1>4, <1>5, <1>6, <1>7, <1>8 DEF Step

(* Every step of the camera keeps the factor of an undisturbed command     *)
(* possible.                                                               *)
LEMMA FactorKept ==
  ASSUME LockInv, FactorTypes, FactorInv, NEW c \in Commands,
         Garbled(c) \/ Receive(c) \/ Specify(c) \/ Step(c)
  PROVE  FactorInv'
<1>0. /\ OsdFactors \subseteq Nat /\ WantedFactors \subseteq Nat
      /\ ZoomFactorMin \in Nat /\ ZoomFactorMax \in Nat
      /\ Unit <= ZoomFactorMin /\ ZoomFactorMin <= ZoomFactorMax /\ Unit = 10
      /\ factor \in Nat /\ local \in [Commands -> Nat]
      /\ pc \in [Commands -> Places]
  BY ZoomAssumption DEF FactorTypes, LockInv, InitialFactor, Unit
<1>a. ASSUME NEW f \in Nat, Overwrite(c, f), NEW place \in Places,
             pc' = [pc EXCEPT ![c] = place],
             \/ place \in {"received", "done"}
             \/ place = "package" /\ Kind[c] = "specify"
             \/ /\ place = "package"
                /\ c \notin disturbed => f >= Unit /\ pc[c] \notin {"new", "done"}
                /\ Kind[c] \in {"in", "max", "inContinue"} => f <= ZoomFactorMax
                /\ Kind[c] \in {"out", "min", "outContinue"} => f >= ZoomFactorMin
                /\ pc[c] \notin {"new", "done"}
      PROVE  FactorInv'
  <2>1. /\ factor' = f
        /\ \A d \in Commands \ disturbed' : d # c => pc[d] \in {"new", "done"}
        /\ c \notin disturbed' => c \notin disturbed \/ pc[c] \in {"new", "done"}
    BY <1>0, <1>a, OverwriteFacts
  <2>2. pc'[c] = place /\ \A d \in Commands : d # c => pc'[d] = pc[d]
    BY <1>0, <1>a
  <2> QED
    BY <1>a, <2>1, <2>2 DEF FactorInv
<1>b. ASSUME UNCHANGED <<factor, disturbed, local>>, NEW place \in Places,
             pc' = [pc EXCEPT ![c] = place],
             \/ place \in {"new", "done"}
             \/ place = "called" /\ factor >= Unit
             \/ /\ pc[c] \in {"called", "sizing", "zooming", "lock", "clear", "test", "bound",
                              "waiting", "package"}
                /\ place \in {"sizing", "zooming", "lock", "clear", "test", "bound", "waiting"}
      PROVE  FactorInv'
  BY <1>0, <1>b DEF FactorInv
<1> USE DEF Places, Goto, factorVars
<1>1. CASE Garbled(c) \/ ZoomLimit(c) \/ ZoomStop(c)
  BY <1>1, <1>b DEF Garbled, ZoomLimit, ZoomStop
<1>2. CASE CheckFactor(c)
  BY <1>2, <1>b DEF CheckFactor
<1>3. CASE Receive(c) \/ Specify(c)
  BY <1>0, <1>3, <1>a DEF Receive, Specify
<1>4. CASE ZoomSize(c)
  <2>1. pc[c] = "sizing" /\ UNCHANGED <<factor, disturbed>> /\ pc' = [pc EXCEPT ![c] = "zooming"]
    BY <1>4 DEF ZoomSize
  <2> QED
    BY <1>0, <1>4, <2>1 DEF ZoomSize, SetLocal, FactorInv
<1>5. CASE ZoomOnce(c)
  <2>1. /\ ZoomedIn(factor, local[c]) \in Nat /\ ZoomedIn(factor, local[c]) <= ZoomFactorMax
        /\ factor >= Unit => ZoomedIn(factor, local[c]) >= Unit
        /\ ZoomedOut(factor, local[c]) \in Nat /\ ZoomedOut(factor, local[c]) >= ZoomFactorMin
    BY <1>0, ZoomFacts
  <2>2. /\ pc[c] = "zooming" /\ pc' = [pc EXCEPT ![c] = "package"] /\ Kind[c] \in {"in", "out"}
        /\ c \notin disturbed => factor >= Unit
    BY <1>5 DEF ZoomOnce, LockInv, FactorInv
  <2>3. CASE Kind[c] = "in"
    BY <1>5, <1>a, <2>1, <2>2, <2>3 DEF ZoomOnce
  <2>4. CASE Kind[c] = "out"
    BY <1>0, <1>5, <1>a, <2>1, <2>2, <2>4 DEF ZoomOnce
  <2> QED
    BY <2>2, <2>3, <2>4
<1>6. CASE ZoomToLimit(c)
  <2>1. /\ pc[c] = "called" /\ pc' = [pc EXCEPT ![c] = "package"] /\ Kind[c] \in {"min", "max"}
        /\ Overwrite(c, IF Kind[c] = "min" THEN ZoomFactorMin ELSE ZoomFactorMax)
    BY <1>6 DEF ZoomToLimit
  <2>2. CASE Kind[c] = "min"
    BY <1>0, <1>a, <2>1, <2>2
  <2>3. CASE Kind[c] = "max"
    BY <1>0, <1>a, <2>1, <2>3
  <2> QED
    BY <2>1, <2>2, <2>3
<1>7. CASE StartZoomOperation(c) \/ LockOperation(c) \/ ClearStop(c) \/ LoopTest(c)
  BY <1>7, <1>b DEF StartZoomOperation, LockOperation, ClearStop, LoopTest, EndLoop, InLoop
<1>8. CASE LoopBound(c)
  <2>1. CASE AtLimit(c, factor)
    <3>1. /\ LimitOf(c) \in Nat /\ Overwrite(c, LimitOf(c)) /\ pc' = [pc EXCEPT ![c] = "done"]
      BY <1>0, <1>8, <2>1 DEF LoopBound, LimitOf, EndLoop
    <3> QED
      BY <1>a, <3>1
  <2>2. CASE ~AtLimit(c, factor)
    <3>1. /\ pc[c] = "bound" /\ UNCHANGED <<factor, disturbed>>
          /\ pc' = [pc EXCEPT ![c] = "step"] /\ local' = [local EXCEPT ![c] = factor]
      BY <1>8, <2>2 DEF LoopBound, InLoop, SetLocal
    <3>2. Kind[c] # "specify"
      BY <3>1, <1>0 DEF LockInv, Continuous
    <3> QED
      BY <1>0, <3>1, <3>2 DEF FactorInv
  <2> QED
    BY <2>1, <2>2
<1>9. CASE LoopStep(c)
  <2> DEFINE step == Max({1, local[c] \div 10})
  <2>1. local[c] \div 10 \in Nat
    BY <1>0
  <2>2. step \in Nat
    BY <2>1, MaxOfTwo
  <2>3. /\ pc[c] = "step" /\ pc' = [pc EXCEPT ![c] = "package"]
        /\ IF Kind[c] = "inContinue" THEN Overwrite(c, ZoomedIn(local[c], step))
                                    ELSE Overwrite(c, ZoomedOut(local[c], step))
    BY <1>9 DEF LoopStep
  <2> HIDE DEF step
  <2>4. Kind[c] \in {"inContinue", "outContinue"} /\ (c \notin disturbed => local[c] >= Unit)
    BY <2>3 DEF LockInv, FactorInv, Continuous
  <2>5. /\ ZoomedIn(local[c], step) \in Nat /\ ZoomedIn(local[c], step) <= ZoomFactorMax
        /\ local[c] >= Unit => ZoomedIn(local[c], step) >= Unit
        /\ ZoomedOut(local[c], step) \in Nat /\ ZoomedOut(local[c], step) >= ZoomFactorMin
    BY <1>0, <2>2, ZoomFacts
  <2>6. CASE Kind[c] = "inContinue"
    BY <1>a, <2>3, <2>4, <2>5, <2>6
  <2>7. CASE Kind[c] = "outContinue"
    BY <1>0, <1>a, <2>3, <2>4, <2>5, <2>7
  <2> QED
    BY <2>4, <2>6, <2>7
<1>10. CASE Package(c) \/ Returned(c) \/ LoopReturned(c)
  BY <1>10, <1>b DEF Package, Returned, LoopReturned, EndLoop
<1> QED
  BY <1>1, <1>2, <1>3, <1>4, <1>5, <1>6, <1>7, <1>8, <1>9, <1>10 DEF Step

(* Every step of the camera keeps the stop prompt.                         *)
LEMMA PromptKept ==
  ASSUME LockInv, FactorTypes, PromptInv, NEW c \in Commands,
         Garbled(c) \/ Receive(c) \/ Specify(c) \/ Step(c)
  PROVE  PromptInv'
<1> USE DEF LockInv, OneZoomAtATime, Places, Goto, PromptInv
<1>0. None \notin Commands /\ stopZoom \in BOOLEAN
  BY ZoomAssumption DEF FactorTypes
<1>1. CASE Garbled(c) \/ Receive(c) \/ Specify(c)
  BY <1>0, <1>1 DEF Garbled, Receive, Specify, loopVars
<1>2. CASE ZoomLimit(c) \/ ZoomSize(c) \/ ZoomOnce(c)
  BY <1>0, <1>2 DEF ZoomLimit, ZoomSize, ZoomOnce, loopVars
<1>9. CASE CheckFactor(c) \/ ZoomToLimit(c) \/ Returned(c)
  BY <1>0, <1>9 DEF CheckFactor, ZoomToLimit, Returned, loopVars
<1>3. CASE ZoomStop(c) \/ StartZoomOperation(c) \/ ClearStop(c)
  BY <1>0, <1>3 DEF ZoomStop, StartZoomOperation, ClearStop
<1>4. CASE LockOperation(c)
  BY <1>0, <1>4 DEF LockOperation
<1>5. CASE LoopTest(c)
  BY <1>0, <1>5 DEF LoopTest, EndLoop, InLoop
<1>6. CASE LoopBound(c)
  BY <1>0, <1>6 DEF LoopBound, EndLoop, InLoop
<1>10. CASE LoopStep(c)
  BY <1>0, <1>10 DEF LoopStep, loopVars
<1>7. CASE Package(c)
  BY <1>0, <1>7 DEF Package
<1>8. CASE LoopReturned(c)
  BY <1>0, <1>8 DEF LoopReturned, EndLoop
<1> QED
  BY <1>1, <1>2, <1>3, <1>4, <1>5, <1>6, <1>7, <1>8, <1>9, <1>10 DEF Step

ZoomInv == LockInv /\ ReportedInv /\ FactorTypes /\ FactorInv /\ PromptInv

(* The parts together, for any commands, pool size, factors and number of  *)
(* iterations.                                                             *)
THEOREM ZoomInvariant == Spec => []ZoomInv
<1>1. Init => ZoomInv
  <2> SUFFICES ASSUME Init PROVE ZoomInv
    OBVIOUS
  <2>1. LockInv
    BY ZoomAssumption DEF Init, LockInv, OneZoomAtATime, Places
  <2>2. ReportedInv
    BY <2>1, ZoomAssumption DEF Init, ReportedInv, LockInv
  <2>3. FactorInv
    BY <2>1 DEF Init, FactorInv
  <2>4. FactorTypes
    BY ZoomAssumption DEF Init, FactorTypes, InitialFactor
  <2>5. PromptInv
    BY DEF Init, PromptInv
  <2> QED
    BY <2>1, <2>2, <2>3, <2>4, <2>5 DEF ZoomInv
<1>2. ZoomInv /\ [Next]_vars => ZoomInv'
  <2> SUFFICES ASSUME ZoomInv, [Next]_vars
               PROVE  ZoomInv'
    OBVIOUS
  <2>1. CASE AllDone \/ UNCHANGED vars
    BY <2>1 DEF AllDone, vars, factorVars, loopVars, ZoomInv, LockInv, OneZoomAtATime,
       ReportedInv, FactorTypes, FactorInv, PromptInv
  <2>2. ASSUME NEW c \in Commands, Garbled(c) \/ Receive(c) \/ Specify(c) \/ Step(c)
        PROVE  ZoomInv'
    <3>1. LockInv'
      BY <2>2, LoopKeepsLockInv, SingleKeepsLockInv DEF Step, ZoomInv
    <3> QED
      BY <2>2, <3>1, ReportedKept, FactorTypesKept, FactorKept, PromptKept DEF ZoomInv
  <2> QED
    BY <2>1, <2>2 DEF Next
<1> QED
  BY <1>1, <1>2, PTL DEF Spec

(* startZoomOperation and cameraZoomStop: a zoom that is told to stop      *)
(* sends at most one more request.                                         *)
THEOREM StopsArePrompt == Spec => []StopIsPrompt
<1>1. ZoomInv => StopIsPrompt
  BY DEF ZoomInv, PromptInv, StopIsPrompt
<1> QED
  BY <1>1, ZoomInvariant, PTL

(* handleCameraControl, the steps and the limits: no request of a zoom     *)
(* carries a factor below 1.0 or out of the camera's range, unless another *)
(* command has written the factor while this one was in hand.              *)
THEOREM FactorsAreValid == Spec => []SentFactorIsValid
<1>1. ZoomInv => SentFactorIsValid
  BY DEF ZoomInv, FactorInv, SentFactorIsValid
<1> QED
  BY <1>1, ZoomInvariant, PTL

(* A gimbal command has room for each request and for its one report as    *)
(* long as it asks.                                                        *)
TurnBounds ==
  /\ turn \in [GimbalCommands -> {"new", "asking", "turned", "over"}]
  /\ turned \in [GimbalCommands -> 0 .. 4]
  /\ told \in [GimbalCommands -> 0 .. 1]
  /\ \A g \in GimbalCommands :
       turn[g] \in {"new", "asking"} => told[g] = 0 /\ turned[g] < Requests[g]

(* Types of the camera and of the gimbal beside it; a handler of the camera*)
(* reports twice at most, a turn once.                                     *)
THEOREM PayloadTypeCorrect == PayloadSpec => []PayloadTypeOK
<1>1. ZoomInv => TypeOK
  <2> SUFFICES ASSUME ZoomInv PROVE TypeOK
    OBVIOUS
  <2>1. pc \in [Commands -> Places] /\ operation \in Commands \cup {None}
    BY DEF ZoomInv, LockInv
  <2>2. answers \in [Commands -> 0 .. 2] /\ iterations \in 0 .. MaxIterations
    BY DEF ZoomInv, ReportedInv
  <2>3. /\ factor \in Nat /\ local \in [Commands -> Nat] /\ disturbed \subseteq Commands
        /\ stopZoom \in BOOLEAN
    BY DEF ZoomInv, FactorTypes
  <2>4. extra \in 0 .. 2
    BY DEF ZoomInv, PromptInv
  <2> QED
    BY <2>1, <2>2, <2>3, <2>4 DEF TypeOK
<1>2. PayloadInit => TurnBounds
  BY GimbalAssumption DEF PayloadInit, TurnBounds
<1>3. TurnBounds /\ [PayloadNext]_payloadVars => TurnBounds'
  <2> SUFFICES ASSUME TurnBounds, [PayloadNext]_payloadVars
               PROVE  TurnBounds'
    OBVIOUS
  <2>1. CASE UNCHANGED payloadVars \/ PayloadDone
    BY <2>1 DEF PayloadDone, payloadVars, gimbalVars, TurnBounds
  <2>2. ASSUME NEW c \in Commands, CameraArrives(c) \/ CameraStep(c)
        PROVE  TurnBounds'
    BY <2>2 DEF CameraArrives, CameraStep, gimbalVars, TurnBounds
  <2>3. ASSUME NEW g \in GimbalCommands, GimbalRefuses(g) \/ GimbalReceives(g) \/ TurnFails(g)
        PROVE  TurnBounds'
    BY <2>3 DEF GimbalRefuses, GimbalReceives, TurnFails, TurnTo, Tell, TurnBounds
  <2>4. ASSUME NEW g \in GimbalCommands, TurnGranted(g)
        PROVE  TurnBounds'
    <3>1. /\ turn[g] = "asking" /\ turned' = [turned EXCEPT ![g] = @ + 1]
          /\ \/ /\ turned'[g] < Requests[g] /\ UNCHANGED <<turn, told>>
             \/ \E place \in {"turned", "over"} :
                  turn' = [turn EXCEPT ![g] = place] /\ told' = [told EXCEPT ![g] = @ + 1]
      BY <2>4 DEF TurnGranted, TurnTo, Tell
    <3>2. /\ Requests[g] \in {1, 4} /\ turned[g] \in 0 .. 4 /\ turned[g] < Requests[g]
          /\ told[g] = 0
      BY <3>1, GimbalAssumption DEF TurnBounds
    <3>3. turned' \in [GimbalCommands -> 0 .. 4] /\ turned'[g] = turned[g] + 1
      BY <3>1, <3>2 DEF TurnBounds
    <3>4. \A h \in GimbalCommands : h # g => turned'[h] = turned[h]
      BY <3>1 DEF TurnBounds
    <3>5. CASE turned'[g] < Requests[g] /\ UNCHANGED <<turn, told>>
      BY <3>3, <3>4, <3>5 DEF TurnBounds
    <3>6. ASSUME NEW place \in {"turned", "over"},
                 turn' = [turn EXCEPT ![g] = place], told' = [told EXCEPT ![g] = @ + 1]
          PROVE  TurnBounds'
      BY <3>2, <3>3, <3>4, <3>6 DEF TurnBounds
    <3> QED
      BY <3>1, <3>5, <3>6
  <2>5. ASSUME NEW g \in GimbalCommands, ZoomsAfterTurn(g)
        PROVE  TurnBounds'
    BY <2>5 DEF ZoomsAfterTurn, TurnTo, TurnBounds
  <2> QED
    BY <2>1, <2>2, <2>3, <2>4, <2>5 DEF PayloadNext, GimbalStep
<1>4. TypeOK /\ TurnBounds => PayloadTypeOK
  BY DEF TurnBounds, PayloadTypeOK
<1>5. PayloadSpec => []TypeOK
  BY <1>1, ZoomInvariant, PayloadImplementsCamera, PTL
<1> QED
  BY <1>2, <1>3, <1>4, <1>5, PTL DEF PayloadSpec
=============================================================================
