-------------------------------- MODULE Gimbal --------------------------------
(***************************************************************************)
(* GimbalController (cloud/payload/gimbalController.cpp) beside the camera *)
(* of CameraZoom, on the same command pool of the payload module.  A       *)
(* command turns the gimbal with one request (reset, drag, aim, frame zoom)*)
(* or, when it is to turn and then zoom, with four drags or one aim before *)
(* it calls specifyZoomFator of the camera on the thread it has.  Requests *)
(* return either verdict, as in CameraZoom.                                *)
(***************************************************************************)
EXTENDS CameraZoom

CONSTANTS Turns,       \* the gimbal commands that only turn
          Requests,    \* the requests a gimbal command turns with
          MaxSent      \* how many of all the commands the platform sends

\* handleCameraAngleZoom and handleCameraAimZoom.
Zoomers == {c \in Commands : Kind[c] = "specify"}

GimbalCommands == Turns \cup Zoomers

ASSUME GimbalAssumption ==
  /\ Turns \cap Commands = {}
  /\ Requests \in [GimbalCommands -> {1, 4}]
  /\ \A t \in Turns : Requests[t] = 1
  /\ MaxSent \in Nat

VARIABLES turn,    \* where the handler of a gimbal command is
          turned,  \* its requests the aircraft has granted
          told     \* results reported for the turn

gimbalVars  == <<turn, turned, told>>
payloadVars == <<vars, gimbalVars>>

PayloadInit ==
  /\ Init
  /\ turn = [g \in GimbalCommands |-> "new"]
  /\ turned = [g \in GimbalCommands |-> 0]
  /\ told = [g \in GimbalCommands |-> 0]

-----------------------------------------------------------------------------
TurnTo(g, place) == turn' = [turn EXCEPT ![g] = place]

\* sendResult of the gimbal, and the refusals that report by themselves.
Tell(g) == told' = [told EXCEPT ![g] = @ + 1]

Turning == {g \in GimbalCommands : turn[g] \in {"asking", "turned"}}

\* A command thread of the payload pool is free: the handlers of both
\* controllers use it up.
PayloadFree == Cardinality(InHand \cup Turning) < Workers

\* The platform sends another command.
Sends ==
  Cardinality({c \in Commands : pc[c] # "new"}
              \cup {g \in GimbalCommands : turn[g] # "new"}) < MaxSent

\* handleGimbalControl does not parse the message or know its type, or the
\* direction of a drag is not supported.
GimbalRefuses(g) ==
  /\ turn[g] = "new" /\ Sends /\ PayloadFree
  /\ Tell(g)
  /\ TurnTo(g, "over")
  /\ UNCHANGED <<vars, turned>>

\* The first request is on its way.
GimbalReceives(g) ==
  /\ turn[g] = "new" /\ Sends /\ PayloadFree
  /\ TurnTo(g, "asking")
  /\ UNCHANGED <<vars, turned, told>>

\* MUTANT of TurnGranted: the zoom begins after the first drag.
TurnGrantedEarly(g) ==
  /\ turn[g] = "asking"
  /\ turned' = [turned EXCEPT ![g] = @ + 1]
  /\ Tell(g)
  /\ TurnTo(g, IF g \in Zoomers THEN "turned" ELSE "over")
  /\ UNCHANGED vars

\* sendRequest returns true: the next drag of the four, or the result.
TurnGranted(g) ==
  /\ turn[g] = "asking"
  /\ turned' = [turned EXCEPT ![g] = @ + 1]
  /\ IF turned'[g] < Requests[g]
       THEN UNCHANGED <<turn, told>>
       ELSE Tell(g) /\ TurnTo(g, IF g \in Zoomers THEN "turned" ELSE "over")
  /\ UNCHANGED vars

\* It returns false: no further drag, the failure is the result, and no zoom.
TurnFails(g) ==
  /\ turn[g] = "asking"
  /\ Tell(g)
  /\ TurnTo(g, "over")
  /\ UNCHANGED <<vars, turned>>

\* The handler goes on in specifyZoomFator, which reports for itself.
ZoomsAfterTurn(g) ==
  /\ turn[g] = "turned"
  /\ Specify(g)
  /\ TurnTo(g, "over")
  /\ UNCHANGED <<turned, told>>

-----------------------------------------------------------------------------
GimbalStep(g) ==
  \/ TurnGranted(g) \/ TurnFails(g)
  \/ g \in Zoomers /\ ZoomsAfterTurn(g)

CameraArrives(c) ==
  Sends /\ PayloadFree /\ (Garbled(c) \/ Receive(c)) /\ UNCHANGED gimbalVars

CameraStep(c) == Step(c) /\ UNCHANGED gimbalVars

\* No command is in hand, and the platform asks for no more.
PayloadDone == InHand = {} /\ Turning = {} /\ UNCHANGED payloadVars

PayloadNext ==
  \/ \E c \in Commands : CameraArrives(c) \/ CameraStep(c)
  \/ \E g \in GimbalCommands : GimbalRefuses(g) \/ GimbalReceives(g) \/ GimbalStep(g)
  \/ PayloadDone

PayloadSpec == PayloadInit /\ [][PayloadNext]_payloadVars

\* A handler that can go on does: the threads of the pool are scheduled and
\* requests time out.
FairPayloadSpec ==
  /\ PayloadSpec
  /\ \A c \in Commands : WF_payloadVars(CameraStep(c))
  /\ \A g \in GimbalCommands : WF_payloadVars(GimbalStep(g))

-----------------------------------------------------------------------------
\* Types of both controllers.
PayloadTypeOK ==
  /\ TypeOK
  /\ turn \in [GimbalCommands -> {"new", "asking", "turned", "over"}]
  /\ turned \in [GimbalCommands -> 0 .. 4]
  /\ told \in [GimbalCommands -> 0 .. 1]

\* The combined commands (handleCameraAngleZoom, handleCameraAimZoom): the zoom
\* is asked for only when every request of the turn was granted and the turn
\* has been reported, and then it is reported too, so that the platform hears
\* of both parts, and of one alone exactly when the turn failed.
ZoomFollowsTurn ==
  \A g \in Zoomers :
    /\ pc[g] # "new" => turned[g] = Requests[g] /\ told[g] = 1
    /\ turn[g] = "over" /\ pc[g] \in {"new", "done"} =>
         told[g] + answers[g] = IF turned[g] = Requests[g] THEN 2 ELSE 1

\* Every command of either controller that is received is finished, and in the
\* end none is in hand: the loop of a zoom is bounded, a zoom waiting for the
\* operation lock gets it, and a thread kept by four drags comes free.
EveryCommandEnds ==
  <>[](/\ \A c \in Commands : pc[c] \in {"new", "done"}
       /\ \A g \in GimbalCommands : turn[g] \in {"new", "over"})
=============================================================================
