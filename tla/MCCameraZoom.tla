---------------------------- MODULE MCCameraZoom ----------------------------
(* Instances of CameraZoom and Gimbal: which commands a run has, and their   *)
(* handlers.                                                                 *)
EXTENDS Gimbal, TLC

CONSTANTS closing, widening, halt, closer, tele, aim, reset

MCCommands == DOMAIN Kind

\* Two continuous zooms, a stop, and one command of each other kind of step;
\* the combined one turns with four drags.
MixedKind == (closing :> "inContinue" @@ widening :> "outContinue" @@ halt :> "stop"
           @@ closer :> "in" @@ tele :> "max" @@ aim :> "specify")

TurnRequests == (aim :> 4 @@ reset :> 1)
=============================================================================
