CONSTANTS
  Kind <- MixedKind
  Commands <- MCCommands
  Turns = {reset}
  Requests <- TurnRequests
  Workers = 2
  MaxSent = 4
  OsdFactors = {0, 22}
  ZoomFactorMin = 20
  ZoomFactorMax = 24
  WantedFactors = {5}
  MaxIterations = 2
  None = None
  closing = closing
  widening = widening
  halt = halt
  closer = closer
  tele = tele
  aim = aim
  reset = reset
SPECIFICATION FairPayloadSpec
INVARIANTS PayloadTypeOK OneZoomAtATime StopIsPrompt SentFactorIsValid ZoomFollowsTurn
PROPERTIES EveryCommandEnds
