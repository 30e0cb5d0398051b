CONSTANTS
  first = first
  second = second
  third = third
  Commands <- MCCommands
  Direction <- TwoDirections
  Kinds = {"continuous", "stop", "timed"}
  UavModes = {"manual", "avoid", "other"}
  Outcomes = {"wayline_progress", "wayline_failed"}
  Workers = 3
  Patient = TRUE
  None = None
SPECIFICATION FairSpec
INVARIANTS OneStickThread StoppedIsCentred TakeoverRespected
PROPERTIES EveryCommandAnswered
