CONSTANTS
  first = first
  second = second
  third = third
  Commands = {first, third}
  Direction <- TwoDirections
  Kinds = {"continuous"}
  UavModes = {"manual", "other"}
  Outcomes = {"wayline_progress", "wayline_failed"}
  Workers = 3
  Patient = FALSE
  None = None
SPECIFICATION Spec
INVARIANTS OneStickThread
CHECK_DEADLOCK FALSE
