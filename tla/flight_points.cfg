CONSTANTS
  first = first
  second = second
  third = third
  Commands <- Pair
  Direction <- OneDirection
  Kinds = {"flytoPoint", "takeoff", "request", "invalid", "undecodable"}
  UavModes = {"command", "other"}
  Outcomes = {"wayline_progress", "wayline_failed"}
  Workers = 2
  Patient = FALSE
  None = None
SYMMETRY Symmetry
SPECIFICATION Spec
INVARIANTS TypeOK ReportsNameNoEarlier
