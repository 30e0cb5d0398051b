SPECIFICATION LogSpec
CONSTANTS
  Writer = w
  Others = {}
  LOG_STACK_MAX_SIZE = 8
  REMAINING_SPACE_SIZE = 3
  Lengths = {4}
  U32Mod = 64
  MaxLines = 6
CHECK_DEADLOCK FALSE
INVARIANT InsideRing
