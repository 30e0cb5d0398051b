SPECIFICATION MapSpec
CONSTANTS
  block_count_x = 3
  block_count_y = 2
  block_size = 2
  dis_xy = 3
  dis_z = 1
  MapFiles <- TwoAreas
  Altitudes = {3}
  Starts <- Corners
  Lengths = {1, 4, 7}
CHECK_DEADLOCK FALSE
INVARIANT NoFlyRespected
