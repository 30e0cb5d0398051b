SPECIFICATION SharedSpec
CONSTANTS
  Threads = {t1, t2}
  NoThread = NoThread
  MAX_MEMPOOL_NUMBER = 2
  aulBlockSize <- SmallSizes
  aulBlockNum <- SmallNums
  aulMallocBufOffset <- SmallTable
  Granule = 1
  Requests = {1, 2}
  ModeCodes <- EdgeCodes
  Sources = {"A", "cloud"}
  Coordinates = 2
  MaxOsd = 3
  TopicCount = 1
  MaxReceived = 1
  aircraft_sn = "aircraft"
  dock_sn = "rc"
  Ends <- OwnEnds
  Lines <- TopicLines
  DrcStates = {0, 2}
  MaxAsked = 2
  MaxMessages = 2
  DEVICE_THREAD_COUNT = 2
  block_count_x = 3
  block_count_y = 2
  block_size = 2
  dis_xy = 3
  dis_z = 1
  MapFiles <- OddMaps
  Altitudes = {3}
  Lengths = {1, 4, 7}
  Starts <- RoutePlaces
CHECK_DEADLOCK FALSE
INVARIANTS SharedTypeOK EveryLandingReported NothingStale SafeIsFree
INVARIANTS RepliesFindRequests StartsWhole
PROPERTIES AllocatorSpec
