SPECIFICATION PlatformSpec
CONSTANTS
  Senders = {sd1, sd2}
  Module = module
  Messages = {short, long}
  Long = {long}
  m_size = 3
  None = None
  Units = {u1, u2}
  HashTableSize = 2
  Ticks = 4
  Durations = {2}
  Slots = {s1, s2}
  Owner <- OneModule
  Room = 1
  MaxHistory = 3
  NoTimer = NoTimer
  s1 = s1
  s2 = s2
  logModule = logModule
  Mids = {m1, m2}
  Unmonitored = {m2}
  CountMod = 4
  NoMid = NoMid
  Writer = w
  Others = {p}
  LOG_STACK_MAX_SIZE = 8
  REMAINING_SPACE_SIZE = 3
  Lengths = {4}
  U32Mod = 64
  MaxLines = 4
  Topics = {osd, state, control}
  MayRefuse = FALSE
CHECK_DEADLOCK FALSE
INVARIANTS NoLostWakeup HeapBalanced
INVARIANTS PlatformTypeOK StaleIdsMiss EndIsRecorded FileInOrder
INVARIANTS ConnectedIsSubscribed
PROPERTIES QueueSpec Served ServiceSpec
PROPERTIES AlarmIsReal HangEndsProcess EveryLineWritten ServiceRecovers
