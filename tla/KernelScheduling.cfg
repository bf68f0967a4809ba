SPECIFICATION FairSpec
CONSTANTS
  TASK_POOL_SIZE = 4
  TASK_PRIORITY_MAX = 3
  INITIAL_PRIORITY = 1
  MAX_SENDER_CAPACITY = 4
  MEMORY_BLOCK_MAX_NUM = 4
  WAIT_TIMER_1 = 97
  UserCalls = {"Create", "MyTid", "Yield", "Exit", "AwaitEvent", "fault"}
  CreatePriorities <- Clamped
  AwaitedIds = {97}
  Payload = {"a"}
  NoPayload = "none"
  SendLens <- UnitLens
  Lens = {1}
  ReplyAnyone = FALSE
INVARIANTS
  KernelInvariant
  PriorityRespected
PROPERTIES
  RoundRobin
  TimerWakes
