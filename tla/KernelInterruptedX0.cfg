SPECIFICATION Spec
CONSTANTS
  TASK_POOL_SIZE = 3
  TASK_PRIORITY_MAX = 3
  INITIAL_PRIORITY = 1
  MAX_SENDER_CAPACITY = 3
  MEMORY_BLOCK_MAX_NUM = 3
  WAIT_TIMER_1 = 97
  UserCalls = {"Create", "MyTid", "Yield"}
  CreatePriorities = {1}
  AwaitedIds = {97}
  Payload = {"a"}
  NoPayload = "none"
  SendLens <- UnitLens
  Lens = {1}
  ReplyAnyone = FALSE
CHECK_DEADLOCK FALSE
PROPERTY RegistersPreserved
