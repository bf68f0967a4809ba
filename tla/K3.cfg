SPECIFICATION K3FairSpec
CONSTANTS
  TASK_POOL_SIZE = 9
  TASK_PRIORITY_MAX = 5
  INITIAL_PRIORITY = 3
  MAX_SENDER_CAPACITY = 9
  MEMORY_BLOCK_MAX_NUM = 9
  WAIT_TIMER_1 = 97
  UserCalls <- K3Calls
  CreatePriorities = {1, 2, 3, 4}
  AwaitedIds = {97}
  Payload <- K3Payload
  NoPayload <- NoK3Message
  SendLens <- UnitLens
  Lens = {1}
  ReplyAnyone = FALSE
  CLIENT_PRIORITIES <- Priorities
  CLIENT_DELAYS <- Delays
  CLIENT_NUMS <- Nums
  TICKS_RANGE = 8
  GAP = 6
  TURNAROUND = 12
INVARIANTS MessagesReachServers RepliesAwaited AwaitEventSucceeds
           NotifierInTime
PROPERTY ClientsFinish
