SPECIFICATION Spec
CONSTANTS
  MAX_TASK_NUM = 3
  TASK_PRIORITY_MAX = 2
  t1 = t1  t2 = t2  t3 = t3
  Queues = {qa, qb}
  Plain = {jobq}
  Tasks = {t1, t2, t3}
  Priority <- MCPriority
INVARIANTS ListsConsistent
PROPERTY ImplementsTaskLists
CHECK_DEADLOCK FALSE
