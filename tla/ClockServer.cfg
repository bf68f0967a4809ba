SPECIFICATION FairSpec
CONSTANTS
  Clients = {c1, c2}
  notifier = notifier
  I32Max = 3
  CHUNKS = 2
  Arguments <- MCArguments
INVARIANTS EachAwaitsOneAnswer DelayQueueOrdered ChunksAccounted TicksAccounted
           NotEarly ReturnsOnTime
PROPERTY EveryCallReturns
