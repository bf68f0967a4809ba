SPECIFICATION FairSpec
CONSTANTS
  Players = {p1, p2, p3, p4}
  ROUNDS = 2
  Moves = {2, 3, 4}
  CHUNKS = 3
INVARIANTS EachAwaitsOneAnswer PairsMutual RoundsAgree OpponentsStay ChunksAccounted
PROPERTY EveryoneFinishes
CHECK_DEADLOCK FALSE
