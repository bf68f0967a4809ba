SPECIFICATION FairSpec
CONSTANTS
  clock_server = clock_server
  rps_server = rps_server
  other = other
  Clients = {4, 5}
  ServerTid = 2
  Names = {clock_server, rps_server, other}
  Slot <- MCSlot
INVARIANTS AnswersHonest RegisteredIsFound
PROPERTY CallsReturn
