SPECIFICATION ConsoleFairSpec
CONSTANTS
  M = 64
  Printers = {p1, p2, p3}
  Texts <- MCTexts
  Formats <- MCFormats
  FIFO = 4
  MAXTEMP = 4
INVARIANTS LostOnlyByOverlap PrintedAndReadBack
PROPERTY PrintsFinish
CHECK_DEADLOCK FALSE
