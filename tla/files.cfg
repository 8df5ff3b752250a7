\* The logger on files: a device that is cut off, kills and restarts.
SPECIFICATION FairSpec
CONSTANTS
  Messages = {"whole", "long", "short"}
  Keep <- Keeps
  Period <- Periods
  Chunk = 1
  Leftover <- AnyStart
  Crashes = TRUE
  MaxNow = 4
  MaxLines = 2
  MaxStarts = 2
INVARIANTS TypeOK InDateOrder FirstExact AverageFindsEntries NoFragmentLogged
PROPERTIES ImplementsQueue PrunedLinesStay LoggerEnds
