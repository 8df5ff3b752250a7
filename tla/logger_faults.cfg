\* The logger alone, everything may fail.
\* Deadlock is off: the logger ends.
SPECIFICATION FairLoggerSpec
CONSTANTS
  Second = 1
  MaxNow = 4
  MaxRows = 3
  Faults = {"delete", "insert", "select", "read"}
  Period <- FastPeriods
  Keep <- FastKeeps
  Leftover <- AnyStart
PROPERTIES AverageIsRecent TimerMovesWithRow LoggerStops
CHECK_DEADLOCK FALSE
