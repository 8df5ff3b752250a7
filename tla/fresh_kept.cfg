\* Violated: every plain-text row is deleted, whatever its age.
\* Deadlock is off: the logger ends.
SPECIFICATION LoggerSpec
CONSTANTS
  Second = 2
  MaxNow = 4
  Faults = {}
  Period <- Periods
  Keep <- Keeps
  Leftover <- CleanStart
  MaxRows = 3
PROPERTY FreshKept
CHECK_DEADLOCK FALSE
