\* Violated: an answer without entries is announced as one byte shorter than it is.
SPECIFICATION Spec
CONSTANTS
  Second = 2
  MaxNow = 4
  Faults = {}
  Period <- Periods
  Keep <- Keeps
  Leftover <- CleanStart
  MaxRows = 3
  Ranges <- AllDates
  Failed = Failed
INVARIANT LengthAnnounced
