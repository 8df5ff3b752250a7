\* Violated: the logger writes between the count and the select.
SPECIFICATION Spec
CONSTANTS
  Second = 2
  MaxNow = 4
  Faults = {}
  Period <- Periods
  Keep <- Keeps
  Leftover <- CleanStart
  MaxRows = 3
  Ranges <- AllDates
  Failed = Failed
INVARIANT ArrayExact
