\* The logger and the server over the same tables; a read of the server may fail.
SPECIFICATION FairSpec
CONSTANTS
  Second = 2
  MaxNow = 5
  MaxRows = 3
  Faults = {"query"}
  Period <- Periods
  Keep <- Keeps
  Leftover <- AnyStart
  Ranges <- SomeDates
  Failed = Failed
INVARIANTS TypeOK OverrunByOne EntriesAnnounced NoBacklog AverageIncludesReading
PROPERTY ClientServed
