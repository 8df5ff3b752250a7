\* Three mains come, take over and go; liveness.
SPECIFICATION FairSpec
CONSTANTS
  m1 = m1
  m2 = m2
  m3 = m3
  a1 = a1
  a2 = a2
  b1 = b1
  b2 = b2
  c1 = c1
  Mains = {m1, m2, m3}
  Copy1s = {}
  Copy2s = {}
  Clis = {}
  Procs <- AllProcs
  Owner <- NoOwner
  None = None
  Probe = Probe
  CliValues = {7}
  WordLimit = 16
  MaxCtr = 0
  Faults = {}
  Overlap = FALSE
INVARIANT SingleOrigin
PROPERTIES LastTakesOver Takeover CtrlCEnds
