\* Two mains and two rounds of copies.
SPECIFICATION Spec
CONSTANTS
  m1 = m1
  m2 = m2
  m3 = m3
  a1 = a1
  a2 = a2
  b1 = b1
  b2 = b2
  c1 = c1
  Mains = {m1, m2}
  Copy1s = {a1, a2}
  Copy2s = {b1, b2}
  Clis = {}
  Procs <- AllProcs
  Owner <- NoOwner
  None = None
  Probe = Probe
  CliValues = {7}
  WordLimit = 32
  MaxCtr = 1
  Faults = {}
  Overlap = FALSE
SYMMETRY Symmetry
INVARIANTS RefCountExact NamesInUse ReadIsFresh OneCopyPair
PROPERTY ImplementsService
