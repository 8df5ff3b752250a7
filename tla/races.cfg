\* Everything may overlap, fail and crash.
\* Deadlock is off: a crash inside a critical section leaves the semaphore at 0.
SPECIFICATION Spec
CONSTANTS
  m1 = m1
  m2 = m2
  m3 = m3
  a1 = a1
  a2 = a2
  b1 = b1
  b2 = b2
  c1 = c1
  Mains = {m1, m2}
  Copy1s = {}
  Copy2s = {}
  Clis = {c1}
  Procs <- AllProcs
  Owner <- OwnerC1
  None = None
  Probe = Probe
  CliValues = {7}
  WordLimit = 16
  MaxCtr = 1
  Faults = {"crash", "write", "spawn"}
  Overlap = TRUE
INVARIANTS TypeOK MutualExclusion TakenIsHeld
CHECK_DEADLOCK FALSE
