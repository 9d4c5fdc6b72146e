SPECIFICATION Spec
CONSTANTS
  numThreads = 4
  M = 10
INVARIANTS
  UmaThreadPorLinha
  LiberaDepoisDeSomar
CHECK_DEADLOCK FALSE
