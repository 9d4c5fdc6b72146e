SPECIFICATION CSpec
CONSTANTS
  Cpu = 1
  MAX = 5
  Blocos = 3
INVARIANTS CopiaCerta
CHECK_DEADLOCK FALSE
