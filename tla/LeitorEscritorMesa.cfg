SPECIFICATION LFairSpec
CONSTANTS
  num_escritor = 3
  num_leitores = 4
INVARIANTS
  LeitorNaoBarraLeitor
PROPERTIES
  ImplementaLeituraEscrita
  AlguemEntra
CHECK_DEADLOCK FALSE
