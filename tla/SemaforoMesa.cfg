SPECIFICATION FairSpec
CONSTANTS
  N = 4
INVARIANTS
  VetorExclui
  FomeJustificada
  LugaresCertos
PROPERTIES
  ImplementaJantar
  AlguemSempreCome
CHECK_DEADLOCK FALSE
