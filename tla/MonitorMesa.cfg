SPECIFICATION MFairSpec
CONSTANTS
  n = 5
INVARIANTS
  NemTodosDormem
PROPERTIES
  EUmJantar
  SempreAlguemCome
CHECK_DEADLOCK FALSE
