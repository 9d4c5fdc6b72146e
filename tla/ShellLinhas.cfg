SPECIFICATION ShFairSpec
CONSTANTS
  MaxLinhas = 4
  Diretorio = {0, 1}
INVARIANTS Divida UmSoLeitor
PROPERTIES EsperaTermina
CHECK_DEADLOCK FALSE
