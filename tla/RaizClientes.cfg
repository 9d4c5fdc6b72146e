SPECIFICATION FairSpec
CONSTANTS
  Programas = {"pipe", "fifo"}
  Inicios = 2
  Numeros = {4}
  CAPACIDADE = 4
INVARIANTS RespostaCerta NinguemTrava MaoUnica
PROPERTIES OrfaoAcaba
CHECK_DEADLOCK FALSE
