SPECIFICATION FairSpec
CONSTANTS
  Cliente = {c1, c2}
  Pedidos <- Variados
  Reinicios = 1
INVARIANTS
  RespostaCerta
  NuncaEnche
PROPERTIES
  Respondido
CHECK_DEADLOCK FALSE
