SPECIFICATION FairSpec
CONSTANTS
  Cliente = {c1, c2}
  Pedidos <- Variados
  Reinicios = 1
  NINGUEM = NINGUEM
INVARIANTS RespostaCerta EsperaJustificada
PROPERTIES FimConjunto
CHECK_DEADLOCK FALSE
