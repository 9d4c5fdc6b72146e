SPECIFICATION FairSpec
CONSTANT
  Desiste = {0, 1, 2}
  Abertura <- Meio
INVARIANTS
  Acordo
  VereditoCerto
PROPERTIES
  UmJogoSo
  TodosSaem
CHECK_DEADLOCK FALSE
