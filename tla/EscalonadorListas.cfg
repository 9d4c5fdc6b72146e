SPECIFICATION FairSpec
CONSTANTS
  Tabelas <- MCTabelas
INVARIANTS
  ListasCertas
  ExecutaTudo
PROPERTIES
  EscolheCerto
  
  Termina
CHECK_DEADLOCK FALSE
