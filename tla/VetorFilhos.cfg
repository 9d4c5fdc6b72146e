SPECIFICATION Spec
CONSTANTS
  n = 3
  quantElementos = 4
  Restos = {"nada", "igual", "menor"}
INVARIANTS RecebeSua MesmoSegmento UmPronto
PROPERTIES Acaba
CHECK_DEADLOCK FALSE
