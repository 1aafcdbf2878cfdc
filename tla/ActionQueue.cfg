\* Two producers, so that pushes race each other as well as pop_all; three
\* addresses, so that an address is reused while a push holds it as stale.
SPECIFICATION Spec
CONSTANTS
  NULL = NULL
  Nodes = {n1, n2, n3}
  Producers = {p1, p2}
  MaxPushes = 4
SYMMETRY Symmetry
INVARIANTS
  TypeOK
  BatchPrivate
  HeapExact
PROPERTY ImplementsFifo
