CONSTANTS
  Node = {n1, n2, n3}
  NIL = NIL
SPECIFICATION Spec
INVARIANTS TypeOK CountExact NoDangling SingleOwner
PROPERTIES DefinitionsKept
SYMMETRY Cells
