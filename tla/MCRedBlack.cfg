CONSTANTS
  Key = {1, 2, 3, 4, 5, 6, 7, 8}
  ROOT = ROOT
  NIL = NIL
  GARBAGE = GARBAGE
SPECIFICATION Spec
INVARIANTS TypeOK Ordered Linked Balanced FreedOnce
PROPERTIES ImplementsTable
