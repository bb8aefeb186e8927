CONSTANTS
  Node = {n1, n2, n3, n4, n5}
  NIL = NIL
  Name = {t}
  Predefined = {}
  BuiltinType = {int}
  Commands = {"typedef"}
  Derived = {"pointer"}
  MaxDepth = 2
SPECIFICATION Spec
INVARIANTS CleanExit
