CONSTANTS
  Node = {n1, n2, n3, n4, n5}
  NIL = NIL
  Name = {x}
  Predefined = {}
  BuiltinType = {int}
  Commands = {"explain"}
  Derived = {"pointer"}
  MaxDepth = 2
SPECIFICATION Spec
INVARIANTS NameFound
