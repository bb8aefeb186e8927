CONSTANTS
  Node = {n1, n2, n3, n4, n5, n6, n7}
  NIL = NIL
  Name = {x}
  Predefined = {}
  BuiltinType = {int}
  Commands = {"explain"}
  Derived = {"pointer"}
  MaxDepth = 2
SPECIFICATION Spec
INVARIANTS ReadRight
