CONSTANTS
  Node = {n1, n2, n3, n4, n5, n6}
  NIL = NIL
  Name = {x}
  Predefined = {}
  BuiltinType = {int}
  Commands = {"declare", "cast", "explain", "explain cast"}
  Derived = {"pointer", "reference"}
  MaxDepth = 2
SPECIFICATION Spec
INVARIANTS OneList ReadRight DeclaredRight ExplainedRight
