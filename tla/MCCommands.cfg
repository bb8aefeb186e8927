CONSTANTS
  Node = {n1, n2, n3, n4, n5}
  NIL = NIL
  Name = {size_t, t}
  Predefined = {size_t}
  BuiltinType = {int}
  Commands = {"declare", "define", "typedef", "explain"}
  Derived = {"pointer", "rvalue reference"}
  MaxDepth = 2
SPECIFICATION Spec
INVARIANTS TypeOK ReadRight NotCircular RedefinitionExact
PROPERTIES TypesKept ImplementsHeap
