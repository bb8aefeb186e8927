CONSTANTS
  Languages = {"knr", "c99", "c++03", "c++11"}
  TypeNames = {}
  Predefined = {}
  Commands = {"declare", "cast", "static cast"}
  Storages <- DeclareStorages
  Derived = {"pointer", "pointer to member", "reference", "rvalue reference", "array", "function", "block", "named"}
  Qualified <- DeclareQualified
  Arrays <- DeclareArrays
  Types <- DeclareTypes
  Leaves = {"x", "..."}
  MaxNodes = 4
SPECIFICATION Spec
INVARIANTS TypeOK CheckedRight
