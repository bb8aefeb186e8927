CONSTANTS
  Languages = {"knr", "c99"}
  TypeNames = {"t", "size_t"}
  Predefined = {"size_t"}
  Commands = {"define", "show"}
  Storages <- DefineStorages
  Derived = {"pointer", "array", "function", "named"}
  Qualified <- DefineQualified
  Arrays <- DefineArrays
  Types <- DefineTypes
  Leaves = {}
  MaxNodes = 5
SPECIFICATION Spec
INVARIANTS ShownRight RedefinedExact
