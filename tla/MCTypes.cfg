CONSTANTS
  Languages = {"knr", "c89", "c95", "c99", "c11"}
  Builtin = {"void", "bool", "char", "wchar_t", "int", "float", "double"}
  Modifier = {"short", "long", "signed", "unsigned", "complex", "static", "const"}
  MaxTokens = 4
SPECIFICATION Spec
INVARIANTS TypeOK OrderFree LegalExact NameReadBack
