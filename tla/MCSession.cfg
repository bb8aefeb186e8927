CONSTANTS
  Capacity = 2
  TermColumns = 10
  MaxTokens = 4
  MaxSources = 3
  Modes = {"argument", "file", "terminal", "stream"}
SPECIFICATION Spec
INVARIANTS TypeOK InOrder StatusRight ErrorShown
PROPERTIES Terminates
