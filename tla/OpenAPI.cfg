SPECIFICATION DocSpec
CONSTANTS
  A = "A"
  B = "B"
  Struct = {"A", "B"}
  Basic <- MCBasic
  Project <- MCProject
  Depth = 3
CHECK_DEADLOCK FALSE
INVARIANTS
  Resolves
  DocumentsAgree
PROPERTY
  Ends
