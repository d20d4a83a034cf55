SPECIFICATION Spec
CONSTANTS
  Given <- MCGiven
  Changing <- MCChanging
  Edited <- MCEdited
  MaxEdits = 2
  MaxCuts = 1
INVARIANTS
  Fresh
  ClientsAgree
PROPERTY
  OwnFilesKept
