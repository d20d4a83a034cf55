SPECIFICATION Spec
CONSTANTS
  server = server
  command = command
  neighbour = neighbour
  Agent = {server, command}
  Server = {server}
  ProjectOf <- MCProjectOf
  Retain = 1
  Day = 3
  Hour = 1
  MaxNow = 6
  MaxRuns = 1
  MaxFaults = 2
CHECK_DEADLOCK FALSE
INVARIANTS
  GapBounded
  LittleIsLeft
PROPERTIES
  NewestWholeStays
