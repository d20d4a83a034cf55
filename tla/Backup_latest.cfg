SPECIFICATION Spec
CONSTANTS
  server = server
  command = command
  neighbour = neighbour
  Agent = {server, command}
  Server = {server}
  ProjectOf <- MCProjectOf
  Retain = 9
  Day = 3
  Hour = 1
  MaxNow = 7
  MaxRuns = 1
  MaxFaults = 1
CHECK_DEADLOCK FALSE
INVARIANT
  RestoredIsWhole
