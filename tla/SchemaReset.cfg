SPECIFICATION ResetSpec
CONSTANTS
  reset = reset
  again = again
  token = token
  f1 = f1
  f2 = f2
  p1 = p1
  p2 = p2
  p3 = p3
  q1 = q1
  q2 = q2
  NoFile = NoFile
  Runner = {reset, again, token}
  Resetter = {reset, again}
  Framework = "schemaf"
  InitFile = f1
  Line <- MCLine
  File <- MCFile
  PrefixOf <- MCPrefixOf
  VersionOf <- MCVersionOf
  Registered <- MCRegistered
  Broken = {}
  Rerunnable = {p2, p3}
  Malformed = {q2}
  MaxFaults = 1
INVARIANTS
  OneFilePerVersion
  RefusedWhole
  ResetKeepsRecords
  DoneUnlessOvertaken
PROPERTIES
  InOrderUnlessOvertaken
