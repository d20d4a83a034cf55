SPECIFICATION Spec
CONSTANTS
  server = server
  f1 = f1
  f2 = f2
  p1 = p1
  p2 = p2
  p3 = p3
  NoFile = NoFile
  Runner = {server}
  Framework = "schemaf"
  InitFile = f1
  Line <- MCLine
  File <- MCFile
  PrefixOf <- MCPrefixOf
  VersionOf <- MCVersionOf
  Registered <- MCDuplicate
  Broken = {}
  Rerunnable = {p2}
  Malformed = {}
  MaxFaults = 0
INVARIANT
  DoneMeansApplied
